---------------------------- MODULE EpisodeLease ----------------------------
(***************************************************************************)
(* The fenced episode leases of src/hybrid/lease.py.                       *)
(*                                                                         *)
(* Every operation is one SQLite transaction except release, which asserts *)
(* in one and deletes in a second.  Each takes the caller's reading of the *)
(* wall clock as an argument; the caller then waits for the transaction,   *)
(* so the reading a run acts on may be older than the clock.               *)
(***************************************************************************)
EXTENDS Naturals

CONSTANTS
    Episodes,   \* episode ids
    Runs,       \* run ids: the identities that acquire leases
    NoRun,      \* the owner of the row that does not exist
    TTLs,       \* the lease durations callers pass
    MaxTime,    \* bound: the clock stops here
    MaxEpoch    \* bound: tokens granted per episode

ASSUME TTLAssumption == TTLs \subseteq Nat \ {0}
ASSUME RunAssumption == NoRun \notin Runs
ASSUME LeaseBounds == MaxTime \in Nat /\ MaxEpoch \in Nat

VARIABLES
    now,        \* the wall clock
    leases,     \* table episode_leases: leases[e] is a row, NoLease if absent
    epochs,     \* table episode_lease_epochs: the irreversible last epoch
    read,       \* read[r]: the clock reading run r passes to its next call
    held,       \* held[r][e]: the EpisodeLease object run r keeps
    releasing   \* releasing[r][e]: release() is between its two transactions

leaseVars == <<now, leases, epochs, read, held, releasing>>

Lease == [run : Runs, token : Nat \ {0}, acquired : Nat, heartbeat : Nat, expires : Nat]

NoLease == [run |-> NoRun, token |-> 0, acquired |-> 0, heartbeat |-> 0, expires |-> 0]

LeaseInit ==
    /\ now = 0
    /\ leases = [e \in Episodes |-> NoLease]
    /\ epochs = [e \in Episodes |-> 0]
    /\ read = [r \in Runs |-> 0]
    /\ held = [r \in Runs |-> [e \in Episodes |-> NoLease]]
    /\ releasing = [r \in Runs |-> [e \in Episodes |-> FALSE]]

-----------------------------------------------------------------------------

Tick ==
    /\ now < MaxTime
    /\ now' = now + 1
    /\ UNCHANGED <<leases, epochs, read, held, releasing>>

\* time.time(), evaluated by the caller before the call waits for SQLite.
ReadClock(r) ==
    /\ read' = [read EXCEPT ![r] = now]
    /\ UNCHANGED <<now, leases, epochs, held, releasing>>

\* The same grant with a new heartbeat and expiry.
Extended(lease, n, ttl) ==
    [run |-> lease.run, token |-> lease.token, acquired |-> lease.acquired,
     heartbeat |-> n, expires |-> n + ttl]

StoreRow(r, e, lease) ==
    /\ leases' = [leases EXCEPT ![e] = lease]
    /\ held' = [held EXCEPT ![r][e] = lease]
    /\ UNCHANGED <<now, read, releasing>>

\* acquire() by the run whose row is still unexpired: same token, extended.
Reacquire(r, e, ttl) ==
    /\ ~releasing[r][e]
    /\ leases[e].run = r
    /\ leases[e].expires > read[r]
    /\ StoreRow(r, e, Extended(leases[e], read[r], ttl))
    /\ UNCHANGED epochs

\* Mutant: the clock is compared with some grace.
TakeableWithGrace(r, e) == leases[e].run = NoRun \/ leases[e].expires <= read[r] + 1

\* acquire() takes over when there is no row, or an expired one.
Takeable(r, e) == leases[e].run = NoRun \/ leases[e].expires <= read[r]

\* Mutant: the epoch is counted from the row, which release() deletes.
NextEpochFromRow(e) == leases[e].token + 1

NextEpoch(e) == epochs[e] + 1

\* acquire() over no row or an expired one: the next epoch becomes the token.
\* An unexpired row of another run raises and changes nothing.
AcquireNew(r, e, ttl) ==
    /\ ~releasing[r][e]
    /\ Takeable(r, e)
    /\ epochs[e] < MaxEpoch
    /\ epochs' = [epochs EXCEPT ![e] = NextEpoch(e)]
    /\ StoreRow(r, e, [run |-> r, token |-> NextEpoch(e), acquired |-> read[r],
                       heartbeat |-> read[r], expires |-> read[r] + ttl])

\* The check renew(), assert_active() and release() share: the stored row is
\* the caller's lease object, field by field, and it has not expired.
AssertActive(r, e) ==
    /\ leases[e] # NoLease
    /\ leases[e] = held[r][e]
    /\ held[r][e].expires > read[r]

Renew(r, e, ttl) ==
    /\ ~releasing[r][e]
    /\ AssertActive(r, e)
    /\ StoreRow(r, e, Extended(held[r][e], read[r], ttl))
    /\ UNCHANGED epochs

\* release(), first transaction: assert_active.
ReleaseAssert(r, e) ==
    /\ ~releasing[r][e]
    /\ AssertActive(r, e)
    /\ releasing' = [releasing EXCEPT ![r][e] = TRUE]
    /\ UNCHANGED <<now, leases, epochs, read, held>>

\* Mutant: the DELETE names the episode only.
DeletesAnyRow(r, e) == leases[e] # NoLease

\* The WHERE clause of release(): episode, run and token.
DeletesRow(r, e) == leases[e].run = r /\ leases[e].token = held[r][e].token

\* release(), second transaction: delete by run and token, whatever the other
\* columns say now.  With no such row it raises and deletes nothing.
ReleaseDelete(r, e) ==
    /\ releasing[r][e]
    /\ releasing' = [releasing EXCEPT ![r][e] = FALSE]
    /\ IF DeletesRow(r, e)
       THEN /\ leases' = [leases EXCEPT ![e] = NoLease]
            /\ held' = [held EXCEPT ![r][e] = NoLease]
       ELSE UNCHANGED <<leases, held>>
    /\ UNCHANGED <<now, epochs, read>>

\* The process of run r dies: its lease objects are gone, the rows are not.
Crash(r) ==
    /\ held' = [held EXCEPT ![r] = [e \in Episodes |-> NoLease]]
    /\ releasing' = [releasing EXCEPT ![r] = [e \in Episodes |-> FALSE]]
    /\ UNCHANGED <<now, leases, epochs, read>>

RunStep(r) ==
    \/ ReadClock(r)
    \/ Crash(r)
    \/ \E e \in Episodes : ReleaseAssert(r, e) \/ ReleaseDelete(r, e)
    \/ \E e \in Episodes, ttl \in TTLs :
          Reacquire(r, e, ttl) \/ AcquireNew(r, e, ttl) \/ Renew(r, e, ttl)

LeaseNext == Tick \/ \E r \in Runs : RunStep(r)

LeaseSpec == LeaseInit /\ [][LeaseNext]_leaseVars

-----------------------------------------------------------------------------

LeaseTypeOK ==
    /\ now \in Nat
    /\ leases \in [Episodes -> Lease \cup {NoLease}]
    /\ epochs \in [Episodes -> Nat]
    /\ read \in [Runs -> Nat]
    /\ held \in [Runs -> [Episodes -> Lease \cup {NoLease}]]
    /\ releasing \in [Runs -> [Episodes -> BOOLEAN]]

\* A clock reading is never ahead of the clock.
ReadingsArePast == \A r \in Runs : read[r] <= now

\* The row, when there is one, carries the newest token ever granted, so no
\* lease that was superseded or released can match it again.
RowIsNewest == \A e \in Episodes : leases[e] # NoLease => leases[e].token = epochs[e]

\* Every lease object a run still keeps was granted from the tombstone.
HeldWasGranted == \A r \in Runs, e \in Episodes : held[r][e].token <= epochs[e]

\* The row's owner is the only run keeping a lease object with its token.
RowTokenIsOwners ==
    \A r \in Runs, e \in Episodes :
        held[r][e] # NoLease /\ held[r][e].token = leases[e].token => leases[e].run = r

\* A fencing token identifies one run: two runs that keep lease objects of an
\* episode keep different tokens, expired or not (acquire, lease.py:56-79).
TokenNamesOneRun ==
    \A r1, r2 \in Runs, e \in Episodes :
        /\ held[r1][e] # NoLease
        /\ held[r1][e].token = held[r2][e].token
        => r1 = r2

LeaseInv ==
    /\ LeaseTypeOK
    /\ ReadingsArePast
    /\ RowIsNewest
    /\ HeldWasGranted
    /\ RowTokenIsOwners
    /\ TokenNamesOneRun

Live(e) == leases[e] # NoLease /\ leases[e].expires > now

\* A run that has lost its token stays fenced for good: once its lease object
\* differs in token from the row it never matches a row again unless the run
\* acquires anew (the epoch tombstone, lease.py:70-73, survives the DELETE).
SupersededStaysFenced ==
    [][\A r \in Runs, e \in Episodes :
          /\ held[r][e] # NoLease
          /\ held[r][e].token # leases[e].token
          /\ held'[r][e] = held[r][e]
          => held'[r][e].token # leases'[e].token]_leaseVars

\* While a lease is unexpired by the clock only its own run changes the row,
\* whichever old clock readings the other runs act on (lease.py:63, 106).
LiveRowIsOwners ==
    [][\A e \in Episodes :
          Live(e) /\ leases'[e] # leases[e] =>
              LET owner == leases[e].run
              IN  /\ leases'[e].run \in {owner, NoRun}
                  /\ held'[owner][e] = leases'[e]]_leaseVars

\* The lease store implements the fenced lease (refinement mapping below).
Fenced == INSTANCE FencedLease WITH
    token <- [e \in Episodes |-> leases[e].token],
    live <- {e \in Episodes : Live(e)},
    last <- epochs

ImplementsFencedLease == Fenced!FencedSpec

=============================================================================
