----------------------------- MODULE EpisodeProofs -----------------------------
(***************************************************************************)
(* An episode: the lease under which one run at a time may work on it, and *)
(* the director that turns it into a master.                               *)
(*                                                                         *)
(* The fencing argument of the lease holds for every set of episodes and   *)
(* runs, every TTL and every bound.  RowIsNewest is what makes the         *)
(* tombstone count: the row always carries the newest token, so whatever   *)
(* lease object is older can never equal it.                               *)
(*                                                                         *)
(* The director and its compiled production, for any scenes, codes,        *)
(* callers, render threads, budget and number of faults, rest on three     *)
(* arguments that hardly touch each other.  A passing verdict is final     *)
(* (Stable), so what was approved when a contract was closed is approved   *)
(* when it is rendered.  The render lock makes the evidence files          *)
(* write-once, in an order each thread knows (ThreadKnows).  And a plan is *)
(* written once, before anyone asks for its approval (PlanIsAhead).        *)
(***************************************************************************)
EXTENDS EpisodeLease, EpisodeDirector, TLAPS

-----------------------------------------------------------------------------
(* The lease *)

\* A step of one operation touches one row and one run's lease object.
LEMMA NoLeaseFacts ==
    /\ NoLease.token = 0
    /\ NoLease.run = NoRun
    /\ \A l \in Lease : l # NoLease /\ l.token # 0 /\ l.token \in Nat /\ l.run \in Runs
                        /\ l.expires \in Nat /\ l.heartbeat \in Nat /\ l.acquired \in Nat
    /\ NoLease \notin Lease
BY RunAssumption DEF NoLease, Lease

\* Extending a lease keeps the type, the owner and the token.
LEMMA ExtendedType ==
    ASSUME NEW l \in Lease, NEW n \in Nat, NEW ttl \in TTLs
    PROVE  /\ Extended(l, n, ttl) \in Lease
           /\ Extended(l, n, ttl).token = l.token
           /\ Extended(l, n, ttl).run = l.run
BY TTLAssumption DEF Extended, Lease

\* The inductive invariant is preserved by every operation of the lease
\* store, by the clock and by a crash (lease.py:56-108).
LEMMA LeaseInvStep ==
    ASSUME LeaseInv, [LeaseNext]_leaseVars
    PROVE  LeaseInv'
<1> USE DEF LeaseInv
<1>1. CASE Tick
  BY <1>1 DEF Tick, LeaseTypeOK, ReadingsArePast, RowIsNewest, HeldWasGranted,
              RowTokenIsOwners, TokenNamesOneRun
<1>2. CASE UNCHANGED leaseVars
  BY <1>2 DEF leaseVars, LeaseTypeOK, ReadingsArePast, RowIsNewest, HeldWasGranted,
              RowTokenIsOwners, TokenNamesOneRun
<1>3. ASSUME NEW r \in Runs, ReadClock(r) PROVE LeaseInv'
  BY <1>3 DEF ReadClock, LeaseTypeOK, ReadingsArePast, RowIsNewest, HeldWasGranted,
              RowTokenIsOwners, TokenNamesOneRun
<1>4. ASSUME NEW r \in Runs, Crash(r) PROVE LeaseInv'
  <2> USE <1>4 DEF Crash
  <2>1. LeaseTypeOK' /\ ReadingsArePast' /\ RowIsNewest'
    BY DEF LeaseTypeOK, ReadingsArePast, RowIsNewest
  <2>2. \A s \in Runs, e \in Episodes : held'[s][e] \in {held[s][e], NoLease}
    BY DEF LeaseTypeOK
  <2>3. HeldWasGranted'
    BY <2>2, NoLeaseFacts DEF LeaseTypeOK, HeldWasGranted
  <2>4. RowTokenIsOwners'
    BY <2>2 DEF RowTokenIsOwners
  <2>5. TokenNamesOneRun'
    <3> SUFFICES ASSUME NEW r1 \in Runs, NEW r2 \in Runs, NEW e \in Episodes,
                        held'[r1][e] # NoLease, held'[r1][e].token = held'[r2][e].token
                 PROVE  r1 = r2
      BY DEF TokenNamesOneRun
    <3>1. held'[r1][e] = held[r1][e] /\ held[r1][e] \in Lease
      BY <2>2 DEF LeaseTypeOK
    <3>2. held'[r2][e] # NoLease
      BY <3>1, NoLeaseFacts
    <3> QED BY <3>1, <3>2, <2>2 DEF TokenNamesOneRun
  <2> QED BY <2>1, <2>3, <2>4, <2>5
<1>5. ASSUME NEW r \in Runs, NEW e \in Episodes, ReleaseAssert(r, e) PROVE LeaseInv'
  BY <1>5 DEF ReleaseAssert, LeaseTypeOK, ReadingsArePast, RowIsNewest, HeldWasGranted,
              RowTokenIsOwners, TokenNamesOneRun
<1>6. ASSUME NEW r \in Runs, NEW e \in Episodes, ReleaseDelete(r, e) PROVE LeaseInv'
  <2> USE <1>6 DEF ReleaseDelete
  <2>1. CASE ~DeletesRow(r, e)
    BY <2>1 DEF LeaseTypeOK, ReadingsArePast, RowIsNewest, HeldWasGranted,
                RowTokenIsOwners, TokenNamesOneRun
  <2>2. CASE DeletesRow(r, e)
    <3>8. /\ leases' = [leases EXCEPT ![e] = NoLease]
          /\ held' = [held EXCEPT ![r][e] = NoLease]
          /\ UNCHANGED <<now, epochs, read>>
      BY <2>2
    <3>9. releasing' \in [Runs -> [Episodes -> BOOLEAN]]
      BY DEF LeaseTypeOK
    <3>10. held' \in [Runs -> [Episodes -> Lease \cup {NoLease}]]
      BY <3>8 DEF LeaseTypeOK
    <3> HIDE <1>6 DEF ReleaseDelete
    <3>1. LeaseTypeOK' /\ ReadingsArePast' /\ RowIsNewest'
      BY <3>8, <3>9, <3>10 DEF LeaseTypeOK, ReadingsArePast, RowIsNewest
    <3>2. \A s \in Runs, f \in Episodes : held'[s][f] \in {held[s][f], NoLease}
      BY <3>8 DEF LeaseTypeOK
    <3>3. \A f \in Episodes : leases'[f] = IF f = e THEN NoLease ELSE leases[f]
      BY <3>8 DEF LeaseTypeOK
    <3>4. HeldWasGranted'
      BY <3>8, <3>2, NoLeaseFacts DEF LeaseTypeOK, HeldWasGranted
    <3>5. \A s \in Runs, f \in Episodes : held'[s][f] # NoLease => held'[s][f].token # 0
      BY <3>1, NoLeaseFacts DEF LeaseTypeOK
    <3>6. RowTokenIsOwners'
      BY <3>2, <3>3, <3>5, NoLeaseFacts DEF RowTokenIsOwners
    <3>7. TokenNamesOneRun'
      <4> SUFFICES ASSUME NEW r1 \in Runs, NEW r2 \in Runs, NEW f \in Episodes,
                          held'[r1][f] # NoLease, held'[r1][f].token = held'[r2][f].token
                   PROVE  r1 = r2
        BY DEF TokenNamesOneRun
      <4>1. held'[r2][f] # NoLease
        BY <3>5, NoLeaseFacts
      <4> QED BY <4>1, <3>2 DEF TokenNamesOneRun
    <3> QED BY <3>1, <3>4, <3>6, <3>7
  <2> QED BY <2>1, <2>2
<1>7. ASSUME NEW r \in Runs, NEW e \in Episodes, NEW l \in Lease,
             StoreRow(r, e, l), UNCHANGED epochs,
             leases[e] # NoLease, leases[e].run = r, l.run = r, l.token = leases[e].token
      PROVE  LeaseInv'
  \* A holder that extends its lease keeps run and token.
  <2> USE <1>7 DEF StoreRow
  <2>1. LeaseTypeOK' /\ ReadingsArePast'
    BY DEF LeaseTypeOK, ReadingsArePast
  <2>2. /\ \A f \in Episodes : leases'[f] = IF f = e THEN l ELSE leases[f]
        /\ \A s \in Runs, f \in Episodes :
              held'[s][f] = IF s = r /\ f = e THEN l ELSE held[s][f]
    BY DEF LeaseTypeOK
  <2>3. RowIsNewest' /\ HeldWasGranted'
    BY <2>2, NoLeaseFacts DEF RowIsNewest, HeldWasGranted, LeaseTypeOK
  <2>4. RowTokenIsOwners'
    BY <2>2 DEF RowTokenIsOwners
  <2>5. TokenNamesOneRun'
    <3> SUFFICES ASSUME NEW r1 \in Runs, NEW r2 \in Runs, NEW f \in Episodes,
                        held'[r1][f] # NoLease, held'[r1][f].token = held'[r2][f].token
                 PROVE  r1 = r2
      BY DEF TokenNamesOneRun
    <3>1. held'[r2][f] # NoLease
      BY <2>1, NoLeaseFacts DEF LeaseTypeOK
    <3>2. CASE f = e /\ (r1 = r \/ r2 = r)
      BY <3>1, <3>2, <2>2, <2>4, NoLeaseFacts DEF RowTokenIsOwners
    <3>3. CASE ~(f = e /\ (r1 = r \/ r2 = r))
      BY <3>3, <2>2 DEF TokenNamesOneRun
    <3> QED BY <3>2, <3>3
  <2> QED BY <2>1, <2>3, <2>4, <2>5
<1>8. ASSUME NEW r \in Runs, NEW e \in Episodes, NEW ttl \in TTLs, Reacquire(r, e, ttl)
      PROVE  LeaseInv'
  <2>1. leases[e] \in Lease /\ leases[e] # NoLease /\ read[r] \in Nat
    BY <1>8, NoLeaseFacts, RunAssumption DEF Reacquire, LeaseTypeOK
  <2> QED BY <2>1, <1>8, <1>7, ExtendedType DEF Reacquire
<1>9. ASSUME NEW r \in Runs, NEW e \in Episodes, NEW ttl \in TTLs, Renew(r, e, ttl)
      PROVE  LeaseInv'
  <2>1. /\ leases[e] \in Lease /\ leases[e] # NoLease /\ leases[e] = held[r][e]
        /\ read[r] \in Nat /\ leases[e].run = r
    BY <1>9 DEF Renew, AssertActive, LeaseTypeOK, RowTokenIsOwners
  <2> QED BY <2>1, <1>9, <1>7, ExtendedType DEF Renew
<1>10. ASSUME NEW r \in Runs, NEW e \in Episodes, NEW ttl \in TTLs, AcquireNew(r, e, ttl)
       PROVE  LeaseInv'
  <2> DEFINE l == [run |-> r, token |-> NextEpoch(e), acquired |-> read[r],
                   heartbeat |-> read[r], expires |-> read[r] + ttl]
  <2>1. l \in Lease /\ l.token = epochs[e] + 1 /\ l.run = r /\ epochs[e] \in Nat
    BY TTLAssumption DEF LeaseTypeOK, Lease, NextEpoch
  <2>2. StoreRow(r, e, l) /\ epochs' = [epochs EXCEPT ![e] = epochs[e] + 1]
    BY <1>10 DEF AcquireNew, NextEpoch
  <2> HIDE DEF l
  <2> USE <2>2 DEF StoreRow
  <2>3. LeaseTypeOK' /\ ReadingsArePast'
    BY <2>1 DEF LeaseTypeOK, ReadingsArePast
  <2>4. /\ \A f \in Episodes : leases'[f] = IF f = e THEN l ELSE leases[f]
        /\ \A f \in Episodes : epochs'[f] = IF f = e THEN epochs[e] + 1 ELSE epochs[f]
        /\ \A s \in Runs, f \in Episodes :
              held'[s][f] = IF s = r /\ f = e THEN l ELSE held[s][f]
    BY DEF LeaseTypeOK
  <2>5. RowIsNewest'
    BY <2>1, <2>4 DEF RowIsNewest
  <2>6. \A s \in Runs, f \in Episodes : held[s][f].token \in Nat
    BY NoLeaseFacts DEF LeaseTypeOK
  <2>7. HeldWasGranted'
    BY <2>1, <2>4, <2>6 DEF HeldWasGranted, LeaseTypeOK
  <2>8. \A s \in Runs : s # r => held'[s][e].token < l.token
    BY <2>1, <2>4, <2>6 DEF HeldWasGranted
  <2>9. RowTokenIsOwners'
    BY <2>1, <2>4, <2>6, <2>8 DEF RowTokenIsOwners
  <2>10. TokenNamesOneRun'
    <3> SUFFICES ASSUME NEW r1 \in Runs, NEW r2 \in Runs, NEW f \in Episodes,
                        held'[r1][f] # NoLease, held'[r1][f].token = held'[r2][f].token
                 PROVE  r1 = r2
      BY DEF TokenNamesOneRun
    <3>1. CASE f = e /\ (r1 = r \/ r2 = r)
      BY <3>1, <2>1, <2>4, <2>6, <2>8
    <3>2. CASE ~(f = e /\ (r1 = r \/ r2 = r))
      BY <3>2, <2>4 DEF TokenNamesOneRun
    <3> QED BY <3>1, <3>2
  <2> QED BY <2>3, <2>5, <2>7, <2>9, <2>10
<1> QED
  BY <1>1, <1>2, <1>3, <1>4, <1>5, <1>6, <1>8, <1>9, <1>10 DEF LeaseNext, RunStep

\* The lease store starts in the invariant.
LEMMA LeaseInvInit == LeaseInit => LeaseInv
BY NoLeaseFacts DEF LeaseInit, LeaseInv, LeaseTypeOK, ReadingsArePast, RowIsNewest,
                    HeldWasGranted, RowTokenIsOwners, TokenNamesOneRun

\* In every reachable state a row carries the newest token of its episode and
\* a fencing token names one run (the tombstone of lease.py:70-73).
THEOREM LeaseSafety == LeaseSpec => []LeaseInv
BY LeaseInvInit, LeaseInvStep, PTL DEF LeaseSpec

-----------------------------------------------------------------------------

\* How each operation moves a row: nothing, the owner's extension, a fresh
\* token over a row that is not live, or the owner's deletion.
LEMMA LeaseRowMoves ==
    ASSUME LeaseInv, [LeaseNext]_leaseVars, NEW e \in Episodes
    PROVE  \/ leases'[e] = leases[e] /\ epochs'[e] = epochs[e]
           \/ /\ epochs'[e] = epochs[e]
              /\ leases[e] # NoLease /\ leases'[e] \in Lease
              /\ leases'[e].token = leases[e].token /\ leases'[e].run = leases[e].run
              /\ held'[leases[e].run][e] = leases'[e]
           \/ /\ epochs'[e] = epochs[e] + 1
              /\ ~Live(e) /\ leases'[e].token = epochs[e] + 1
           \/ /\ epochs'[e] = epochs[e]
              /\ leases[e] # NoLease /\ leases'[e] = NoLease
              /\ held'[leases[e].run][e] = NoLease
<1> USE DEF LeaseInv
<1>1. CASE Tick \/ UNCHANGED leaseVars
  BY <1>1 DEF Tick, leaseVars
<1>2. ASSUME NEW r \in Runs, ReadClock(r) \/ Crash(r) PROVE UNCHANGED <<leases, epochs>>
  BY <1>2 DEF ReadClock, Crash
<1>3. ASSUME NEW r \in Runs, NEW f \in Episodes, ReleaseAssert(r, f)
      PROVE  UNCHANGED <<leases, epochs>>
  BY <1>3 DEF ReleaseAssert
<1>4. ASSUME NEW r \in Runs, NEW f \in Episodes, ReleaseDelete(r, f)
      PROVE  \/ leases'[e] = leases[e] /\ epochs'[e] = epochs[e]
             \/ /\ epochs'[e] = epochs[e]
                /\ leases[e] # NoLease /\ leases'[e] = NoLease
                /\ held'[leases[e].run][e] = NoLease
  <2>1. CASE ~DeletesRow(r, f)
    BY <1>4, <2>1 DEF ReleaseDelete
  <2>2. CASE DeletesRow(r, f)
    <3>1. /\ leases' = [leases EXCEPT ![f] = NoLease] /\ epochs' = epochs
          /\ held' = [held EXCEPT ![r][f] = NoLease]
          /\ leases[f].run = r
      BY <1>4, <2>2 DEF ReleaseDelete, DeletesRow
    <3>2. leases[f] # NoLease
      BY <3>1, NoLeaseFacts, RunAssumption
    <3> QED BY <3>1, <3>2 DEF LeaseTypeOK
  <2> QED BY <2>1, <2>2
<1>5. ASSUME NEW r \in Runs, NEW f \in Episodes, NEW l \in Lease,
             StoreRow(r, f, l), UNCHANGED epochs,
             leases[f] # NoLease, leases[f].run = r, l.run = r, l.token = leases[f].token
      PROVE  \/ leases'[e] = leases[e] /\ epochs'[e] = epochs[e]
             \/ /\ epochs'[e] = epochs[e]
                /\ leases[e] # NoLease /\ leases'[e] \in Lease
                /\ leases'[e].token = leases[e].token /\ leases'[e].run = leases[e].run
                /\ held'[leases[e].run][e] = leases'[e]
  BY <1>5 DEF StoreRow, LeaseTypeOK
<1>6. ASSUME NEW r \in Runs, NEW f \in Episodes, NEW ttl \in TTLs,
             Reacquire(r, f, ttl) \/ Renew(r, f, ttl)
      PROVE  \E l \in Lease :
                /\ StoreRow(r, f, l) /\ UNCHANGED epochs /\ leases[f] # NoLease
                /\ leases[f].run = r /\ l.run = r /\ l.token = leases[f].token
  <2>1. leases[f] \in Lease /\ read[r] \in Nat /\ leases[f].run = r
    BY <1>6, NoLeaseFacts, RunAssumption
       DEF Reacquire, Renew, AssertActive, LeaseTypeOK, RowTokenIsOwners
  <2>2. StoreRow(r, f, Extended(leases[f], read[r], ttl)) /\ UNCHANGED epochs
    BY <1>6 DEF Reacquire, Renew, AssertActive
  <2> QED BY <2>1, <2>2, ExtendedType, NoLeaseFacts
<1>7. ASSUME NEW r \in Runs, NEW f \in Episodes, NEW ttl \in TTLs, AcquireNew(r, f, ttl)
      PROVE  \/ leases'[e] = leases[e] /\ epochs'[e] = epochs[e]
             \/ /\ epochs'[e] = epochs[e] + 1
                /\ ~Live(e) /\ leases'[e].token = epochs[e] + 1
  <2>1. CASE e # f
    BY <1>7, <2>1 DEF AcquireNew, StoreRow, LeaseTypeOK
  <2>2. CASE e = f
    <3>1. epochs'[e] = epochs[e] + 1 /\ leases'[e].token = epochs[e] + 1
      BY <1>7, <2>2 DEF AcquireNew, StoreRow, LeaseTypeOK, NextEpoch
    <3>2. leases[e] = NoLease \/ (leases[e] \in Lease /\ leases[e].expires <= read[r])
      BY <1>7, <2>2, NoLeaseFacts, RunAssumption DEF AcquireNew, Takeable, LeaseTypeOK
    <3>3. ~Live(e)
      BY <3>2, NoLeaseFacts DEF Live, ReadingsArePast, LeaseTypeOK
    <3> QED BY <3>1, <3>3
  <2> QED BY <2>1, <2>2
<1> QED
  BY <1>1, <1>2, <1>3, <1>4, <1>5, <1>6, <1>7 DEF LeaseNext, RunStep

\* A run that lost its token is fenced for good, on any schedule of acquires,
\* renewals, releases, crashes and old clock readings (lease.py:56-108).
THEOREM LeaseFencing == LeaseSpec => SupersededStaysFenced
<1>1. ASSUME LeaseInv, [LeaseNext]_leaseVars, NEW r \in Runs, NEW e \in Episodes,
             held[r][e] # NoLease, held[r][e].token # leases[e].token,
             held'[r][e] = held[r][e]
      PROVE  held'[r][e].token # leases'[e].token
  <2>1. /\ held[r][e] \in Lease /\ held[r][e].token \in Nat /\ held[r][e].token # 0
        /\ held[r][e].token <= epochs[e] /\ epochs[e] \in Nat
    BY <1>1, NoLeaseFacts DEF LeaseInv, LeaseTypeOK, HeldWasGranted
  <2> QED BY <1>1, <2>1, LeaseRowMoves, NoLeaseFacts
<1>2. LeaseInv /\ [LeaseNext]_leaseVars =>
        [\A r \in Runs, e \in Episodes :
            /\ held[r][e] # NoLease
            /\ held[r][e].token # leases[e].token
            /\ held'[r][e] = held[r][e]
            => held'[r][e].token # leases'[e].token]_leaseVars
  BY <1>1
<1> QED BY <1>2, LeaseSafety, PTL DEF LeaseSpec, SupersededStaysFenced

\* An unexpired row is changed by its own run only (lease.py:63 and 106).
THEOREM LeaseOwnership == LeaseSpec => LiveRowIsOwners
<1>1. ASSUME LeaseInv, [LeaseNext]_leaseVars, NEW e \in Episodes,
             Live(e), leases'[e] # leases[e]
      PROVE  /\ leases'[e].run \in {leases[e].run, NoRun}
             /\ held'[leases[e].run][e] = leases'[e]
  BY <1>1, LeaseRowMoves, NoLeaseFacts
<1>2. LeaseInv /\ [LeaseNext]_leaseVars =>
        [\A e \in Episodes :
            Live(e) /\ leases'[e] # leases[e] =>
                LET owner == leases[e].run
                IN  /\ leases'[e].run \in {owner, NoRun}
                    /\ held'[owner][e] = leases'[e]]_leaseVars
  BY <1>1
<1> QED BY <1>2, LeaseSafety, PTL DEF LeaseSpec, LiveRowIsOwners

-----------------------------------------------------------------------------

\* The lease store, with its clock, rows and stale readings, implements the
\* fenced lease: taking over is a Grant of a dead token, extending a Refresh,
\* the DELETE a Drop, the clock an Expire, everything else a stutter.
THEOREM LeaseRefinement == LeaseSpec => ImplementsFencedLease
<1> DEFINE tok == [e \in Episodes |-> leases[e].token]
           liv == {e \in Episodes : Live(e)}
<1>1. LeaseInit => Fenced!FencedInit
  BY NoLeaseFacts DEF LeaseInit, Fenced!FencedInit, Live
<1>2. ASSUME LeaseInv, [LeaseNext]_leaseVars
      PROVE  [Fenced!FencedNext]_(Fenced!leaseVars)
  <2> USE <1>2 DEF LeaseInv
  <2>1. ASSUME UNCHANGED <<now, leases, epochs>>
        PROVE  UNCHANGED Fenced!leaseVars
    BY <2>1 DEF Fenced!leaseVars, Live
  <2>2. CASE Tick
    <3>1. ASSUME NEW e \in Episodes, Live(e)' PROVE Live(e)
      <4>1. leases[e] \in Lease /\ leases[e].expires \in Nat
        BY <2>2, <3>1, NoLeaseFacts DEF Tick, Live, LeaseTypeOK
      <4> QED BY <2>2, <3>1, <4>1 DEF Tick, Live, LeaseTypeOK
    <3>2. liv' \subseteq liv
      BY <3>1
    <3>3. tok' = tok /\ epochs' = epochs
      BY <2>2 DEF Tick
    <3> QED BY <3>2, <3>3 DEF Fenced!Expire, Fenced!FencedNext
  <2>3. ASSUME NEW r \in Runs, ReadClock(r) \/ Crash(r) PROVE UNCHANGED <<now, leases, epochs>>
    BY <2>3 DEF ReadClock, Crash
  <2>4. ASSUME NEW r \in Runs, NEW e \in Episodes, ReleaseAssert(r, e)
        PROVE  UNCHANGED <<now, leases, epochs>>
    BY <2>4 DEF ReleaseAssert
  <2>5. ASSUME NEW e \in Episodes, NEW l, now' = now, leases' = [leases EXCEPT ![e] = l]
        PROVE  /\ tok' = [tok EXCEPT ![e] = l.token]
               /\ liv' \in {liv \cup {e}, liv \ {e}}
               /\ l = NoLease => liv' = liv \ {e}
    \* Writing one row moves one token and the liveness of one episode.
    <3>1. /\ leases'[e] = l
          /\ \A f \in Episodes \ {e} : leases'[f] = leases[f]
      BY <2>5 DEF LeaseTypeOK
    <3>2. tok' = [tok EXCEPT ![e] = l.token]
      <4>1. \A f \in Episodes : leases'[f].token = IF f = e THEN l.token ELSE leases[f].token
        BY <3>1
      <4>2. tok' = [f \in Episodes |-> leases'[f].token]
        OBVIOUS
      <4>3. tok' = [f \in Episodes |-> IF f = e THEN l.token ELSE leases[f].token]
        BY <4>1, <4>2, Zenon
      <4> QED BY <4>3
    <3>3. \A f \in Episodes \ {e} : Live(f)' <=> Live(f)
      BY <2>5, <3>1 DEF Live
    <3>4. Live(e)' => l # NoLease
      BY <3>1 DEF Live
    <3>5. liv' = IF Live(e)' THEN liv \cup {e} ELSE liv \ {e}
      BY <3>3
    <3> QED BY <3>2, <3>4, <3>5
  <2>6. ASSUME NEW r \in Runs, NEW e \in Episodes, ReleaseDelete(r, e)
        PROVE  UNCHANGED <<now, leases, epochs>> \/ Fenced!Drop(e)
    <3>1. CASE ~DeletesRow(r, e)
      BY <2>6, <3>1 DEF ReleaseDelete
    <3>2. CASE DeletesRow(r, e)
      <4>1. leases' = [leases EXCEPT ![e] = NoLease] /\ UNCHANGED <<now, epochs>>
        BY <2>6, <3>2 DEF ReleaseDelete
      <4>2. tok[e] # 0
        BY <3>2, NoLeaseFacts, RunAssumption DEF DeletesRow, LeaseTypeOK
      <4>3. tok' = [tok EXCEPT ![e] = 0] /\ liv' = liv \ {e}
        BY <4>1, <2>5, NoLeaseFacts
      <4> QED BY <4>1, <4>2, <4>3 DEF Fenced!Drop
    <3> QED BY <3>1, <3>2
  <2>7. ASSUME NEW r \in Runs, NEW e \in Episodes, NEW ttl \in TTLs,
               Reacquire(r, e, ttl) \/ Renew(r, e, ttl)
        PROVE  Fenced!Refresh(e)
    <3>1. leases[e] \in Lease /\ read[r] \in Nat /\ tok[e] # 0
      BY <2>7, NoLeaseFacts, RunAssumption DEF Reacquire, Renew, AssertActive, LeaseTypeOK
    <3> DEFINE l == Extended(leases[e], read[r], ttl)
    <3>2. StoreRow(r, e, l) /\ UNCHANGED epochs
      BY <2>7 DEF Reacquire, Renew, AssertActive
    <3>3. l.token = tok[e]
      BY <3>1, ExtendedType
    <3> HIDE DEF l
    <3>4. now' = now /\ leases' = [leases EXCEPT ![e] = l]
      BY <3>2 DEF StoreRow
    <3>5. tok' = [tok EXCEPT ![e] = l.token] /\ liv' \in {liv \cup {e}, liv \ {e}}
      BY <3>4, <2>5
    <3>6. tok' = tok
      BY <3>5, <3>3
    <3> QED BY <3>1, <3>2, <3>5, <3>6 DEF Fenced!Refresh
  <2>8. ASSUME NEW r \in Runs, NEW e \in Episodes, NEW ttl \in TTLs, AcquireNew(r, e, ttl)
        PROVE  Fenced!Grant(e)
    <3> DEFINE l == [run |-> r, token |-> NextEpoch(e), acquired |-> read[r],
                     heartbeat |-> read[r], expires |-> read[r] + ttl]
    <3>1. l.token = epochs[e] + 1 /\ StoreRow(r, e, l)
      BY <2>8 DEF AcquireNew, NextEpoch
    <3>2. epochs' = [epochs EXCEPT ![e] = epochs[e] + 1]
      BY <2>8 DEF AcquireNew, NextEpoch
    <3>3. leases[e] = NoLease \/ ~Live(e)
      BY <2>8, NoLeaseFacts, RunAssumption
         DEF AcquireNew, Takeable, LeaseTypeOK, Live, ReadingsArePast
    <3> HIDE DEF l
    <3>4. now' = now /\ leases' = [leases EXCEPT ![e] = l]
      BY <3>1 DEF StoreRow
    <3>5. tok' = [tok EXCEPT ![e] = epochs[e] + 1] /\ liv' \in {liv \cup {e}, liv \ {e}}
      BY <3>1, <3>4, <2>5
    <3>6. tok[e] = 0 \/ e \notin liv
      BY <3>3, NoLeaseFacts
    <3> QED BY <3>2, <3>5, <3>6 DEF Fenced!Grant
  <2>9. CASE UNCHANGED leaseVars
    BY <2>9, <2>1 DEF leaseVars
  <2> QED
    BY <2>1, <2>2, <2>3, <2>4, <2>6, <2>7, <2>8, <2>9
       DEF LeaseNext, RunStep, Fenced!FencedNext
<1> QED
  BY <1>1, <1>2, LeaseSafety, PTL DEF LeaseSpec, ImplementsFencedLease, Fenced!FencedSpec

-----------------------------------------------------------------------------
(* The director: the inductive invariant *)

\* A task knows its row; an image that passed has passed its technical check.
JobsAreSound ==
    /\ row \in [Jobs -> ExecutorRow] /\ task \in [Jobs -> TaskPCs]
    /\ \A j \in Jobs : /\ task[j] = "post" => row[j].status = "INTENT"
                       /\ task[j] = "answer" => row[j].status = "SUBMITTED"
                       /\ row[j].qa = "pass" /\ j[2] # "hero" => row[j].tech

\* A hero of a first image follows an image that passed and was never corrected.
HeroesFollow ==
    /\ pipe \in Pipeline
    /\ \A s \in Submittable :
          /\ pipe.heroes[s] = "first" => Passed(First(s)) /\ pipe.active[s] = "first"
          /\ s \in pipe.approved => pipe.heroes[s] = "first" /\ Passed(Hero(s))

\* Every image and clip of a contract has passed.
Approves(k) ==
    \A s \in Submittable :
        /\ Passed(<<s, k.scenes.images[s]>>)
        /\ s \in HeroScenes => s \in k.scenes.clips
        /\ s \in k.scenes.clips => k.scenes.images[s] = "first" /\ Passed(Hero(s))

\* What a render thread knows of the evidence at each of its places.
ThreadKnows(t) ==
    LET k == thread[t].contract
        pc == thread[t].pc
    IN  /\ pc # "idle" => k \in Contract /\ Approves(k)
        /\ pc \notin {"idle", "queued"} => lock = t
        /\ pc = "intent" => intent = Nothing /\ video = Nothing /\ completion = Nothing
        /\ pc \in {"local", "assembling", "render"} => intent = k /\ video = Nothing /\ completion = Nothing
        /\ pc = "commit" => intent = k /\ video = k /\ completion = Nothing
        /\ pc \in {"recover", "receipt", "advance"} => intent = k /\ video = k /\ completion = k
        /\ pc = "advance" => receipt = k

\* A receipt is the last of four files that bind the same contract.
EvidenceBinds ==
    /\ intent \in Contract \cup {Nothing}
    /\ receipt # Nothing => intent = receipt /\ video = receipt /\ completion = receipt
    /\ renders = IF video = Nothing THEN 0 ELSE 1
    /\ InState(Mastered) => receipt # Nothing
    /\ RenderedAsApproved

Authorised == plan.approved /\ (plan.within \/ plan.answer = "D")

\* The plan is written once, by the call that started the episode; whoever works past the
\* plan gate works on an authorised plan.
PlanIsAhead ==
    /\ store = Nothing => ~plan.ready /\ \A c \in Owners : call[c].pc = "idle"
    /\ plan.approved => plan.ready
    /\ \A c, d \in Owners : call[c].pc \in Starting /\ call[d].pc \in Starting => c = d
    /\ \A c \in Owners : call[c].pc \in Starting => ~plan.ready
    /\ \A c \in Owners : call[c].pc \notin Starting \cup {"idle"} => Authorised
    /\ \A t \in Threads : thread[t].pc # "idle" => Authorised
    /\ InState(Producing) => Authorised

Typed ==
    /\ store \in Store \cup {Nothing} /\ plan \in Plan
    /\ call \in [Owners -> Call] /\ thread \in [Threads -> RenderThread]

ProductionInv == JobsAreSound /\ HeroesFollow
RenderInv == (\A t \in Threads : ThreadKnows(t)) /\ EvidenceBinds
DirectorInv == Typed /\ ProductionInv /\ RenderInv /\ PlanIsAhead

-----------------------------------------------------------------------------
(* The compiled production: a passing verdict is final *)

Stable == \A j \in Jobs : Passed(j) => Passed(j)'

\* Jobs of a scene are jobs.
LEMMA JobFacts ==
    ASSUME NEW s \in Submittable
    PROVE  /\ First(s) \in Jobs /\ Hero(s) \in Jobs
           /\ First(s)[1] = s /\ First(s)[2] = "first" /\ Hero(s)[1] = s /\ Hero(s)[2] = "hero"
           /\ \A k \in Images : <<s, k>> \in Jobs /\ <<s, k>>[2] = k /\ k # "hero" /\ k # "none"
BY CompiledConstants DEF Jobs, Kinds, Images, First, Hero

\* A task moves and the rows stay: a task about to post or to be answered moves only by itself.
LEMMA TaskMoves ==
    ASSUME ProductionInv, UNCHANGED <<row, pipe>>, task' \in [Jobs -> TaskPCs],
           \A j \in Jobs : \/ task'[j] \in {task[j], "none", "start", "done", "failed"}
                           \/ task'[j] = "answer" /\ row[j].status = "SUBMITTED"
    PROVE  ProductionInv' /\ Stable
<1>1. JobsAreSound'
  BY DEF ProductionInv, JobsAreSound
<1>2. Stable
  BY DEF Stable, Passed
<1>3. HeroesFollow'
  BY DEF ProductionInv, HeroesFollow, Passed
<1> QED
  BY <1>1, <1>2, <1>3 DEF ProductionInv

\* A row that has not passed, or passes now, is written: the pipeline's facts stand.
LEMMA RowMoves ==
    ASSUME ProductionInv, NEW j \in Jobs, NEW r \in ExecutorRow, row' = [row EXCEPT ![j] = r],
           UNCHANGED pipe, task' \in [Jobs -> TaskPCs],
           \A i \in Jobs \ {j} : task'[i] = task[i],
           task'[j] = "post" => r.status = "INTENT",
           task'[j] = "answer" => r.status = "SUBMITTED",
           r.qa = "pass" /\ j[2] # "hero" => r.tech,
           Passed(j) => r.status = "COMPLETE" /\ r.qa = "pass"
    PROVE  ProductionInv' /\ Stable
<1>1. row \in [Jobs -> ExecutorRow]
  BY DEF ProductionInv, JobsAreSound
<1>2. JobsAreSound'
  BY <1>1 DEF ProductionInv, JobsAreSound
<1>3. Stable
  BY <1>1 DEF Stable, Passed
<1>4. HeroesFollow'
  BY <1>3, JobFacts DEF ProductionInv, HeroesFollow, Stable
<1> QED
  BY <1>2, <1>3, <1>4 DEF ProductionInv

\* Executor.run() writes rows that no verdict can have passed.
LEMMA ExecutorSteps ==
    ASSUME ProductionInv, NEW j \in Jobs, RunStarts(j) \/ RunPosts(j) \/ RunAnswers(j)
    PROVE  ProductionInv' /\ Stable
<1>0. /\ row \in [Jobs -> ExecutorRow] /\ task \in [Jobs -> TaskPCs] /\ UNCHANGED pipe
      /\ row[j] \in ExecutorRow
      /\ task[j] = "post" => row[j].status = "INTENT"
      /\ task[j] = "answer" => row[j].status = "SUBMITTED"
      /\ row[j].qa = "pass" /\ j[2] # "hero" => row[j].tech
  BY DEF ProductionInv, JobsAreSound, RunStarts, RunPosts, RunAnswers
<1>1. ASSUME NEW pc \in TaskPCs, Turn(j, pc)
      PROVE  task' \in [Jobs -> TaskPCs] /\ task'[j] = pc /\ \A i \in Jobs \ {j} : task'[i] = task[i]
  BY <1>0, <1>1 DEF Turn
<1>2. ASSUME NEW pc \in {"done", "failed"}, Turn(j, pc), UNCHANGED row
      PROVE  ProductionInv' /\ Stable
  <2>1. pc \in TaskPCs
    BY DEF TaskPCs
  <2> QED
    BY <1>0, <1>1, <1>2, <2>1, TaskMoves
<1>3. ASSUME Turn(j, "answer"), UNCHANGED row, row[j].status = "SUBMITTED"
      PROVE  ProductionInv' /\ Stable
  <2>1. "answer" \in TaskPCs
    BY DEF TaskPCs
  <2> QED
    BY <1>0, <1>1, <1>3, <2>1, TaskMoves
<1>4. ASSUME NEW u \in {"INTENT", "SUBMITTED", "OVERRUN"}, row[j].status # "COMPLETE",
             row' = [row EXCEPT ![j].status = u],
             NEW pc \in {"post", "answer", "failed"}, Turn(j, pc),
             pc = "post" => u = "INTENT", pc = "answer" => u = "SUBMITTED"
      PROVE  ProductionInv' /\ Stable
  <2> DEFINE r == [row[j] EXCEPT !.status = u]
  <2>1. pc \in TaskPCs /\ r \in ExecutorRow /\ r.status = u /\ r.qa = row[j].qa /\ r.tech = row[j].tech
    BY <1>0 DEF TaskPCs, ExecutorRow
  <2>2. row' = [row EXCEPT ![j] = r]
    BY <1>0, <1>4
  <2>3. ~Passed(j)
    BY <1>4 DEF Passed
  <2> HIDE DEF r
  <2> QED
    BY <1>0, <1>1, <1>4, <2>1, <2>2, <2>3, RowMoves
<1>5. CASE RunStarts(j)
  <2>1. \/ Turn(j, "done") /\ UNCHANGED row
        \/ row[j].status = "SUBMITTED" /\ Turn(j, "answer") /\ UNCHANGED row
        \/ row[j].status = "NONE" /\ row' = [row EXCEPT ![j].status = "INTENT"] /\ Turn(j, "post")
        \/ Turn(j, "failed") /\ UNCHANGED row
    BY <1>5 DEF RunStarts
  <2> QED
    BY <1>2, <1>3, <1>4, <2>1
<1>6. CASE RunPosts(j)
  <2>1. /\ row[j].status = "INTENT"
        /\ \/ row' = [row EXCEPT ![j].status = "SUBMITTED"] /\ Turn(j, "answer")
           \/ Turn(j, "failed") /\ UNCHANGED row
    BY <1>0, <1>6 DEF RunPosts
  <2> QED
    BY <1>2, <1>4, <2>1
<1>7. CASE RunAnswers(j)
  <2>0. row[j].status = "SUBMITTED"
    BY <1>0, <1>7 DEF RunAnswers
  <2>1. ASSUME NEW good \in BOOLEAN, Turn(j, "done"),
               row' = [row EXCEPT ![j] = [status |-> "COMPLETE", tech |-> good, qa |-> "none"]]
        PROVE  ProductionInv' /\ Stable
    <3> DEFINE r == [status |-> "COMPLETE", tech |-> good, qa |-> "none"]
    <3>1. "done" \in TaskPCs /\ r \in ExecutorRow /\ r.qa = "none"
      BY DEF TaskPCs, ExecutorRow
    <3>2. ~Passed(j)
      BY <2>0 DEF Passed
    <3>3. row' = [row EXCEPT ![j] = r]
      BY <2>1
    <3> HIDE DEF r
    <3> QED
      BY <1>0, <1>1, <2>1, <3>1, <3>2, <3>3, RowMoves
  <2>2. \/ \E good \in BOOLEAN :
              row' = [row EXCEPT ![j] = [status |-> "COMPLETE", tech |-> good, qa |-> "none"]] /\ Turn(j, "done")
        \/ row' = row /\ Turn(j, "failed")
        \/ row' = [row EXCEPT ![j].status = "OVERRUN"] /\ Turn(j, "failed")
    BY <1>7 DEF RunAnswers
  <2> QED
    BY <1>2, <1>4, <2>0, <2>1, <2>2
<1> QED
  BY <1>5, <1>6, <1>7

\* A verdict goes to a complete row, after the technical check, and never over another one.
LEMMA VerdictSteps ==
    ASSUME ProductionInv, NEW j \in Jobs, NEW v \in {"pass", "fail"}, MayReview(j, v),
           row' = Judged(j, v), UNCHANGED <<task, pipe>>
    PROVE  ProductionInv' /\ Stable
<1> DEFINE r == [row[j] EXCEPT !.qa = v]
<1>0. /\ row \in [Jobs -> ExecutorRow] /\ task \in [Jobs -> TaskPCs] /\ row[j] \in ExecutorRow
      /\ task[j] = "post" => row[j].status = "INTENT"
      /\ task[j] = "answer" => row[j].status = "SUBMITTED"
  BY DEF ProductionInv, JobsAreSound
<1>1. r \in ExecutorRow /\ r.qa = v /\ r.status = row[j].status /\ r.tech = row[j].tech
  BY <1>0 DEF ExecutorRow
<1>2. row' = [row EXCEPT ![j] = r]
  BY <1>0 DEF Judged
<1>3. /\ row[j].status = "COMPLETE" /\ row[j].qa \in {"none", v}
      /\ j[2] # "hero" => row[j].tech
  BY DEF MayReview, Judgeable
<1>4. Passed(j) => v = "pass"
  BY <1>3 DEF Passed
<1> HIDE DEF r
<1> QED
  BY <1>0, <1>1, <1>2, <1>3, <1>4, RowMoves

\* Waves move tasks; a technical rejection never meets an image that passed.
LEMMA WaveSteps ==
    ASSUME ProductionInv, NEW q \in Queues, NEW j \in Jobs,
           Enqueue(q, j) \/ Claim(q, j) \/ Finish(q, j) \/ Notify(q, j)
    PROVE  ProductionInv' /\ Stable
<1>0. /\ row \in [Jobs -> ExecutorRow] /\ task \in [Jobs -> TaskPCs] /\ UNCHANGED pipe
      /\ row[j] \in ExecutorRow /\ pipe \in Pipeline
      /\ task[j] = "post" => row[j].status = "INTENT"
      /\ task[j] = "answer" => row[j].status = "SUBMITTED"
      /\ row[j].qa = "pass" /\ j[2] # "hero" => row[j].tech
  BY DEF ProductionInv, JobsAreSound, HeroesFollow, Enqueue, Claim, Finish, Notify
<1>1. ASSUME task' = Cancelled(q), UNCHANGED row
      PROVE  ProductionInv' /\ Stable
  <2>1. /\ task' \in [Jobs -> TaskPCs]
        /\ \A i \in Jobs : task'[i] \in {task[i], "none"}
    BY <1>0, <1>1 DEF Cancelled, TaskPCs
  <2> QED
    BY <1>0, <1>1, <2>1, TaskMoves
<1>2. ASSUME UNCHANGED <<task, row>>
      PROVE  ProductionInv' /\ Stable
  BY <1>0, <1>2, TaskMoves
<1>3. ASSUME NEW pc \in {"none", "start"}, Turn(j, pc), UNCHANGED row
      PROVE  ProductionInv' /\ Stable
  <2>1. task' \in [Jobs -> TaskPCs] /\ \A i \in Jobs : task'[i] \in {task[i], "none", "start"}
    BY <1>0, <1>3 DEF Turn, TaskPCs
  <2> QED
    BY <1>0, <1>3, <2>1, TaskMoves
<1>5. CASE Enqueue(q, j)
  BY <1>1, <1>2, <1>5 DEF Enqueue, RequeueFailed, RaiseWave
<1>6. CASE Claim(q, j)
  BY <1>1, <1>3, <1>6 DEF Claim, RaiseWave
<1>7. CASE Finish(q, j)
  BY <1>1, <1>3, <1>7 DEF Finish, RaiseWave
<1>8. CASE Notify(q, j)
  <2>1. \/ task' = Cancelled(q) /\ UNCHANGED row
        \/ UNCHANGED <<task, row>>
        \/ row' = TechnicallyRejected(j) /\ UNCHANGED task /\ j = Active(j[1]) /\ ~row[j].tech
    BY <1>8 DEF Notify, RaiseWave
  <2>2. ASSUME row' = TechnicallyRejected(j), UNCHANGED task, j = Active(j[1]), ~row[j].tech
        PROVE  ProductionInv' /\ Stable
    <3> DEFINE r == [row[j] EXCEPT !.qa = "fail"]
    <3>1. r \in ExecutorRow /\ r.qa = "fail" /\ r.status = row[j].status
      BY <1>0 DEF ExecutorRow
    <3>2. row' = [row EXCEPT ![j] = r]
      BY <1>0, <2>2 DEF TechnicallyRejected
    <3>3. j[1] \in Submittable
      BY DEF Jobs
    <3>4. j[2] # "hero"
      BY <1>0, <2>2, <3>3, JobFacts DEF Active, Pipeline
    <3>5. ~Passed(j)
      BY <1>0, <2>2, <3>4 DEF Passed
    <3> HIDE DEF r
    <3> QED
      BY <1>0, <2>2, <3>1, <3>2, <3>5, RowMoves
  <2> QED
    BY <1>1, <1>2, <2>1, <2>2
<1> QED
  BY <1>5, <1>6, <1>7, <1>8

\* Heroes and corrections: a first image that passed is never corrected.
LEMMA SceneSteps ==
    ASSUME ProductionInv, NEW s \in Submittable,
           \/ CreateHero(s) \/ RunHero(s) \/ EndHero(s) \/ PromoteHero(s)
           \/ \E v \in {"pass", "fail"} : JudgeHero(s, v)
           \/ \E f \in Codes : Remediate(s, f)
    PROVE  ProductionInv' /\ Stable
<1>0. /\ row \in [Jobs -> ExecutorRow] /\ task \in [Jobs -> TaskPCs] /\ pipe \in Pipeline
      /\ pipe.active[s] \in Images /\ Hero(s) \in Jobs
  BY JobFacts DEF ProductionInv, JobsAreSound, HeroesFollow, Pipeline
<1>1. ASSUME UNCHANGED <<row, task>>, HeroesFollow'
      PROVE  ProductionInv' /\ Stable
  BY <1>1 DEF ProductionInv, JobsAreSound, Stable, Passed
<1>2. ASSUME UNCHANGED <<row, pipe>>, NEW pc \in {"none", "start", "failed"}, Turn(Hero(s), pc)
      PROVE  ProductionInv' /\ Stable
  <2>1. task' \in [Jobs -> TaskPCs] /\ \A i \in Jobs : task'[i] \in {task[i], "none", "start", "failed"}
    BY <1>0, <1>2 DEF Turn, TaskPCs
  <2> QED
    BY <1>2, <2>1, TaskMoves
<1>3. CASE CreateHero(s)
  <2>1. /\ UNCHANGED <<row, task>>
        /\ pipe' = [pipe EXCEPT !.heroes[s] = pipe.active[s]]
        /\ pipe.heroes[s] = "none" /\ Passed(<<s, pipe.active[s]>>)
    BY <1>3 DEF CreateHero, Active
  <2>2. /\ pipe' \in Pipeline /\ pipe'.active = pipe.active /\ pipe'.approved = pipe.approved
        /\ pipe'.heroes[s] = pipe.active[s]
        /\ \A z \in Submittable \ {s} : pipe'.heroes[z] = pipe.heroes[z]
    BY <1>0, <2>1 DEF Pipeline
  <2>3. HeroesFollow'
    BY <2>1, <2>2 DEF ProductionInv, HeroesFollow, Passed, First
  <2> QED
    BY <1>1, <2>1, <2>3
<1>4. CASE RunHero(s)
  BY <1>2, <1>4 DEF RunHero
<1>5. CASE EndHero(s)
  BY <1>2, <1>5 DEF EndHero
<1>6. CASE PromoteHero(s)
  <2>1. /\ UNCHANGED <<row, task>>
        /\ pipe' = [pipe EXCEPT !.approved = @ \cup {s}]
        /\ pipe.heroes[s] = "first" /\ Passed(Hero(s))
    BY <1>6 DEF PromoteHero
  <2>2. /\ pipe' \in Pipeline /\ pipe'.active = pipe.active /\ pipe'.heroes = pipe.heroes
        /\ pipe'.approved = pipe.approved \cup {s}
    BY <1>0, <2>1 DEF Pipeline
  <2>3. HeroesFollow'
    BY <2>1, <2>2 DEF ProductionInv, HeroesFollow, Passed
  <2> QED
    BY <1>1, <2>1, <2>3
<1>7. ASSUME NEW v \in {"pass", "fail"}, JudgeHero(s, v)
      PROVE  ProductionInv' /\ Stable
  BY <1>0, <1>7, VerdictSteps DEF JudgeHero
<1>8. ASSUME NEW f \in Codes, Remediate(s, f)
      PROVE  ProductionInv' /\ Stable
  <2>1. /\ UNCHANGED <<row, task>>
        /\ pipe' = [pipe EXCEPT !.active[s] = f]
        /\ pipe.active[s] = "first" /\ row[First(s)].qa = "fail"
    BY <1>8 DEF Remediate, CorrectionOwed, Active, First
  <2>2. /\ pipe' \in Pipeline /\ pipe'.heroes = pipe.heroes /\ pipe'.approved = pipe.approved
        /\ \A z \in Submittable \ {s} : pipe'.active[z] = pipe.active[z]
    BY <1>0, <2>1 DEF Pipeline, Images
  <2>3. ~Passed(First(s))
    BY <2>1 DEF Passed
  <2>4. HeroesFollow'
    BY <2>1, <2>2, <2>3 DEF ProductionInv, HeroesFollow, Passed
  <2> QED
    BY <1>1, <2>1, <2>4
<1> QED
  BY <1>3, <1>4, <1>5, <1>6, <1>7, <1>8

\* A pipeline that is opened, or lost with its process, knows nothing.
LEMMA FreshPipeline ==
    ASSUME ProductionInv, UNCHANGED row, task' \in [Jobs -> TaskPCs],
           \A j \in Jobs : task'[j] \in {task[j], "none"},
           pipe' \in {NoPipe, [NoPipe EXCEPT !.up = TRUE]}
    PROVE  ProductionInv' /\ Stable
<1>0. NoPipe \in Pipeline /\ NoPipe.approved = {} /\ \A s \in Submittable : NoPipe.heroes[s] = "none"
  BY DEF NoPipe, Pipeline, Images
<1>1. pipe' \in Pipeline /\ pipe'.approved = {} /\ \A s \in Submittable : pipe'.heroes[s] = "none"
  BY <1>0 DEF Pipeline
<1>2. HeroesFollow'
  BY <1>1 DEF HeroesFollow
<1>3. JobsAreSound'
  BY DEF ProductionInv, JobsAreSound
<1> QED
  BY <1>2, <1>3 DEF ProductionInv, Stable, Passed

\* The production's own steps keep its invariant, and every passing verdict.
LEMMA ProductionSteps ==
    ASSUME ProductionInv, ProductionNext
    PROVE  ProductionInv' /\ Stable
<1>0. task \in [Jobs -> TaskPCs]
  BY DEF ProductionInv, JobsAreSound
<1>1. ASSUME UNCHANGED <<row, task, pipe>>
      PROVE  ProductionInv' /\ Stable
  BY <1>0, <1>1, TaskMoves
<1>2. ASSUME NEW S \in SUBSET Submittable, CorrectionWave(S)
      PROVE  ProductionInv' /\ Stable
  BY <1>1, <1>2 DEF CorrectionWave, OpenWave
<1>3. CASE EndCorrectionWave
  BY <1>1, <1>3 DEF EndCorrectionWave
<1>4. ASSUME NEW q \in Queues, CancelWave(q)
      PROVE  ProductionInv' /\ Stable
  <2>1. /\ task' \in [Jobs -> TaskPCs] /\ UNCHANGED <<row, pipe>>
        /\ \A i \in Jobs : task'[i] \in {task[i], "none"}
    BY <1>0, <1>4 DEF CancelWave, RaiseWave, Cancelled, TaskPCs
  <2> QED
    BY <2>1, TaskMoves
<1> QED
  BY <1>2, <1>3, <1>4, ExecutorSteps, WaveSteps, SceneSteps DEF ProductionNext

-----------------------------------------------------------------------------
(* Stores and calls *)

\* The states this component saves are states, and loading and moving a store gives stores.
LEMMA StatesInUse ==
    /\ {"REQUEST_RECEIVED", "RESEARCHING", "PLANNING", "WAITING_PLAN_APPROVAL", "PAUSED", "FAILED",
        "WAITING_BUDGET_APPROVAL", "CLOUD_VIDEO_GENERATION"} \subseteq EpisodeStates \ Producing
    /\ Producing \subseteq EpisodeStates
    /\ Mastered \subseteq Producing
BY DEF EpisodeStates, Successors, Producing, Mastered

\* transition_to() moves a store to its target, and loading leaves it where it is.
LEMMA StoreFacts ==
    ASSUME NEW st \in Store, NEW to \in EpisodeStates
    PROVE  /\ TransitionTo(st, to) \in Store /\ TransitionTo(st, to).cur = to
           /\ Reloaded(st) \in Store /\ Reloaded(st).cur = st.cur
BY StatesInUse DEF Store, TransitionTo, Reloaded

\* A new store, a call that is not under way and an idle thread have their types.
LEMMA FreshFacts ==
    /\ NewStore \in Store
    /\ NoCall \in Call /\ NoCall.pc = "idle"
    /\ NoThread \in RenderThread /\ NoThread.pc = "idle"
<1>1. NewStore \in Store
  BY StatesInUse DEF NewStore, Store
<1>2. NoCall.verdicts \in Verdicts
  <2>1. NoCall.verdicts \in [{} -> {"pass", "fail"}] /\ {} \in SUBSET Jobs
    BY DEF NoCall
  <2> QED
    BY <2>1 DEF Verdicts
<1>3. NoCall \in Call /\ NoCall.pc = "idle"
  BY <1>1, <1>2 DEF NoCall, Call, CallPCs, NoPlan, Plan
<1>4. NoThread \in RenderThread /\ NoThread.pc = "idle"
  BY <1>1 DEF NoThread, RenderThread, ThreadPCs
<1> QED
  BY <1>1, <1>3, <1>4

\* What a step of a call does: it moves the call to one of P and may save a state of S.
CallMoves(c, P) ==
    /\ call' \in [Owners -> Call] /\ call'[c].pc \in P
    /\ \A d \in Owners \ {c} : call'[d] = call[d]
StoreMoves(S) == store' = store \/ (store' \in Store /\ store'.cur \in S)

\* A call returns.
LEMMA EndMoves ==
    ASSUME Typed, NEW c \in Owners, End(c)
    PROVE  CallMoves(c, {"idle"})
BY FreshFacts DEF Typed, End, CallMoves

\* A call goes on without saving.
LEMMA GotoMoves ==
    ASSUME Typed, NEW c \in Owners, NEW pc \in CallPCs, Goto(c, pc)
    PROVE  CallMoves(c, {pc})
BY DEF Typed, Goto, CallMoves, Call

\* A method is called: it loads the store and waits.
LEMMA EnterMoves ==
    ASSUME Typed, NEW c \in Owners, NEW pc \in CallPCs, Enter(c, pc), store # Nothing
    PROVE  CallMoves(c, {pc})
<1>1. Loaded \in Store
  BY StatesInUse, StoreFacts DEF Typed, Loaded
<1>2. [NoCall EXCEPT !.pc = pc, !.mem = Loaded] \in Call /\ [NoCall EXCEPT !.pc = pc, !.mem = Loaded].pc = pc
  BY <1>1, FreshFacts DEF Call
<1> QED
  BY <1>2 DEF Typed, Enter, CallMoves

\* A save of the call's own copy, or an invalid transition that raises.
LEMMA SaveMoves ==
    ASSUME Typed, NEW c \in Owners, NEW to \in EpisodeStates, NEW pc \in CallPCs, SaveAs(c, to, pc)
    PROVE  CallMoves(c, {pc, "idle"}) /\ StoreMoves({to})
<1>0. call[c] \in Call /\ call[c].mem \in Store
  BY DEF Typed, Call
<1>1. CASE CanTransition(call[c].mem, to)
  <2>1. /\ store' = TransitionTo(call[c].mem, to)
        /\ call' = [call EXCEPT ![c] = IF pc = "idle" THEN NoCall ELSE [@ EXCEPT !.mem = store', !.pc = pc]]
    BY <1>1 DEF SaveAs
  <2>2. store' \in Store /\ store'.cur = to
    BY <1>0, <2>1, StoreFacts
  <2>3. /\ [call[c] EXCEPT !.mem = store', !.pc = pc] \in Call
        /\ [call[c] EXCEPT !.mem = store', !.pc = pc].pc = pc
    BY <1>0, <2>2 DEF Call
  <2> QED
    BY <2>1, <2>2, <2>3, FreshFacts DEF Typed, CallMoves, StoreMoves
<1>2. CASE ~CanTransition(call[c].mem, to)
  <2>1. End(c) /\ UNCHANGED store
    BY <1>2 DEF SaveAs
  <2> QED
    BY <2>1, EndMoves DEF CallMoves, StoreMoves
<1> QED
  BY <1>1, <1>2

\* An agent ran, or failed and saved FAILED.
LEMMA RanMoves ==
    ASSUME Typed, NEW c \in Owners, NEW to \in EpisodeStates, NEW pc \in CallPCs, AgentRan(c, to, pc)
    PROVE  CallMoves(c, {pc, "idle"}) /\ StoreMoves({to, "FAILED"})
<1>1. CASE SaveAs(c, to, pc)
  BY <1>1, SaveMoves DEF CallMoves, StoreMoves
<1>2. CASE SaveAs(c, "FAILED", "idle")
  <2>1. "FAILED" \in EpisodeStates /\ "idle" \in CallPCs
    BY StatesInUse DEF CallPCs
  <2> QED
    BY <1>2, <2>1, SaveMoves DEF CallMoves, StoreMoves
<1> QED
  BY <1>1, <1>2 DEF AgentRan

-----------------------------------------------------------------------------
(* Steps that leave the render alone *)

\* What was approved stays approved.
LEMMA ApprovesKept ==
    ASSUME Stable, NEW k \in Contract, Approves(k)
    PROVE  Approves(k)'
<1>1. \A s \in Submittable : <<s, k.scenes.images[s]>> \in Jobs /\ Hero(s) \in Jobs
  BY JobFacts DEF Contract
<1> QED
  BY <1>1 DEF Stable, Approves

\* The approved contract of an intent, in terms of the invariant
LEMMA IntentApproved ==
    RenderedAsApproved <=> (intent # Nothing => Approves(intent))
BY DEF RenderedAsApproved, Approves

\* Steps that leave threads, lock and evidence alone, and enter no state past the render.
LEMMA RenderKept ==
    ASSUME RenderInv, Stable, UNCHANGED renderVars, InState(Mastered)' => InState(Mastered) \/ receipt # Nothing
    PROVE  RenderInv'
<1>0. UNCHANGED <<thread, lock, intent, video, completion, receipt, renders>>
  BY DEF renderVars, renderFiles
<1>1. ASSUME NEW t \in Threads
      PROVE  ThreadKnows(t)'
  <2>1. ThreadKnows(t)
    BY DEF RenderInv
  <2>2. CASE thread[t].pc = "idle"
    BY <1>0, <2>2 DEF ThreadKnows
  <2>3. CASE thread[t].pc # "idle"
    <3>1. PICK k \in Contract : k = thread[t].contract /\ Approves(k)
      BY <2>1, <2>3 DEF ThreadKnows
    <3>2. Approves(k)'
      BY <3>1, ApprovesKept
    <3> QED
      BY <1>0, <2>1, <3>1, <3>2 DEF ThreadKnows, Approves
  <2> QED
    BY <2>2, <2>3
<1>2. EvidenceBinds'
  <2>1. EvidenceBinds
    BY DEF RenderInv
  <2>2. intent # Nothing => Approves(intent)'
    BY <1>0, <2>1, ApprovesKept, IntentApproved DEF EvidenceBinds, Approves
  <2>3. RenderedAsApproved'
    BY <1>0, <2>2 DEF RenderedAsApproved, Approves
  <2> QED
    BY <1>0, <2>1, <2>3 DEF EvidenceBinds
<1> QED
  BY <1>1, <1>2 DEF RenderInv

\* A step that leaves row, task and pipeline alone leaves the production as it is.
LEMMA ProductionKept ==
    ASSUME ProductionInv, UNCHANGED <<row, task, pipe>>
    PROVE  ProductionInv' /\ Stable
BY TaskMoves DEF ProductionInv, JobsAreSound

\* Where calls and threads are past the plan gate there is a store and an authorised plan.
LEMMA WorkIsAuthorised ==
    ASSUME DirectorInv
    PROVE  /\ \A c \in Owners : ~At(c, "idle") => store \in Store
           /\ \A c \in Owners : call[c].pc \notin Starting \cup {"idle"} => Authorised
           /\ \A t \in Threads : thread[t].pc # "idle" => Authorised
           /\ InState(Producing) => Authorised
           /\ Authorised => store \in Store
           /\ \A S \in SUBSET Producing : InState(S) => Authorised
           /\ \A S : InState(S) => store # Nothing /\ store \in Store
BY DEF DirectorInv, Typed, PlanIsAhead, Authorised, At, InState

\* A call past the plan gate, or one that now passes it, moves and saves.
LEMMA LateStep ==
    ASSUME DirectorInv, Authorised, NEW c \in Owners, NEW P, NEW S, CallMoves(c, P), StoreMoves(S),
           P \cap Starting = {}, S \cap Mastered = {} \/ receipt # Nothing,
           ProductionInv', Stable, UNCHANGED <<plan, renderVars>>
    PROVE  DirectorInv'
<1>0. UNCHANGED thread
  BY DEF renderVars
<1>1. Typed'
  BY <1>0 DEF DirectorInv, Typed, CallMoves, StoreMoves
<1>2. RenderInv'
  BY RenderKept DEF DirectorInv, StoreMoves, InState
<1>3. PlanIsAhead'
  <2>1. store' # Nothing
    BY NothingIsNoFile, WorkIsAuthorised DEF StoreMoves
  <2>2. \A d \in Owners : call'[d].pc \in Starting => d # c /\ call[d].pc \in Starting
    BY DEF CallMoves
  <2>3. Authorised'
    BY DEF Authorised
  <2> QED
    BY <1>0, <2>1, <2>2, <2>3 DEF DirectorInv, PlanIsAhead
<1> QED
  BY <1>1, <1>2, <1>3 DEF DirectorInv

\* The call that started the episode moves, before there is a plan.
LEMMA EarlyStep ==
    ASSUME DirectorInv, NEW c \in Owners, NEW P, NEW S, CallMoves(c, P), StoreMoves(S), store' # Nothing,
           call[c].pc \in Starting \/ store = Nothing,
           P \subseteq Starting \cup {"idle"}, S \cap Producing = {},
           UNCHANGED <<plan, row, task, pipe, renderVars>>
    PROVE  DirectorInv'
<1>0. UNCHANGED thread
  BY DEF renderVars
<1>1. Typed'
  BY <1>0 DEF DirectorInv, Typed, CallMoves, StoreMoves
<1>2. ProductionInv' /\ Stable
  BY ProductionKept DEF DirectorInv
<1>3. RenderInv'
  BY <1>2, RenderKept, StatesInUse DEF DirectorInv, StoreMoves, InState
<1>4. PlanIsAhead'
  <2>1. ~plan.ready
    BY DEF DirectorInv, PlanIsAhead
  <2>2. \A d \in Owners \ {c} : call[d].pc \notin Starting /\ call[d].pc = "idle"
    BY <2>1 DEF DirectorInv, PlanIsAhead, Starting, Authorised
  <2>3. \A d \in Owners : call'[d].pc \in Starting => d = c
    BY <2>2 DEF CallMoves
  <2>4. \A d \in Owners : call'[d].pc \in Starting \cup {"idle"}
    BY <2>2 DEF CallMoves
  <2>5. ~InState(Producing)'
    BY <2>1 DEF DirectorInv, PlanIsAhead, StoreMoves, InState, Authorised
  <2>6. \A t \in Threads : thread'[t].pc = "idle"
    BY <1>0, <2>1 DEF DirectorInv, PlanIsAhead, Authorised
  <2> QED
    BY <2>1, <2>3, <2>4, <2>5, <2>6 DEF DirectorInv, PlanIsAhead
<1> QED
  BY <1>1, <1>2, <1>3, <1>4 DEF DirectorInv

\* Steps outside the calls and threads: nothing moves but the production, or a store that
\* leaves the production states, or was in them.
LEMMA OutsideStep ==
    ASSUME DirectorInv, NEW S, StoreMoves(S), S \cap Mastered = {},
           store # Nothing \/ UNCHANGED store, S \cap Producing = {} \/ Authorised,
           ProductionInv', Stable, UNCHANGED <<plan, call, renderVars>>
    PROVE  DirectorInv'
<1>0. UNCHANGED thread
  BY DEF renderVars
<1>1. Typed'
  BY <1>0 DEF DirectorInv, Typed, StoreMoves
<1>2. RenderInv'
  BY RenderKept DEF DirectorInv, StoreMoves, InState
<1>3. PlanIsAhead'
  <2>1. store' = Nothing => store = Nothing
    BY NothingIsNoFile DEF StoreMoves
  <2>2. InState(Producing)' => Authorised
    BY DEF DirectorInv, PlanIsAhead, StoreMoves, InState
  <2>3. Authorised' = Authorised
    BY DEF Authorised
  <2> QED
    BY <1>0, <2>1, <2>2, <2>3 DEF DirectorInv, PlanIsAhead
<1> QED
  BY <1>1, <1>2, <1>3 DEF DirectorInv

\* start_episode() and the plan gate
LEMMA PreproductionSteps ==
    ASSUME DirectorInv, NEW c \in Owners, Preproduction(c)
    PROVE  DirectorInv'
<1>0. Typed /\ call[c] \in Call
  BY DEF DirectorInv, Typed
<1>p. UNCHANGED <<row, task, pipe, renderVars>>
  BY DEF Preproduction, StartEpisode, Research, PlanEpisode, AskBudget, WritePlan, ContinuePlan, Produce,
         production, prodVars
<1>1. CASE StartEpisode(c)
  <2>1. /\ store = Nothing /\ store' = TransitionTo(NewStore, "RESEARCHING") /\ UNCHANGED plan
        /\ call' = [call EXCEPT ![c].pc = "research", ![c].mem = store']
    BY <1>1 DEF StartEpisode
  <2>2. store' \in Store /\ store'.cur = "RESEARCHING"
    BY <2>1, FreshFacts, StoreFacts, StatesInUse
  <2>3. CallMoves(c, {"research"}) /\ StoreMoves({"RESEARCHING"})
    BY <1>0, <2>1, <2>2 DEF CallMoves, StoreMoves, Typed, Call, CallPCs
  <2>4. store' # Nothing
    BY <2>2, NothingIsNoFile
  <2>5. {"research"} \subseteq Starting \cup {"idle"} /\ {"RESEARCHING"} \cap Producing = {}
    BY StatesInUse DEF Starting
  <2> QED
    BY <1>p, <2>1, <2>3, <2>4, <2>5, EarlyStep
<1>2. CASE Research(c)
  <2>1. At(c, "research") /\ AgentRan(c, "PLANNING", "planning") /\ UNCHANGED plan
    BY <1>2 DEF Research
  <2>2. "PLANNING" \in EpisodeStates /\ "planning" \in CallPCs
    BY StatesInUse DEF CallPCs
  <2>3. CallMoves(c, {"planning", "idle"}) /\ StoreMoves({"PLANNING", "FAILED"})
    BY <1>0, <2>1, <2>2, RanMoves
  <2>4. call[c].pc \in Starting /\ store' # Nothing
    BY <2>1, <2>3, WorkIsAuthorised, NothingIsNoFile DEF At, Starting, StoreMoves
  <2>5. {"planning", "idle"} \subseteq Starting \cup {"idle"} /\ {"PLANNING", "FAILED"} \cap Producing = {}
    BY StatesInUse DEF Starting
  <2> QED
    BY <1>p, <2>1, <2>3, <2>4, <2>5, EarlyStep
<1>3. CASE PlanEpisode(c)
  <2>1. PICK within \in BOOLEAN, asked \in BOOLEAN :
          /\ At(c, "planning") /\ UNCHANGED plan
          /\ store' = TransitionTo(call[c].mem, "WAITING_PLAN_APPROVAL")
          /\ call' = [call EXCEPT ![c].mem = store', ![c].plan.within = within,
                                  ![c].pc = IF asked /\ ~within THEN "asking" ELSE "planfile"]
    BY <1>3 DEF PlanEpisode
  <2>2. store' \in Store /\ store'.cur = "WAITING_PLAN_APPROVAL" /\ store' # Nothing
    BY <1>0, <2>1, StoreFacts, StatesInUse, NothingIsNoFile DEF Call
  <2>3. CallMoves(c, {"asking", "planfile"}) /\ StoreMoves({"WAITING_PLAN_APPROVAL"})
    BY <1>0, <2>1, <2>2 DEF CallMoves, StoreMoves, Typed, Call, Plan, CallPCs
  <2>4. call[c].pc \in Starting
    BY <2>1 DEF At, Starting
  <2>5. /\ {"asking", "planfile"} \subseteq Starting \cup {"idle"}
        /\ {"WAITING_PLAN_APPROVAL"} \cap Producing = {}
    BY StatesInUse DEF Starting
  <2> QED
    BY <1>p, <2>1, <2>2, <2>3, <2>4, <2>5, EarlyStep
<1>4. CASE AskBudget(c)
  <2>1. /\ At(c, "asking") /\ UNCHANGED plan
        /\ \/ /\ \E a \in {"D", "other"} : call' = [call EXCEPT ![c].plan.answer = a, ![c].pc = "planfile"]
              /\ UNCHANGED store
           \/ SaveAs(c, "PAUSED", "planfile")
    BY <1>4 DEF AskBudget
  <2>2. "PAUSED" \in EpisodeStates /\ "planfile" \in CallPCs
    BY StatesInUse DEF CallPCs
  <2>3. ASSUME NEW a \in {"D", "other"}, call' = [call EXCEPT ![c].plan.answer = a, ![c].pc = "planfile"]
        PROVE  CallMoves(c, {"planfile", "idle"})
    BY <1>0, <2>2, <2>3 DEF CallMoves, Typed, Call, Plan
  <2>4. CallMoves(c, {"planfile", "idle"}) /\ StoreMoves({"PAUSED"})
    BY <1>0, <2>1, <2>2, <2>3, SaveMoves DEF StoreMoves
  <2>5. call[c].pc \in Starting /\ store' # Nothing
    BY <2>1, <2>4, WorkIsAuthorised, NothingIsNoFile DEF At, Starting, StoreMoves
  <2>6. {"planfile", "idle"} \subseteq Starting \cup {"idle"} /\ {"PAUSED"} \cap Producing = {}
    BY StatesInUse DEF Starting
  <2> QED
    BY <1>p, <2>1, <2>4, <2>5, <2>6, EarlyStep
<1>5. CASE WritePlan(c)
  <2>1. /\ At(c, "planfile") /\ plan' = [call[c].plan EXCEPT !.ready = TRUE]
        /\ End(c) /\ UNCHANGED store
    BY <1>5 DEF WritePlan
  <2>2. CallMoves(c, {"idle"})
    BY <1>0, <2>1, EndMoves
  <2>3. Typed'
    BY <1>0, <1>p, <2>1, <2>2 DEF Typed, CallMoves, Call, Plan, renderVars
  <2>4. ProductionInv' /\ Stable
    BY <1>p, ProductionKept DEF DirectorInv
  <2>5. RenderInv'
    BY <1>p, <2>1, <2>4, RenderKept DEF DirectorInv, InState
  <2>6. PlanIsAhead'
    <3>1. call[c].pc \in Starting /\ ~plan.ready /\ store # Nothing
      BY <2>1, WorkIsAuthorised, NothingIsNoFile DEF DirectorInv, PlanIsAhead, At, Starting
    <3>2. \A d \in Owners : call'[d].pc = "idle"
      BY <2>2, <3>1 DEF DirectorInv, PlanIsAhead, Starting, Authorised, CallMoves
    <3>3. ~InState(Producing) /\ \A t \in Threads : thread[t].pc = "idle"
      BY <3>1 DEF DirectorInv, PlanIsAhead, Authorised
    <3>4. plan'.ready
      BY <1>0, <2>1 DEF Call, Plan
    <3> QED
      BY <1>p, <2>1, <3>1, <3>2, <3>3, <3>4 DEF PlanIsAhead, Starting, InState, renderVars
  <2> QED
    BY <2>3, <2>4, <2>5, <2>6 DEF DirectorInv
<1>6. CASE ContinuePlan(c)
  <2>0. store # Nothing /\ store \in Store /\ UNCHANGED plan
    BY <1>0, <1>6 DEF ContinuePlan, Typed
  <2>p. ProductionInv' /\ Stable
    BY <1>p, ProductionKept DEF DirectorInv
  <2>1. CASE BudgetAdmits
    <3>1. Authorised /\ Enter(c, "read") /\ UNCHANGED store
      BY <1>6, <2>1 DEF ContinuePlan, BudgetAdmits, Authorised
    <3>2. CallMoves(c, {"read"}) /\ StoreMoves({})
      BY <1>0, <2>0, <3>1, EnterMoves DEF CallPCs, StoreMoves
    <3>3. {"read"} \cap Starting = {}
      BY DEF Starting
    <3> QED
      BY <1>p, <2>0, <2>p, <3>1, <3>2, <3>3, LateStep
  <2>2. CASE ~BudgetAdmits
    <3>1. store' = TransitionTo(Loaded, "WAITING_BUDGET_APPROVAL") /\ UNCHANGED call
      BY <1>6, <2>2 DEF ContinuePlan
    <3>2. StoreMoves({"WAITING_BUDGET_APPROVAL"})
      BY <2>0, <3>1, StoreFacts, StatesInUse DEF StoreMoves, Loaded
    <3>3. {"WAITING_BUDGET_APPROVAL"} \cap Producing = {} /\ {"WAITING_BUDGET_APPROVAL"} \cap Mastered = {}
      BY StatesInUse
    <3> QED
      BY <1>p, <2>0, <2>p, <3>1, <3>2, <3>3, OutsideStep
  <2> QED
    BY <2>1, <2>2
<1>7. CASE Produce(c)
  <2> DEFINE P == {"script", "scriptqa", "audio", "storyboard", "idle"}
             S == {"SCRIPTING", "SCRIPT_QA", "GENERATING_AUDIO", "STORYBOARDING", "GENERATING_IMAGES", "FAILED"}
  <2>1. /\ UNCHANGED plan
        /\ \/ At(c, "read") /\ SaveAs(c, "SCRIPTING", "script")
           \/ At(c, "script") /\ AgentRan(c, "SCRIPT_QA", "scriptqa")
           \/ At(c, "scriptqa") /\ AgentRan(c, "GENERATING_AUDIO", "audio")
           \/ At(c, "audio") /\ AgentRan(c, "STORYBOARDING", "storyboard")
           \/ At(c, "storyboard") /\ AgentRan(c, "GENERATING_IMAGES", "idle")
    BY <1>7 DEF Produce
  <2>2. S \subseteq EpisodeStates /\ P \subseteq CallPCs /\ S \cap Mastered = {} /\ P \cap Starting = {}
    BY StatesInUse DEF CallPCs, Producing, Mastered, Starting
  <2>3. \A to \in S, pc \in P : SaveAs(c, to, pc) \/ AgentRan(c, to, pc) => CallMoves(c, P) /\ StoreMoves(S)
    BY <1>0, <2>2, SaveMoves, RanMoves DEF CallMoves, StoreMoves
  <2>4. CallMoves(c, P) /\ StoreMoves(S)
    BY <2>1, <2>3
  <2>5. Authorised
    BY <2>1, WorkIsAuthorised DEF At, Starting
  <2>6. ProductionInv' /\ Stable
    BY <1>p, ProductionKept DEF DirectorInv
  <2> HIDE DEF P, S
  <2> QED
    BY <1>p, <2>1, <2>2, <2>4, <2>5, <2>6, LateStep
<1> QED
  BY <1>1, <1>2, <1>3, <1>4, <1>5, <1>6, <1>7 DEF Preproduction

\* Dispatch and visual QA
LEMMA CompiledSteps ==
    ASSUME DirectorInv, NEW c \in Owners, Compiled(c)
    PROVE  DirectorInv'
<1>0. Typed /\ ProductionInv /\ call[c] \in Call
  BY DEF DirectorInv, Typed
<1>p. UNCHANGED <<plan, renderVars>>
  BY DEF Compiled, Dispatch, OpenBaselines, CloseBaselines, DispatchRaises, Review, CloseReview, RecordVerdict
<1>1. ASSUME CallMoves(c, {"idle"}), StoreMoves({"VISUAL_QA", "PLANNING_ANIMATION"}), ~At(c, "idle"),
             At(c, "wave") \/ At(c, "judge"), ProductionInv', Stable
      PROVE  DirectorInv'
  <2>1. Authorised
    BY <1>1, WorkIsAuthorised DEF At, Starting
  <2>2. {"VISUAL_QA", "PLANNING_ANIMATION"} \cap Mastered = {} /\ {"idle"} \cap Starting = {}
    BY DEF Mastered, Starting
  <2> QED
    BY <1>1, <1>p, <2>1, <2>2, LateStep
<1>2. ASSUME NEW to \in {"VISUAL_QA", "PLANNING_ANIMATION"}, SaveAs(c, to, "idle")
      PROVE  CallMoves(c, {"idle"}) /\ StoreMoves({"VISUAL_QA", "PLANNING_ANIMATION"})
  <2>1. to \in EpisodeStates /\ "idle" \in CallPCs
    BY StatesInUse DEF Producing, CallPCs
  <2> QED
    BY <1>0, <1>2, <2>1, SaveMoves DEF CallMoves, StoreMoves
<1>3. ASSUME End(c), UNCHANGED store
      PROVE  CallMoves(c, {"idle"}) /\ StoreMoves({"VISUAL_QA", "PLANNING_ANIMATION"})
  BY <1>0, <1>3, EndMoves DEF StoreMoves
<1>4. ASSUME UNCHANGED <<row, task, pipe>>
      PROVE  ProductionInv' /\ Stable
  BY <1>0, <1>4, ProductionKept
<1>5. CASE Dispatch(c)
  <2>1. InState({"GENERATING_IMAGES"}) /\ Enter(c, "queued") /\ UNCHANGED <<store, row, task, pipe>>
    BY <1>5 DEF Dispatch, production, prodVars
  <2>2. Authorised /\ store # Nothing
    BY <2>1, WorkIsAuthorised DEF InState, Producing
  <2>3. CallMoves(c, {"queued"}) /\ StoreMoves({})
    BY <1>0, <2>1, <2>2, EnterMoves DEF CallPCs, StoreMoves
  <2>4. {"queued"} \cap Starting = {}
    BY DEF Starting
  <2> QED
    BY <1>4, <1>p, <2>1, <2>2, <2>3, <2>4, LateStep
<1>6. CASE OpenBaselines(c)
  <2>1. At(c, "queued") /\ Goto(c, "wave") /\ UNCHANGED <<store, row, task, pipe>>
    BY <1>6 DEF OpenBaselines, OpenWave
  <2>2. Authorised
    BY <2>1, WorkIsAuthorised DEF At, Starting
  <2>3. CallMoves(c, {"wave"}) /\ StoreMoves({})
    BY <1>0, <2>1, GotoMoves DEF CallPCs, StoreMoves
  <2>4. {"wave"} \cap Starting = {}
    BY DEF Starting
  <2> QED
    BY <1>4, <1>p, <2>1, <2>2, <2>3, <2>4, LateStep
<1>7. CASE CloseBaselines(c)
  <2>1. /\ At(c, "wave") /\ UNCHANGED <<row, task, pipe>>
        /\ SaveAs(c, "VISUAL_QA", "idle") \/ (End(c) /\ UNCHANGED store)
    BY <1>7 DEF CloseBaselines
  <2> QED
    BY <1>1, <1>2, <1>3, <1>4, <2>1 DEF At
<1>8. CASE DispatchRaises(c)
  <2>1. At(c, "wave") /\ UNCHANGED <<row, task, pipe>> /\ End(c) /\ UNCHANGED store
    BY <1>8 DEF DispatchRaises, production, prodVars
  <2> QED
    BY <1>1, <1>3, <1>4, <2>1 DEF At
<1>9. CASE Review(c)
  <2>1. /\ InState({"VISUAL_QA"}) /\ UNCHANGED <<store, row, task, pipe>>
        /\ \E v \in [{Active(s) : s \in Packets} -> {"pass", "fail"}] :
              call' = [call EXCEPT ![c].pc = "judge", ![c].mem = Loaded, ![c].verdicts = v]
    BY <1>9 DEF Review, production, prodVars
  <2>2. Authorised /\ store # Nothing /\ store \in Store
    BY <2>1, WorkIsAuthorised DEF InState, Producing
  <2>3. Loaded \in Store
    BY <2>2, StoreFacts, StatesInUse DEF Loaded
  <2>4. {Active(s) : s \in Packets} \in SUBSET Jobs
    <3>1. \A s \in Packets : s \in Submittable
      BY DEF Packets
    <3>2. \A s \in Submittable : pipe.active[s] \in Images
      BY <1>0 DEF ProductionInv, HeroesFollow, Pipeline
    <3>3. \A s \in Packets : Active(s) \in Jobs
      BY <3>1, <3>2, JobFacts DEF Active
    <3> QED
      BY <3>3
  <2>5. PICK v \in Verdicts : call' = [call EXCEPT ![c].pc = "judge", ![c].mem = Loaded, ![c].verdicts = v]
    BY <2>1, <2>4 DEF Verdicts
  <2>6. CallMoves(c, {"judge"}) /\ StoreMoves({})
    <3>1. call[c] \in Call /\ "judge" \in CallPCs /\ call \in [Owners -> Call]
      BY <1>0 DEF Typed, CallPCs
    <3>2. [call[c] EXCEPT !.pc = "judge", !.mem = Loaded, !.verdicts = v] \in Call
      BY <2>3, <3>1 DEF Call
    <3>3. [call[c] EXCEPT !.pc = "judge", !.mem = Loaded, !.verdicts = v].pc = "judge"
      BY <3>1 DEF Call
    <3>4. call' = [call EXCEPT ![c] = [call[c] EXCEPT !.pc = "judge", !.mem = Loaded, !.verdicts = v]]
      BY <2>5, <3>1
    <3> QED
      BY <2>1, <3>1, <3>2, <3>3, <3>4 DEF CallMoves, StoreMoves
  <2>7. {"judge"} \cap Starting = {}
    BY DEF Starting
  <2> QED
    BY <1>4, <1>p, <2>1, <2>2, <2>6, <2>7, LateStep
<1>10. CASE CloseReview(c)
  <2>1. /\ At(c, "judge") /\ UNCHANGED <<row, task, pipe>>
        /\ SaveAs(c, "PLANNING_ANIMATION", "idle") \/ (End(c) /\ UNCHANGED store)
    BY <1>10 DEF CloseReview, production, prodVars
  <2> QED
    BY <1>1, <1>2, <1>3, <1>4, <2>1 DEF At
<1>11. ASSUME NEW j \in Jobs, j \in DOMAIN call[c].verdicts, RecordVerdict(c, j)
       PROVE  DirectorInv'
  <2>1. call[c].verdicts[j] \in {"pass", "fail"}
    <3>1. PICK J \in SUBSET Jobs : call[c].verdicts \in [J -> {"pass", "fail"}]
      BY <1>0 DEF Call, Verdicts
    <3> QED
      BY <1>11, <3>1
  <2>2. /\ At(c, "judge") /\ UNCHANGED <<task, pipe, store>>
        /\ \/ MayReview(j, call[c].verdicts[j]) /\ row' = Judged(j, call[c].verdicts[j]) /\ (UNCHANGED call \/ End(c))
           \/ End(c) /\ UNCHANGED row
    BY <1>11 DEF RecordVerdict
  <2>3. ProductionInv' /\ Stable
    BY <1>0, <1>4, <2>1, <2>2, VerdictSteps
  <2>4. CASE UNCHANGED call
    <3>1. StoreMoves({}) /\ (store # Nothing \/ UNCHANGED store)
      BY <2>2 DEF StoreMoves
    <3> QED
      BY <1>p, <2>3, <2>4, <3>1, OutsideStep
  <2>5. CASE End(c)
    BY <1>1, <1>3, <2>2, <2>3, <2>5 DEF At
  <2> QED
    BY <2>2, <2>4, <2>5
<1> QED
  BY <1>5, <1>6, <1>7, <1>8, <1>9, <1>10, <1>11 DEF Compiled

-----------------------------------------------------------------------------
(* The render *)

\* What a step of a render thread must show: the rest follows.
LEMMA ThreadStep ==
    ASSUME DirectorInv, Authorised, NEW t \in Threads,
           thread' \in [Threads -> RenderThread], \A u \in Threads \ {t} : thread'[u] = thread[u],
           call' \in [Owners -> Call],
           \A c \in Owners : call'[c] = call[c] \/ call'[c].pc \in {"idle", "flight"},
           store' = store \/ store' \in Store,
           \A u \in Threads : ThreadKnows(u)', EvidenceBinds',
           UNCHANGED <<row, task, pipe, plan>>
    PROVE  DirectorInv'
<1>1. Typed'
  BY DEF DirectorInv, Typed
<1>2. ProductionInv'
  BY ProductionKept DEF DirectorInv
<1>3. PlanIsAhead'
  <2>1. store' # Nothing
    BY NothingIsNoFile, WorkIsAuthorised
  <2>2. \A c \in Owners : call'[c].pc \in Starting => call[c].pc \in Starting
    BY DEF Starting
  <2>3. Authorised'
    BY DEF Authorised
  <2> QED
    BY <2>1, <2>2, <2>3 DEF DirectorInv, PlanIsAhead
<1> QED
  BY <1>1, <1>2, <1>3 DEF DirectorInv, RenderInv

\* A thread that knows nothing of the files but its contract
LEMMA ThreadStays ==
    ASSUME RenderInv, NEW u \in Threads, UNCHANGED row, thread'[u] = thread[u],
           \/ thread[u].pc \in {"idle", "queued"}
           \/ lock' = lock /\ UNCHANGED renderFiles
    PROVE  ThreadKnows(u)'
BY DEF RenderInv, ThreadKnows, Approves, Passed, renderFiles

\* A contract closed over rendering scenes is one of approved work.
LEMMA ContractApproved ==
    ASSUME ProductionInv, ScenesRender, NEW hold \in Holds
    PROVE  ContractFor(hold) \in Contract /\ Approves(ContractFor(hold))
<1>1. pipe \in Pipeline
  BY DEF ProductionInv, HeroesFollow
<1>2. /\ ContractFor(hold) \in Contract
      /\ ContractFor(hold).scenes.images = pipe.active /\ ContractFor(hold).scenes.clips = pipe.approved
  BY <1>1 DEF ContractFor, Contract, RenderedScenes, Pipeline
<1>3. \A s \in Submittable : Passed(<<s, pipe.active[s]>>)
  BY DEF ScenesRender, RenderReady, Active
<1>4. HeroScenes \subseteq pipe.approved
  BY DEF ScenesRender
<1>5. \A s \in Submittable : s \in pipe.approved => pipe.active[s] = "first" /\ Passed(Hero(s))
  BY DEF ProductionInv, HeroesFollow
<1>6. Approves(ContractFor(hold))
  BY <1>2, <1>3, <1>4, <1>5 DEF Approves
<1> QED
  BY <1>2, <1>6

\* A render is asked for: a queued thread with an approved contract
LEMMA QueueStep ==
    ASSUME DirectorInv, NEW t \in Threads, NEW hold \in Holds, ScenesRender, thread[t].pc = "idle",
           InState({"PLANNING_ANIMATION", "LOCAL_ANIMATION", "ASSEMBLING", "FINAL_QA"}),
           thread' = [thread EXCEPT ![t] = [NoThread EXCEPT !.pc = "queued", !.contract = ContractFor(hold)]],
           call' \in [Owners -> Call],
           \A c \in Owners : call'[c] = call[c] \/ call'[c].pc \in {"idle", "flight"},
           UNCHANGED <<row, task, pipe, plan, store, lock, renderFiles, renders>>
    PROVE  DirectorInv'
<1> DEFINE new == [NoThread EXCEPT !.pc = "queued", !.contract = ContractFor(hold)]
<1>1. PICK k \in Contract : k = ContractFor(hold) /\ Approves(k)
  BY ContractApproved DEF DirectorInv
<1>2. new \in RenderThread /\ new.pc = "queued" /\ new.contract = k
  BY <1>1, FreshFacts DEF RenderThread, ThreadPCs
<1>3. /\ thread' \in [Threads -> RenderThread] /\ thread'[t] = new
      /\ \A u \in Threads \ {t} : thread'[u] = thread[u]
  BY <1>2 DEF DirectorInv, Typed
<1>4. ASSUME NEW u \in Threads \ {t}
      PROVE  ThreadKnows(u)'
  BY <1>3, ThreadStays DEF DirectorInv
<1>5. ThreadKnows(t)'
  BY <1>1, <1>2, <1>3 DEF ThreadKnows, Approves, Passed
<1>6. EvidenceBinds'
  BY DEF DirectorInv, RenderInv, EvidenceBinds, RenderedAsApproved, InState, Passed, renderFiles
<1>7. Authorised
  BY WorkIsAuthorised DEF InState, Producing, Mastered
<1> QED
  BY <1>3, <1>4, <1>5, <1>6, <1>7, ThreadStep

\* The thread ends, with or without a last save under a receipt.
LEMMA UnwindStep ==
    ASSUME DirectorInv, NEW t \in Threads, thread[t].pc # "idle", Unwind(t),
           store' = store \/ (store' \in Store /\ receipt # Nothing),
           UNCHANGED <<row, task, pipe, plan, renderFiles, renders>>
    PROVE  DirectorInv'
<1>1. /\ thread' \in [Threads -> RenderThread] /\ thread'[t] = NoThread
      /\ \A u \in Threads \ {t} : thread'[u] = thread[u]
  BY FreshFacts DEF DirectorInv, Typed, Unwind
<1>2. call' \in [Owners -> Call] /\ \A c \in Owners : call'[c] = call[c] \/ call'[c].pc = "idle"
  BY FreshFacts DEF DirectorInv, Typed, Unwind
<1>3. ASSUME NEW u \in Threads \ {t}
      PROVE  ThreadKnows(u)'
  <2>1. thread[u].pc \notin {"idle", "queued"} => lock' = lock
    BY DEF DirectorInv, RenderInv, ThreadKnows, Unwind
  <2> QED
    BY <1>1, <2>1, ThreadStays DEF DirectorInv
<1>4. ThreadKnows(t)'
  BY <1>1, FreshFacts DEF ThreadKnows
<1>5. EvidenceBinds'
  BY DEF DirectorInv, RenderInv, EvidenceBinds, RenderedAsApproved, InState, Passed, renderFiles
<1>6. Authorised
  BY WorkIsAuthorised
<1> QED
  BY <1>1, <1>2, <1>3, <1>4, <1>5, <1>6, ThreadStep

\* A thread moves on with its contract.
ThreadMoves(t, pc) ==
    /\ thread' \in [Threads -> RenderThread] /\ \A u \in Threads \ {t} : thread'[u] = thread[u]
    /\ thread'[t].pc = pc /\ thread'[t].contract = thread[t].contract

\* The holder of the render lock takes its next step.
LEMMA HolderStep ==
    ASSUME DirectorInv, NEW t \in Threads, thread[t].pc # "idle", lock \in {t, Nobody}, lock' = t,
           NEW pc \in ThreadPCs \ {"idle"}, ThreadMoves(t, pc),
           store' = store \/ store' \in Store,
           LET k == thread[t].contract
           IN  /\ pc # "queued"
               /\ pc = "intent" => intent' = Nothing /\ video' = Nothing /\ completion' = Nothing
               /\ pc \in {"local", "assembling", "render"} =>
                     intent' = k /\ video' = Nothing /\ completion' = Nothing
               /\ pc = "commit" => intent' = k /\ video' = k /\ completion' = Nothing
               /\ pc \in {"recover", "receipt", "advance"} => intent' = k /\ video' = k /\ completion' = k
               /\ pc = "advance" => receipt' = k,
           EvidenceBinds', UNCHANGED <<row, task, pipe, plan, call>>
    PROVE  DirectorInv'
<1>0. PICK k \in Contract : k = thread[t].contract /\ Approves(k)
  BY DEF DirectorInv, RenderInv, ThreadKnows
<1>1. /\ thread' \in [Threads -> RenderThread]
      /\ thread'[t].pc = pc /\ thread'[t].contract = k
      /\ \A u \in Threads \ {t} : thread'[u] = thread[u]
  BY <1>0 DEF ThreadMoves
<1>2. ASSUME NEW u \in Threads \ {t}
      PROVE  ThreadKnows(u)'
  <2>1. thread[u].pc \in {"idle", "queued"}
    BY DirectorConstants DEF DirectorInv, RenderInv, ThreadKnows
  <2> QED
    BY <1>1, <2>1, ThreadStays DEF DirectorInv
<1>3. ThreadKnows(t)'
  <2>1. Approves(k)'
    BY <1>0 DEF Approves, Passed
  <2> QED
    BY <1>0, <1>1, <2>1 DEF ThreadKnows, Approves
<1>4. Authorised /\ call' \in [Owners -> Call]
  BY WorkIsAuthorised DEF DirectorInv, Typed
<1> QED
  BY <1>1, <1>2, <1>3, <1>4, ThreadStep

\* Every step of a render thread
LEMMA RenderSteps ==
    ASSUME DirectorInv, NEW t \in Threads, Render(t)
    PROVE  DirectorInv'
<1> DEFINE k == thread[t].contract
<1>0. /\ thread \in [Threads -> RenderThread] /\ thread[t] \in RenderThread /\ thread[t].mem \in Store
      /\ ThreadKnows(t) /\ EvidenceBinds
  BY DEF DirectorInv, Typed, RenderInv, RenderThread, EvidenceBinds
<1>p. UNCHANGED <<row, task, pipe, plan>>
  BY DEF Render, RenderElsewhere, LockRender, RenderAgain, EnterRender, WriteIntent, SaveRenderState, PublishMaster,
         CommitCompletion, WriteReceipt, AdvanceState, RenderRaises, production, prodVars
<1>t. ASSUME NEW pc \in ThreadPCs, TurnTo(t, pc)
      PROVE  ThreadMoves(t, pc)
  BY <1>0, <1>t DEF TurnTo, ThreadMoves, RenderThread
<1>k. thread[t].pc # "idle" => k \in Contract /\ k # Nothing /\ Approves(k)
  BY <1>0, NothingIsNoFile DEF ThreadKnows
<1>1. ASSUME NEW hold \in Holds, RenderElsewhere(t, hold)
      PROVE  DirectorInv'
  <2>1. call' \in [Owners -> Call]
    BY <1>1 DEF RenderElsewhere, DirectorInv, Typed
  <2> QED
    BY <1>1, <1>p, <2>1, QueueStep DEF RenderElsewhere
<1>2. ASSUME NEW pc, thread[t].pc \in {"queued", "recover"}, EnterRender(t, pc), lock \in {t, Nobody}
      PROVE  DirectorInv'
  <2>0. UNCHANGED <<store, intent, video, completion, receipt, renders>>
    BY <1>2 DEF EnterRender, renderFiles
  <2>1. Loaded \in Store
    BY <1>2, StoreFacts, StatesInUse, WorkIsAuthorised DEF Loaded
  <2>2. EvidenceBinds'
    BY <1>0, <1>p, <2>0 DEF EvidenceBinds, RenderedAsApproved, InState, Passed
  <2>3. CASE RecoveryBinds(k) /\ lock' = t /\ UNCHANGED call
             /\ thread' = [thread EXCEPT ![t].pc = "receipt", ![t].mem = Loaded]
    <3>1. ThreadMoves(t, "receipt")
      BY <1>0, <2>1, <2>3 DEF ThreadMoves, RenderThread, ThreadPCs
    <3>2. "receipt" \in ThreadPCs \ {"idle"}
      BY DEF ThreadPCs
    <3>3. intent' = k /\ video' = k /\ completion' = k /\ thread[t].pc # "idle"
      BY <1>2, <2>0, <2>3 DEF RecoveryBinds
    <3> QED
      BY <1>2, <1>p, <2>0, <2>1, <2>2, <2>3, <3>1, <3>2, <3>3, HolderStep
  <2>4. CASE ~Quarantined /\ lock' = t /\ UNCHANGED call
             /\ thread' = [thread EXCEPT ![t].pc = "intent", ![t].mem = Loaded]
    <3>1. ThreadMoves(t, "intent")
      BY <1>0, <2>1, <2>4 DEF ThreadMoves, RenderThread, ThreadPCs
    <3>2. "intent" \in ThreadPCs \ {"idle"}
      BY DEF ThreadPCs
    <3>3. /\ intent' = Nothing /\ video' = Nothing /\ completion' = Nothing /\ thread[t].pc # "idle"
          /\ lock' = t /\ UNCHANGED call
      BY <1>2, <2>0, <2>4 DEF Quarantined
    <3> QED
      BY <1>2, <1>p, <2>0, <2>1, <2>2, <3>1, <3>2, <3>3, HolderStep
  <2>5. CASE Unwind(t)
    BY <1>2, <1>p, <2>0, <2>5, UnwindStep DEF renderFiles
  <2> QED
    BY <1>2, <2>3, <2>4, <2>5 DEF EnterRender
<1>3. CASE LockRender(t)
  BY <1>2, <1>3 DEF LockRender
<1>4. CASE RenderAgain(t)
  <2>1. thread[t].pc = "recover" /\ EnterRender(t, "recover") /\ lock = t
    BY <1>0, <1>4 DEF RenderAgain, ThreadKnows
  <2> QED
    BY <1>2, <2>1
<1>5. CASE WriteIntent(t)
  <2>1. /\ thread[t].pc = "intent" /\ UNCHANGED <<store, video, completion, receipt, renders>>
        /\ intent = Nothing /\ video = Nothing /\ completion = Nothing /\ lock = t
    BY <1>0, <1>5 DEF WriteIntent, ThreadKnows
  <2>2. intent' = k /\ TurnTo(t, "local") /\ UNCHANGED <<lock, call>>
    BY <1>5, <2>1 DEF WriteIntent
  <2>3. EvidenceBinds'
    BY <1>0, <1>k, <1>p, <2>1, <2>2 DEF EvidenceBinds, RenderedAsApproved, Approves, InState, Passed
  <2>4. "local" \in ThreadPCs \ {"idle"} /\ ThreadMoves(t, "local")
    BY <1>t, <2>2 DEF ThreadPCs
  <2> QED
    BY <1>0, <1>p, <2>1, <2>2, <2>3, <2>4, HolderStep
<1>6. CASE SaveRenderState(t)
  <2>1. PICK to \in {"LOCAL_ANIMATION", "ASSEMBLING"} :
          /\ thread[t].pc = IF to = "LOCAL_ANIMATION" THEN "local" ELSE "assembling"
          /\ store' = TransitionTo(thread[t].mem, to)
          /\ thread' = [thread EXCEPT ![t].mem = store',
                                      ![t].pc = IF to = "LOCAL_ANIMATION" THEN "assembling" ELSE "render"]
          /\ UNCHANGED <<call, lock, intent, video, completion, receipt, renders>>
    BY <1>6 DEF SaveRenderState, renderFiles
  <2> DEFINE pc == IF to = "LOCAL_ANIMATION" THEN "assembling" ELSE "render"
  <2>2. store' \in Store /\ store'.cur = to /\ to \notin Mastered
    BY <1>0, <2>1, StoreFacts, StatesInUse DEF Producing, Mastered
  <2>3. /\ pc \in ThreadPCs \ {"idle"} /\ pc \in {"assembling", "render"} /\ ThreadMoves(t, pc)
        /\ thread[t].pc \in {"local", "assembling"}
    BY <1>0, <2>1, <2>2 DEF ThreadMoves, RenderThread, ThreadPCs
  <2>4. lock = t /\ intent = k /\ video = Nothing /\ completion = Nothing
    BY <1>0, <2>3 DEF ThreadKnows
  <2>5. EvidenceBinds'
    BY <1>0, <1>p, <2>1, <2>2 DEF EvidenceBinds, RenderedAsApproved, InState, Passed
  <2> HIDE DEF pc
  <2> QED
    BY <1>p, <2>1, <2>2, <2>3, <2>4, <2>5, HolderStep
<1>7. CASE PublishMaster(t)
  <2>1. /\ thread[t].pc = "render" /\ UNCHANGED <<store, intent, completion, receipt>>
        /\ intent = k /\ video = Nothing /\ completion = Nothing /\ lock = t
    BY <1>0, <1>7 DEF PublishMaster, ThreadKnows
  <2>2. CASE Unwind(t) /\ UNCHANGED <<video, renders>>
    BY <1>p, <2>1, <2>2, UnwindStep DEF renderFiles
  <2>3. CASE video' = k /\ renders' = renders + 1 /\ TurnTo(t, "commit") /\ UNCHANGED <<lock, call>>
    <3>1. EvidenceBinds'
      BY <1>0, <1>k, <1>p, <2>1, <2>3 DEF EvidenceBinds, RenderedAsApproved, InState, Passed
    <3>2. "commit" \in ThreadPCs \ {"idle"} /\ ThreadMoves(t, "commit")
      BY <1>t, <2>3 DEF ThreadPCs
    <3> QED
      BY <1>0, <1>p, <2>1, <2>3, <3>1, <3>2, HolderStep
  <2> QED
    BY <1>7, <2>2, <2>3 DEF PublishMaster
<1>8. CASE CommitCompletion(t)
  <2>1. /\ thread[t].pc = "commit" /\ UNCHANGED <<store, intent, video, receipt, renders, lock, call>>
        /\ intent = k /\ video = k /\ completion = Nothing /\ lock = t
        /\ completion' = k /\ TurnTo(t, "recover")
    BY <1>0, <1>8 DEF CommitCompletion, ThreadKnows
  <2>2. EvidenceBinds'
    BY <1>0, <1>p, <2>1 DEF EvidenceBinds, RenderedAsApproved, InState, Passed
  <2>3. "recover" \in ThreadPCs \ {"idle"} /\ ThreadMoves(t, "recover")
    BY <1>t, <2>1 DEF ThreadPCs
  <2> QED
    BY <1>0, <1>p, <2>1, <2>2, <2>3, HolderStep
<1>9. CASE WriteReceipt(t)
  <2>1. /\ thread[t].pc = "receipt" /\ UNCHANGED <<store, intent, video, completion, renders>>
        /\ intent = k /\ video = k /\ completion = k /\ lock = t
    BY <1>0, <1>9 DEF WriteReceipt, ThreadKnows
  <2>2. CASE Unwind(t) /\ UNCHANGED receipt
    BY <1>p, <2>1, <2>2, UnwindStep DEF renderFiles
  <2>3. CASE receipt' = k /\ TurnTo(t, "advance") /\ UNCHANGED <<lock, call>>
    <3>1. EvidenceBinds'
      BY <1>0, <1>k, <1>p, <2>1, <2>3 DEF EvidenceBinds, RenderedAsApproved, InState, Passed
    <3>2. "advance" \in ThreadPCs \ {"idle"} /\ ThreadMoves(t, "advance")
      BY <1>t, <2>3 DEF ThreadPCs
    <3> QED
      BY <1>0, <1>p, <2>1, <2>3, <3>1, <3>2, HolderStep
  <2> QED
    BY <1>9, <2>2, <2>3 DEF WriteReceipt
<1>10. CASE AdvanceState(t)
  <2>1. /\ thread[t].pc = "advance" /\ Unwind(t) /\ UNCHANGED <<renderFiles, renders>>
        /\ store' = store \/ (store' = Advanced(thread[t].mem) /\ Advanced(thread[t].mem) # Nothing)
    BY <1>10 DEF AdvanceState
  <2>2. receipt # Nothing
    BY <1>0, <1>k, <2>1 DEF ThreadKnows
  <2>3. Advanced(thread[t].mem) \in Store \cup {Nothing}
    BY <1>0, StatesInUse DEF Advanced, Store, Producing, Mastered
  <2> QED
    BY <1>p, <2>1, <2>2, <2>3, UnwindStep
<1>11. CASE RenderRaises(t)
  BY <1>p, <1>11, UnwindStep DEF RenderRaises
<1> QED
  BY <1>1, <1>3, <1>4, <1>5, <1>6, <1>7, <1>8, <1>9, <1>10, <1>11 DEF Render

\* The calls of complete_compiled_final_qa()
LEMMA FinalizeSteps ==
    ASSUME DirectorInv, NEW c \in Owners, Finalize(c)
    PROVE  DirectorInv'
<1>0. Typed
  BY DEF DirectorInv
<1>p. ProductionInv' /\ Stable /\ UNCHANGED <<row, task, pipe, plan>>
  BY ProductionKept DEF DirectorInv, Finalize, JoinFlight, Sidecars, MakeSidecars, ReviewFinal, CloseFinal,
         CancelCaller, production, prodVars
<1>1. ASSUME CallMoves(c, {"idle"}), StoreMoves({"WAITING_THUMBNAIL_APPROVAL"}), UNCHANGED renderVars,
             receipt # Nothing \/ UNCHANGED store, At(c, "sidecars") \/ At(c, "finalqa") \/ At(c, "flight")
      PROVE  DirectorInv'
  <2>1. Authorised
    BY <1>1, WorkIsAuthorised DEF At, Starting
  <2>2. {"idle"} \cap Starting = {}
    BY DEF Starting
  <2>3. CASE UNCHANGED store
    <3>1. StoreMoves({})
      BY <2>3 DEF StoreMoves
    <3> QED
      BY <1>1, <1>p, <2>1, <2>2, <3>1, LateStep
  <2>4. CASE receipt # Nothing
    BY <1>1, <1>p, <2>1, <2>2, <2>4, LateStep
  <2> QED
    BY <1>1, <2>3, <2>4
<1>2. ASSUME NEW pc \in {"sidecars", "finalqa"}, InState({"FINAL_QA"}), Enter(c, pc), UNCHANGED <<store, renderVars>>
      PROVE  DirectorInv'
  <2>1. Authorised /\ store # Nothing
    BY <1>2, WorkIsAuthorised DEF InState, Producing, Mastered
  <2>2. CallMoves(c, {pc}) /\ StoreMoves({})
    BY <1>0, <1>2, <2>1, EnterMoves DEF CallPCs, StoreMoves
  <2>3. {pc} \cap Starting = {}
    BY DEF Starting
  <2> QED
    BY <1>2, <1>p, <2>1, <2>2, <2>3, LateStep
<1>3. ASSUME NEW hold \in Holds, JoinFlight(c, hold)
      PROVE  DirectorInv'
  <2>1. /\ ScenesRender /\ InState({"PLANNING_ANIMATION", "LOCAL_ANIMATION", "ASSEMBLING", "FINAL_QA"})
        /\ call' = [call EXCEPT ![c].pc = "flight"]
        /\ thread' = IF thread[Flight].pc # "idle" THEN thread
                     ELSE [thread EXCEPT ![Flight] = [NoThread EXCEPT !.pc = "queued",
                                                                      !.contract = ContractFor(hold)]]
        /\ UNCHANGED <<store, lock, renderFiles, renders>>
    BY <1>3 DEF JoinFlight
  <2>2. CallMoves(c, {"flight"})
    BY <1>0, <2>1 DEF Typed, Call, CallPCs, CallMoves
  <2>3. CASE thread[Flight].pc # "idle"
    <3>1. StoreMoves({}) /\ UNCHANGED renderVars /\ {"flight"} \cap Starting = {}
      BY <2>1, <2>3 DEF StoreMoves, renderVars, Starting
    <3>2. Authorised
      BY <2>1, WorkIsAuthorised DEF InState, Producing, Mastered
    <3> QED
      BY <1>p, <2>2, <3>1, <3>2, LateStep
  <2>4. CASE thread[Flight].pc = "idle"
    <3>1. call' \in [Owners -> Call] /\ \A d \in Owners : call'[d] = call[d] \/ call'[d].pc \in {"idle", "flight"}
      BY <2>2 DEF CallMoves
    <3> QED
      BY <1>p, <2>1, <2>4, <3>1, DirectorConstants, QueueStep
  <2> QED
    BY <2>3, <2>4
<1>4. CASE Sidecars(c)
  BY <1>2, <1>4 DEF Sidecars
<1>5. CASE ReviewFinal(c)
  BY <1>2, <1>5 DEF ReviewFinal
<1>6. ASSUME End(c), UNCHANGED store
      PROVE  CallMoves(c, {"idle"}) /\ StoreMoves({"WAITING_THUMBNAIL_APPROVAL"})
  BY <1>0, <1>6, EndMoves DEF StoreMoves
<1>7. CASE MakeSidecars(c)
  BY <1>1, <1>6, <1>7 DEF MakeSidecars
<1>8. CASE CancelCaller(c)
  BY <1>1, <1>6, <1>8 DEF CancelCaller
<1>9. CASE CloseFinal(c)
  <2>1. /\ At(c, "finalqa") /\ UNCHANGED renderVars
        /\ \/ receipt # Nothing /\ SaveAs(c, "WAITING_THUMBNAIL_APPROVAL", "idle")
           \/ End(c) /\ UNCHANGED store
    BY <1>9 DEF CloseFinal, FinalVerdicts
  <2>2. "WAITING_THUMBNAIL_APPROVAL" \in EpisodeStates /\ "idle" \in CallPCs
    BY StatesInUse DEF Producing, Mastered, CallPCs
  <2>3. SaveAs(c, "WAITING_THUMBNAIL_APPROVAL", "idle") =>
           CallMoves(c, {"idle"}) /\ StoreMoves({"WAITING_THUMBNAIL_APPROVAL"})
    BY <1>0, <2>2, SaveMoves DEF CallMoves
  <2> QED
    BY <1>1, <1>6, <2>1, <2>3
<1> QED
  BY <1>3, <1>4, <1>5, <1>7, <1>8, <1>9 DEF Finalize

-----------------------------------------------------------------------------
(* The whole specification *)

\* The empty episode satisfies the invariant.
LEMMA DirectorInitially ==
    ASSUME DirectorInit
    PROVE  DirectorInv
<1>1. JobsAreSound
  BY DEF DirectorInit, ProductionInit, JobsAreSound, NoRow, ExecutorRow, TaskPCs
<1>2. HeroesFollow
  <2>1. pipe \in Pipeline /\ pipe.approved = {} /\ \A s \in Submittable : pipe.heroes[s] = "none"
    BY DEF DirectorInit, ProductionInit, NoPipe, Pipeline, Images
  <2> QED
    BY <2>1 DEF HeroesFollow
<1>3. Typed
  BY FreshFacts DEF DirectorInit, Typed, NoPlan, Plan
<1>4. RenderInv
  BY FreshFacts DEF DirectorInit, RenderInv, ThreadKnows, EvidenceBinds, RenderedAsApproved, InState
<1>5. PlanIsAhead
  BY FreshFacts DEF DirectorInit, PlanIsAhead, Starting, NoPlan, InState
<1> QED
  BY <1>1, <1>2, <1>3, <1>4, <1>5 DEF DirectorInv, ProductionInv

\* Every step of the director keeps the invariant.
LEMMA DirectorInvStep ==
    ASSUME DirectorInv, [DirectorNext]_vars
    PROVE  DirectorInv'
<1>0. ASSUME ProductionInv', Stable, UNCHANGED <<store, plan, call, renderVars>>
      PROVE  DirectorInv'
  <2>1. StoreMoves({}) /\ (store # Nothing \/ UNCHANGED store)
    BY <1>0 DEF StoreMoves
  <2> QED
    BY <1>0, <2>1, OutsideStep
<1>1. ASSUME UNCHANGED <<row, task, pipe>>
      PROVE  ProductionInv' /\ Stable
  BY <1>1, ProductionKept DEF DirectorInv
<1>2. CASE UNCHANGED vars
  BY <1>0, <1>1, <1>2 DEF vars, production, prodVars
<1>3. CASE ProductionNext /\ UNCHANGED <<store, plan, call, renderVars, deliveryVars, ledgers>>
  BY <1>0, <1>3, ProductionSteps DEF DirectorInv
<1>4. CASE ApprovePlan
  <2>1. /\ plan.ready /\ plan' = [plan EXCEPT !.approved = TRUE] /\ UNCHANGED <<store, call, row, task, pipe, renderVars>>
    BY <1>4 DEF ApprovePlan, production, prodVars
  <2>2. plan' \in Plan /\ plan'.ready /\ plan'.within = plan.within /\ plan'.answer = plan.answer /\ plan'.approved
    BY <2>1 DEF DirectorInv, Typed, Plan
  <2>3. Typed' /\ RenderInv'
    BY <1>1, <2>1, <2>2, RenderKept DEF DirectorInv, Typed, InState, renderVars
  <2>4. PlanIsAhead'
    BY <2>1, <2>2 DEF DirectorInv, PlanIsAhead, Authorised, InState, renderVars
  <2> QED
    BY <1>1, <2>1, <2>3, <2>4 DEF DirectorInv
<1>5. CASE ContinueBudget
  <2>1. /\ store # Nothing /\ store \in Store /\ UNCHANGED <<plan, call, row, task, pipe, renderVars>>
        /\ store' = TransitionTo(Loaded, "CLOUD_VIDEO_GENERATION")
    BY <1>5 DEF ContinueBudget, production, prodVars, DirectorInv, Typed
  <2>2. StoreMoves({"CLOUD_VIDEO_GENERATION"})
    BY <2>1, StoreFacts, StatesInUse DEF StoreMoves, Loaded
  <2>3. {"CLOUD_VIDEO_GENERATION"} \cap Producing = {} /\ {"CLOUD_VIDEO_GENERATION"} \cap Mastered = {}
    BY StatesInUse
  <2> QED
    BY <1>1, <2>1, <2>2, <2>3, OutsideStep
<1>6. CASE Activate
  <2>1. task \in [Jobs -> TaskPCs]
    BY DEF DirectorInv, ProductionInv, JobsAreSound
  <2>2. ProductionInv' /\ Stable
    BY <1>6, <2>1, FreshPipeline DEF Activate, OpenPipeline, DirectorInv
  <2> QED
    BY <1>0, <1>6, <2>2 DEF Activate
<1>7. CASE IssuePreflight
  BY <1>0, <1>1, <1>7 DEF IssuePreflight, production, prodVars
<1>8. CASE RejectMaster
  <2>1. /\ InState({"WAITING_THUMBNAIL_APPROVAL"}) /\ store' = TransitionTo(Loaded, "ASSEMBLING")
        /\ UNCHANGED <<plan, call, row, task, pipe, renderVars>>
    BY <1>8 DEF RejectMaster, production, prodVars
  <2>2. Authorised /\ store # Nothing /\ store \in Store
    BY <2>1, WorkIsAuthorised DEF InState, Producing, Mastered
  <2>3. StoreMoves({"ASSEMBLING"}) /\ {"ASSEMBLING"} \cap Mastered = {}
    BY <2>1, <2>2, StoreFacts, StatesInUse DEF StoreMoves, Loaded, Producing, Mastered
  <2> QED
    BY <1>1, <2>1, <2>2, <2>3, OutsideStep
<1>9. ASSUME NEW r \in Reviews, NEW pass \in BOOLEAN, ReviewMaster(r, pass)
      PROVE  DirectorInv'
  BY <1>0, <1>1, <1>9 DEF ReviewMaster, production, prodVars
<1>10. CASE DirectorCrash
  <2>1. /\ UNCHANGED <<store, plan, intent, video, completion, receipt, renders, row>> /\ pipe' = NoPipe
        /\ task' = [j \in Jobs |-> "none"]
        /\ call' = [c \in Owners |-> NoCall] /\ thread' = [t \in Threads |-> NoThread]
    BY <1>10 DEF DirectorCrash, ProductionCrash, renderFiles
  <2>2. ProductionInv'
    <3>1. task' \in [Jobs -> TaskPCs] /\ \A j \in Jobs : task'[j] \in {task[j], "none"}
      BY <2>1 DEF TaskPCs
    <3> QED
      BY <2>1, <3>1, FreshPipeline DEF DirectorInv
  <2>3. Typed'
    BY <2>1, FreshFacts DEF DirectorInv, Typed
  <2>4. RenderInv'
    BY <2>1, FreshFacts DEF DirectorInv, RenderInv, ThreadKnows, EvidenceBinds, RenderedAsApproved, InState, Passed
  <2>5. PlanIsAhead'
    BY <2>1, FreshFacts DEF DirectorInv, PlanIsAhead, Starting, Authorised, InState
  <2> QED
    BY <2>2, <2>3, <2>4, <2>5 DEF DirectorInv
<1> QED
  BY <1>2, <1>3, <1>4, <1>5, <1>6, <1>7, <1>8, <1>9, <1>10, PreproductionSteps, CompiledSteps, FinalizeSteps,
     RenderSteps DEF DirectorNext

\* The inductive invariant of the director holds of every behaviour.
THEOREM DirectorInvariant == DirectorSpec => []DirectorInv
<1>1. DirectorInit => DirectorInv
  BY DirectorInitially
<1>2. DirectorInv /\ [DirectorNext]_vars => DirectorInv'
  BY DirectorInvStep
<1> QED
  BY <1>1, <1>2, PTL DEF DirectorSpec

\* One master per episode: the renderer of _render_compiled_video_locked() publishes at most
\* once, and past the render intent, bytes, completion and receipt bind one contract.
THEOREM DirectorRendersOnce == DirectorSpec => []RenderBound
<1>1. DirectorInv => RenderBound
  BY DEF DirectorInv, RenderInv, EvidenceBinds, RenderBound
<1> QED
  BY <1>1, DirectorInvariant, PTL

\* Every image and clip of the intent has passed its review, and still has.
THEOREM DirectorRendersApproved == DirectorSpec => []RenderedAsApproved
<1>1. DirectorInv => RenderedAsApproved
  BY DEF DirectorInv, RenderInv, EvidenceBinds
<1> QED
  BY <1>1, DirectorInvariant, PTL

\* Whatever state the director produces in, whatever call is past the gate of
\* continue_after_approval() and whatever render runs, the plan on disk is approved, and
\* within the budget or over it by the explicit choice.
THEOREM DirectorIsAuthorised == DirectorSpec => []ProductionAuthorised
<1>1. DirectorInv => ProductionAuthorised
  BY DEF DirectorInv, PlanIsAhead, Authorised, ProductionAuthorised, Starting
<1> QED
  BY <1>1, DirectorInvariant, PTL

-----------------------------------------------------------------------------
(* The director: one request per job *)

\* A job with a row is not sent, and keeps its row.
Unsent(j) ==
    row[j].status # "NONE" =>
        row'[j].status # "NONE" /\ (task'[j] = "post" => task[j] = "post")

\* A wave gives its items up, whatever their requests have become.
LEMMA RaisedUnsent ==
    ASSUME NEW q \in Queues, NEW Q, RaiseWave(q, Q), NEW j \in Jobs
    PROVE  task'[j] \in {task[j], "none"}
BY DEF RaiseWave, Cancelled

\* Executor.run() goes to the provider from a row that it has just made.
LEMMA ExecutorUnsent ==
    ASSUME ProductionInv, NEW i \in Jobs, RunStarts(i) \/ RunPosts(i) \/ RunAnswers(i), NEW j \in Jobs
    PROVE  Unsent(j)
<1>0. row \in [Jobs -> ExecutorRow] /\ task \in [Jobs -> TaskPCs] /\ row[i] \in ExecutorRow
  BY DEF ProductionInv, JobsAreSound
<1>1. CASE RunStarts(i)
  BY <1>0, <1>1 DEF RunStarts, Turn, Unsent
<1>2. CASE RunPosts(i)
  BY <1>0, <1>2 DEF RunPosts, Turn, Unsent, ExecutorRow
<1>3. CASE RunAnswers(i)
  BY <1>0, <1>3 DEF RunAnswers, Turn, Unsent, ExecutorRow
<1> QED
  BY <1>1, <1>2, <1>3

\* The waves claim, cancel and requeue items without asking the provider.
LEMMA WavesUnsent ==
    ASSUME ProductionInv, NEW q \in Queues, NEW j \in Jobs,
           \/ CancelWave(q)
           \/ \E i \in Jobs : Enqueue(q, i) \/ Claim(q, i) \/ Finish(q, i) \/ Notify(q, i)
    PROVE  Unsent(j)
<1>0. row \in [Jobs -> ExecutorRow] /\ task \in [Jobs -> TaskPCs]
  BY DEF ProductionInv, JobsAreSound
<1>1. CASE CancelWave(q)
  BY <1>1, RaisedUnsent DEF CancelWave, Unsent
<1>2. ASSUME NEW i \in Jobs, Enqueue(q, i) PROVE Unsent(j)
  BY <1>2, RaisedUnsent DEF Enqueue, RequeueFailed, Unsent
<1>3. ASSUME NEW i \in Jobs, Claim(q, i) PROVE Unsent(j)
  BY <1>0, <1>3, RaisedUnsent DEF Claim, Turn, Unsent
<1>4. ASSUME NEW i \in Jobs, Finish(q, i) PROVE Unsent(j)
  BY <1>0, <1>4, RaisedUnsent DEF Finish, Turn, Unsent
<1>5. ASSUME NEW i \in Jobs, Notify(q, i) PROVE Unsent(j)
  <2>1. \/ UNCHANGED row /\ task'[j] \in {task[j], "none"}
        \/ row' \in {row, TechnicallyRejected(i)} /\ UNCHANGED task
    BY <1>5, RaisedUnsent DEF Notify
  <2> QED
    BY <1>0, <2>1 DEF TechnicallyRejected, Unsent, ExecutorRow
<1> QED
  BY <1>1, <1>2, <1>3, <1>4, <1>5

\* Scenes are corrected and heroes judged by their rows; a hero's run only starts.
LEMMA ScenesUnsent ==
    ASSUME ProductionInv, NEW j \in Jobs,
           \/ \E s \in Submittable : \/ CreateHero(s) \/ RunHero(s) \/ EndHero(s) \/ PromoteHero(s)
                                     \/ \E v \in {"pass", "fail"} : JudgeHero(s, v)
                                     \/ \E f \in Codes : Remediate(s, f)
           \/ \E S \in SUBSET Submittable : CorrectionWave(S)
           \/ EndCorrectionWave
    PROVE  Unsent(j)
<1>0. row \in [Jobs -> ExecutorRow] /\ task \in [Jobs -> TaskPCs]
  BY DEF ProductionInv, JobsAreSound
<1>1. ASSUME NEW s \in Submittable, RunHero(s) \/ EndHero(s) PROVE Unsent(j)
  BY <1>0, <1>1 DEF RunHero, EndHero, Turn, Unsent
<1>2. ASSUME NEW s \in Submittable, NEW v \in {"pass", "fail"}, JudgeHero(s, v) PROVE Unsent(j)
  BY <1>0, <1>2 DEF JudgeHero, Judged, Unsent, ExecutorRow
<1>3. ASSUME UNCHANGED <<row, task>> PROVE Unsent(j)
  BY <1>3 DEF Unsent
<1> QED
  BY <1>1, <1>2, <1>3 DEF CreateHero, PromoteHero, Remediate, CorrectionWave, OpenWave, EndCorrectionWave

\* No step of the director sends a job that has a row.
LEMMA DirectorUnsent ==
    ASSUME DirectorInv, [DirectorNext]_vars, NEW j \in Jobs
    PROVE  Unsent(j)
<1>0. /\ ProductionInv /\ row \in [Jobs -> ExecutorRow]
  BY DEF DirectorInv, ProductionInv, JobsAreSound
<1>1. ASSUME UNCHANGED <<row, task>> PROVE Unsent(j)
  BY <1>1 DEF Unsent
<1>2. CASE ProductionNext
  BY <1>0, <1>2, ExecutorUnsent, WavesUnsent, ScenesUnsent DEF ProductionNext
<1>3. ASSUME NEW c \in Owners, NEW i \in Jobs, RecordVerdict(c, i) PROVE Unsent(j)
  <2>1. (\E v : row' = Judged(i, v) \/ UNCHANGED row) /\ UNCHANGED task
    BY <1>3 DEF RecordVerdict
  <2> QED
    BY <1>0, <2>1 DEF Judged, Unsent, ExecutorRow
<1>4. CASE DirectorCrash
  BY <1>4 DEF DirectorCrash, ProductionCrash, Unsent
<1>5. ASSUME NEW c \in Owners, Preproduction(c) PROVE UNCHANGED <<row, task>>
  BY <1>5 DEF Preproduction, StartEpisode, Research, PlanEpisode, AskBudget, WritePlan, ContinuePlan, Produce,
              production, prodVars
<1>6. ASSUME NEW c \in Owners, Compiled(c) PROVE UNCHANGED <<row, task>> \/ \E i \in Jobs : RecordVerdict(c, i)
  BY <1>6 DEF Compiled, Dispatch, OpenBaselines, CloseBaselines, DispatchRaises, Review, CloseReview, OpenWave,
              production, prodVars
<1>7. ASSUME NEW c \in Owners, Finalize(c) PROVE UNCHANGED <<row, task>>
  BY <1>7 DEF Finalize, JoinFlight, Sidecars, MakeSidecars, ReviewFinal, CloseFinal, CancelCaller, production, prodVars
<1>8. ASSUME NEW t \in Threads, Render(t) PROVE UNCHANGED <<row, task>>
  BY <1>8 DEF Render, RenderElsewhere, LockRender, RenderAgain, EnterRender, WriteIntent, SaveRenderState, PublishMaster,
              CommitCompletion, WriteReceipt, AdvanceState, RenderRaises, production, prodVars
<1>9. ASSUME \/ ApprovePlan \/ ContinueBudget \/ Activate \/ IssuePreflight \/ RejectMaster
             \/ \E r \in Reviews, pass \in BOOLEAN : ReviewMaster(r, pass)
             \/ UNCHANGED vars
      PROVE  UNCHANGED <<row, task>>
  BY <1>9 DEF ApprovePlan, ContinueBudget, Activate, IssuePreflight, RejectMaster, ReviewMaster, vars,
              production, prodVars
<1> QED
  BY <1>1, <1>2, <1>3, <1>4, <1>5, <1>6, <1>7, <1>8, <1>9 DEF DirectorNext

\* For any scenes, waves, workers and faults a job of the compiled production is sent to its
\* provider once, although cancelled and failed waves requeue items whose requests are under way.
THEOREM DirectorPostsOnce == DirectorSpec => JobsPostOnce
<1>1. DirectorInv /\ [DirectorNext]_vars
         => [\A j \in Jobs : row[j].status # "NONE" =>
                row'[j].status # "NONE" /\ (task'[j] = "post" => task[j] = "post")]_prodVars
  BY DirectorUnsent DEF Unsent
<1> QED
  BY <1>1, DirectorInvariant, PTL DEF DirectorSpec, JobsPostOnce
=============================================================================
