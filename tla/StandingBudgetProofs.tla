------------------------ MODULE StandingBudgetProofs ------------------------
(***************************************************************************)
(* The ledger for every set of requests, episodes and amounts.  Every      *)
(* method rewrites at most one row; UpdateIsLegal says what the new row    *)
(* may be, and the two halves of the argument meet there: each method      *)
(* makes a legal update, and a legal update keeps every liability.         *)
(*                                                                         *)
(* The ceilings are about sums of amounts.  A sum is counted in units: the *)
(* total of a finite set of rows is the number of its units (TotalIn), and *)
(* the library's theorems on cardinality say how that number changes.      *)
(***************************************************************************)
EXTENDS StandingBudget, FiniteSetTheorems, TLAPS

\* An actual is on record only in a settled row.
ActualIsSettled == \A r \in Requests : claims[r].actual # Null => claims[r].state = "SETTLED"

LedgerInv == LedgerTypeOK /\ ActualIsSettled

\* c may replace the row of r: a new claim only while nothing is frozen, an
\* existing one only with what it booked, settled and bound left alone.
UpdateIsLegal(r, c) ==
    /\ c \in Claim
    /\ c.state # "NONE"
    /\ c.actual # Null => c.state = "SETTLED"
    /\ claims[r].state = "NONE" => ~Frozen
    /\ claims[r].state # "NONE" =>
          /\ c.episode = claims[r].episode /\ c.month = claims[r].month
          /\ c.cap = claims[r].cap /\ c.kind = claims[r].kind
          /\ claims[r].actual # Null => c.actual = claims[r].actual /\ c.state = "SETTLED"
          /\ claims[r].pid # Unassigned => c.pid = claims[r].pid

LegalStep ==
    \/ claims' = claims
    \/ \E r \in Requests : \E c \in Claim : UpdateIsLegal(r, c) /\ claims' = [claims EXCEPT ![r] = c]

\* The row every request starts from is well formed.
LEMMA NoClaimType == NoClaim \in Claim /\ NoClaim.actual = Null /\ NoClaim.state = "NONE"
BY LedgerConstants DEF NoClaim, Claim, Kinds, Modes, Unassigned, Null

\* Pinning a row to a generation changes nothing else of it.
LEMMA PinnedFields ==
    ASSUME NEW c \in Claim, NEW g \in Nat
    PROVE  /\ Pinned(c, g) \in Claim
           /\ Pinned(c, g).state = c.state /\ Pinned(c, g).episode = c.episode
           /\ Pinned(c, g).month = c.month /\ Pinned(c, g).cap = c.cap
           /\ Pinned(c, g).kind = c.kind /\ Pinned(c, g).actual = c.actual
           /\ Pinned(c, g).mode = c.mode /\ Pinned(c, g).pid = c.pid
BY DEF Pinned, Claim

-----------------------------------------------------------------------------
(* Each method is a legal step *)

\* A reservation adds a row while nothing is frozen (reserve).
LEMMA InsertedIsLegal ==
    ASSUME LedgerInv, NEW r \in Requests, NEW e \in Episodes, NEW cap \in Nat, NEW kind \in Kinds,
           NEW mode \in Modes, NEW pid \in Nat, NEW gen \in Nat, NEW m \in 0..month,
           Admits(r, e, m, cap, kind), Inserted(r, e, m, cap, kind, mode, pid, gen)
    PROVE  LegalStep
<1> DEFINE c == [state |-> "RESERVED", episode |-> e, month |-> m, cap |-> cap, kind |-> kind,
                 actual |-> Null, mode |-> mode, pid |-> pid, gen |-> gen]
<1>1. c \in Claim
  BY LedgerConstants DEF Claim, LedgerInv, LedgerTypeOK
<1>2. UpdateIsLegal(r, c)
  BY <1>1 DEF UpdateIsLegal, Admits
<1> QED
  BY <1>1, <1>2, Zenon DEF Inserted, LegalStep

\* A remote id is written only where there is none (bind_provider_request_id).
LEMMA BoundIsLegal ==
    ASSUME LedgerInv, NEW r \in Requests, NEW pid \in Nat, NEW gen \in Nat,
           MayBind(r, pid, gen), Bound(r, pid, gen)
    PROVE  LegalStep
<1> DEFINE d == [claims[r] EXCEPT !.pid = pid]
           c == Pinned(d, gen)
<1>1. claims[r] \in Claim
  BY DEF LedgerInv, LedgerTypeOK
<1>2. CASE claims[r].pid = pid
  BY <1>2 DEF Bound, LegalStep
<1>3. CASE claims[r].pid # pid
  <2>1. d \in Claim /\ d.state = claims[r].state /\ d.episode = claims[r].episode
        /\ d.month = claims[r].month /\ d.cap = claims[r].cap /\ d.kind = claims[r].kind
        /\ d.actual = claims[r].actual
    BY <1>1 DEF Claim
  <2>2. c \in Claim /\ c.state = d.state /\ c.episode = d.episode /\ c.month = d.month
        /\ c.cap = d.cap /\ c.kind = d.kind /\ c.actual = d.actual
    BY <2>1, PinnedFields, Zenon
  <2> HIDE DEF c, d
  <2>3. UpdateIsLegal(r, c)
    BY <1>3, <2>1, <2>2 DEF UpdateIsLegal, LedgerInv, ActualIsSettled, MayBind, MayWrite
  <2>4. claims' = [claims EXCEPT ![r] = c]
    BY <1>3, Zenon DEF Bound, c, d
  <2> QED
    BY <2>2, <2>3, <2>4, Zenon DEF LegalStep
<1> QED
  BY <1>2, <1>3

\* Only an unreconciled row becomes UNKNOWN (mark_unknown).
LEMMA ForgottenIsLegal ==
    ASSUME LedgerInv, NEW r \in Requests, NEW gen \in Nat, MayForget(r, gen), Forgotten(r, gen)
    PROVE  LegalStep
<1> DEFINE d == [claims[r] EXCEPT !.state = "UNKNOWN"]
           c == Pinned(d, gen)
<1>1. claims[r] \in Claim
  BY DEF LedgerInv, LedgerTypeOK
<1>2. d \in Claim /\ d.state = "UNKNOWN" /\ d.episode = claims[r].episode
      /\ d.month = claims[r].month /\ d.cap = claims[r].cap /\ d.kind = claims[r].kind
      /\ d.actual = claims[r].actual /\ d.pid = claims[r].pid
  BY <1>1 DEF Claim
<1>3. c \in Claim /\ c.state = d.state /\ c.episode = d.episode /\ c.month = d.month
      /\ c.cap = d.cap /\ c.kind = d.kind /\ c.actual = d.actual /\ c.pid = d.pid
  BY <1>2, PinnedFields, Zenon
<1> HIDE DEF c, d
<1>4. UpdateIsLegal(r, c)
  BY <1>2, <1>3 DEF UpdateIsLegal, MayForget, MayWrite
<1>5. claims' = [claims EXCEPT ![r] = c]
  BY Zenon DEF Forgotten, c, d
<1> QED
  BY <1>3, <1>4, <1>5, Zenon DEF LegalStep

\* A settled actual is never replaced by another (settle, _settle_verified_receipt).
LEMMA SettledIsLegal ==
    ASSUME LedgerInv, NEW r \in Requests, NEW mode \in Modes, NEW a \in Nat, NEW gen \in Nat,
           MaySettle(r, mode, a), Settled(r, a, gen)
    PROVE  LegalStep
<1> DEFINE d == [claims[r] EXCEPT !.state = "SETTLED", !.actual = a]
           c == Pinned(d, gen)
<1>1. claims[r] \in Claim
  BY DEF LedgerInv, LedgerTypeOK
<1>2. CASE claims[r].actual = a
  BY <1>2 DEF Settled, LegalStep
<1>3. CASE claims[r].actual # a
  <2>1. d \in Claim /\ d.state = "SETTLED" /\ d.episode = claims[r].episode
        /\ d.month = claims[r].month /\ d.cap = claims[r].cap /\ d.kind = claims[r].kind
        /\ d.pid = claims[r].pid
    BY <1>1 DEF Claim
  <2>2. c \in Claim /\ c.state = d.state /\ c.episode = d.episode /\ c.month = d.month
        /\ c.cap = d.cap /\ c.kind = d.kind /\ c.pid = d.pid
    BY <2>1, PinnedFields, Zenon
  <2> HIDE DEF c, d
  <2>3. UpdateIsLegal(r, c)
    BY <1>3, <2>1, <2>2 DEF UpdateIsLegal, MaySettle
  <2>4. claims' = [claims EXCEPT ![r] = c]
    BY <1>3, Zenon DEF Settled, c, d
  <2> QED
    BY <2>2, <2>3, <2>4, Zenon DEF LegalStep
<1> QED
  BY <1>2, <1>3

-----------------------------------------------------------------------------
(* What a legal step keeps *)

\* A legal step keeps the invariant of the rows.
LEMMA LegalStepKeepsRows ==
    ASSUME LedgerInv, LegalStep
    PROVE  claims' \in [Requests -> Claim] /\ ActualIsSettled'
<1>1. CASE claims' = claims
  BY <1>1 DEF LedgerInv, LedgerTypeOK, ActualIsSettled
<1>2. ASSUME NEW r \in Requests, NEW c \in Claim, UpdateIsLegal(r, c),
             claims' = [claims EXCEPT ![r] = c]
      PROVE  claims' \in [Requests -> Claim] /\ ActualIsSettled'
  BY <1>2 DEF LedgerInv, LedgerTypeOK, ActualIsSettled, UpdateIsLegal
<1> QED
  BY <1>1, <1>2 DEF LegalStep

\* A legal step keeps every liability, and a frozen ledger frozen.
LEMMA LegalStepKeepsLiabilities ==
    ASSUME LedgerInv, LegalStep
    PROVE  /\ \A r \in Claimed : ClaimStays(r)
           /\ Frozen => Frozen' /\ Claimed' = Claimed
<1>1. CASE claims' = claims
  BY <1>1 DEF LedgerInv, LedgerTypeOK, ActualIsSettled, Claimed, ClaimStays, Frozen
<1>2. ASSUME NEW r \in Requests, NEW c \in Claim, UpdateIsLegal(r, c),
             claims' = [claims EXCEPT ![r] = c]
      PROVE  /\ \A q \in Claimed : ClaimStays(q)
             /\ Frozen => Frozen' /\ Claimed' = Claimed
  <2>0. \A q \in Requests : claims'[q] = IF q = r THEN c ELSE claims[q]
    BY <1>2 DEF LedgerInv, LedgerTypeOK
  <2>1. \A q \in Claimed : ClaimStays(q)
    BY <1>2, <2>0 DEF LedgerInv, ActualIsSettled, Claimed, ClaimStays, UpdateIsLegal
  <2>2. ASSUME Frozen PROVE Frozen' /\ Claimed' = Claimed
    <3>1. Claimed' = Claimed
      BY <1>2, <2>0, <2>2 DEF Claimed, UpdateIsLegal
    <3>2. PICK q \in Claimed : claims[q].actual > claims[q].cap
      BY <2>2 DEF Frozen
    <3>3. claims[q].actual # Null
      BY <3>2 DEF LedgerInv, LedgerTypeOK, Claim, Claimed, Null
    <3>4. claims'[q].actual = claims[q].actual /\ claims'[q].cap = claims[q].cap
      BY <2>1, <3>2, <3>3 DEF ClaimStays
    <3> QED
      BY <3>1, <3>2, <3>4 DEF Frozen
  <2> QED
    BY <2>1, <2>2
<1> QED
  BY <1>1, <1>2 DEF LegalStep

-----------------------------------------------------------------------------
(* The ledger alone *)

\* Every step of the ledger's own specification is legal for the rows.
LEMMA LedgerNextIsLegal ==
    ASSUME LedgerInv, [LedgerNext]_ledgerVars
    PROVE  LegalStep /\ month' \in 0..MaxMonth
<1> USE LedgerConstants
<1>1. CASE UNCHANGED ledgerVars
  BY <1>1 DEF ledgerVars, LegalStep, LedgerInv, LedgerTypeOK
<1>2. CASE NextMonth
  BY <1>2 DEF NextMonth, LegalStep, LedgerInv, LedgerTypeOK
<1>3. ASSUME NEW r \in Requests, NEW e \in Episodes, NEW cap \in Amounts, NEW kind \in Kinds,
             NEW mode \in Modes, NEW pid \in 0..1, NEW m \in 0..month, Reserve(r, e, m, cap, kind, mode, pid)
      PROVE  LegalStep /\ month' \in 0..MaxMonth
  <2>1. Admits(r, e, m, cap, kind) /\ Inserted(r, e, m, cap, kind, mode, pid, 0) /\ month' = month
    BY <1>3, Zenon DEF Reserve
  <2>2. cap \in Nat /\ pid \in Nat /\ 0 \in Nat
    OBVIOUS
  <2>3. LegalStep
    BY <2>1, <2>2, InsertedIsLegal, Zenon
  <2> QED
    BY <2>1, <2>3 DEF LedgerInv, LedgerTypeOK
<1>4. ASSUME NEW r \in Requests, BindProvider(r, 1)
      PROVE  LegalStep /\ month' \in 0..MaxMonth
  <2>1. LegalStep
    BY <1>4, BoundIsLegal, 0 \in Nat, 1 \in Nat, Zenon DEF BindProvider
  <2> QED
    BY <1>4, <2>1 DEF BindProvider, LedgerInv, LedgerTypeOK
<1>5. ASSUME NEW r \in Requests, MarkUnknown(r)
      PROVE  LegalStep /\ month' \in 0..MaxMonth
  <2>1. LegalStep
    BY <1>5, ForgottenIsLegal, 0 \in Nat, Zenon DEF MarkUnknown
  <2> QED
    BY <1>5, <2>1 DEF MarkUnknown, LedgerInv, LedgerTypeOK
<1>6. ASSUME NEW r \in Requests, NEW a \in Amounts, Settle(r, a)
      PROVE  LegalStep /\ month' \in 0..MaxMonth
  <2>1. a \in Nat
    OBVIOUS
  <2>2. LegalStep
    BY <1>6, <2>1, SettledIsLegal, 0 \in Nat, Zenon DEF Settle, Modes
  <2> QED
    BY <1>6, <2>2 DEF Settle, LedgerInv, LedgerTypeOK
<1>7. ASSUME NEW r \in Requests, NEW a \in Amounts, SettleVerifiedReceipt(r, 1, a)
      PROVE  LegalStep /\ month' \in 0..MaxMonth
  <2>1. a \in Nat
    OBVIOUS
  <2>2. LegalStep
    BY <1>7, <2>1, SettledIsLegal, 0 \in Nat, Zenon DEF SettleVerifiedReceipt, Modes
  <2> QED
    BY <1>7, <2>2 DEF SettleVerifiedReceipt, LedgerInv, LedgerTypeOK
<1> QED
  BY <1>1, <1>2, <1>3, <1>4, <1>5, <1>6, <1>7, Zenon DEF LedgerNext

\* The empty ledger satisfies the invariant, and every step keeps it.
LEMMA LedgerInvariance == LedgerSpec => []LedgerInv
<1>1. LedgerInit => LedgerInv
  BY NoClaimType, LedgerConstants DEF LedgerInit, LedgerInv, LedgerTypeOK, ActualIsSettled
<1>2. LedgerInv /\ [LedgerNext]_ledgerVars => LedgerInv'
  BY LedgerNextIsLegal, LegalStepKeepsRows DEF LedgerInv, LedgerTypeOK
<1> QED
  BY <1>1, <1>2, PTL DEF LedgerSpec

\* The table of claims stays well formed whatever callers quote and settle.
THEOREM LedgerTypes == LedgerSpec => []LedgerTypeOK
<1>1. LedgerInv => LedgerTypeOK
  BY DEF LedgerInv
<1> QED
  BY <1>1, LedgerInvariance, PTL

\* No method ever reinterprets a claim, and an overrun freezes the ledger for
\* good, for any number of requests and any amounts (standing_budget.py).
THEOREM LiabilitiesAreFinal == LedgerSpec => LiabilityIsFinal
<1>1. LedgerInv /\ [LedgerNext]_ledgerVars =>
         [ /\ \A r \in Claimed : ClaimStays(r)
           /\ Frozen => Frozen' /\ Claimed' = Claimed ]_ledgerVars
  BY LedgerNextIsLegal, LegalStepKeepsLiabilities
<1> QED
  BY <1>1, LedgerInvariance, PTL DEF LedgerSpec, LiabilityIsFinal

-----------------------------------------------------------------------------
(* Sums.  The total of a finite set of rows is the number of its units: one  *)
(* pair <<row, i>> for each unit i of the row's exposure.  The fold that     *)
(* computes it and the count satisfy the same equation, so they agree on     *)
(* every finite set; of a count, monotonicity and addition are facts about   *)
(* cardinalities.                                                            *)

\* The element a fold over s takes first.
Picked(s) == CHOOSE x \in s : TRUE

\* h sums up the weights w over every subset of S, in the order of the fold.
SumsUp(h, w, S) ==
    h = [s \in SUBSET S |-> IF s = {} THEN 0 ELSE w[Picked(s)] + h[s \ {Picked(s)}]]

Units(w, R) == UNION {{x} \X (1..w[x]) : x \in R}

\* Finitely many rows have finitely many units.
LEMMA UnitsFinite ==
    ASSUME NEW R, IsFiniteSet(R), NEW w \in [R -> Nat]
    PROVE  IsFiniteSet(Units(w, R)) /\ Cardinality(Units(w, R)) \in Nat
<1> DEFINE f == [x \in R |-> {x} \X (1..w[x])]
           F == {{x} \X (1..w[x]) : x \in R}
<1>1. f \in Surjection(R, F)
  BY DEF Surjection
<1>2. IsFiniteSet(F)
  BY <1>1, FS_Surjection
<1>3. \A T \in F : IsFiniteSet(T)
  <2>1. ASSUME NEW x \in R PROVE IsFiniteSet({x} \X (1..w[x]))
    BY FS_Singleton, FS_Interval, FS_Product, 1 \in Int, w[x] \in Int
  <2> QED
    BY <2>1
<1>4. IsFiniteSet(UNION F)
  BY <1>2, <1>3, FS_UNION
<1> QED
  BY <1>4, FS_CardinalityType DEF Units

\* A further row adds its weight.
LEMMA UnitsAdd ==
    ASSUME NEW R, IsFiniteSet(R), NEW w, NEW x, x \notin R, w \in [R \cup {x} -> Nat]
    PROVE  Cardinality(Units(w, R \cup {x})) = w[x] + Cardinality(Units(w, R))
<1> DEFINE B == {x} \X (1..w[x])
<1>0. w[x] \in Nat /\ IsFiniteSet(R \cup {x})
  BY FS_AddElement
<1>1. IsFiniteSet(B) /\ Cardinality(B) = w[x]
  <2>1. IsFiniteSet({x}) /\ Cardinality({x}) = 1
    BY FS_Singleton
  <2>2. IsFiniteSet(1..w[x]) /\ Cardinality(1..w[x]) = w[x]
    BY <1>0, FS_Interval
  <2>3. IsFiniteSet(B) /\ Cardinality(B) = Cardinality({x}) * Cardinality(1..w[x])
    BY <2>1, <2>2, FS_Product
  <2> HIDE DEF B
  <2> QED
    BY <1>0, <2>1, <2>2, <2>3
<1>2. Units(w, R \cup {x}) = Units(w, R) \cup B
  BY DEF Units
<1>3. Units(w, R) \cap B = {}
  BY DEF Units
<1>4. IsFiniteSet(Units(w, R)) /\ Cardinality(Units(w, R)) \in Nat
  <2>1. [y \in R |-> w[y]] \in [R -> Nat] /\ Units([y \in R |-> w[y]], R) = Units(w, R)
    BY DEF Units
  <2> QED
    BY <2>1, UnitsFinite
<1> HIDE DEF B
<1>5. Cardinality(Units(w, R) \cup B) = Cardinality(Units(w, R)) + Cardinality(B) - Cardinality(Units(w, R) \cap B)
  BY <1>1, <1>4, FS_Union
<1>6. Cardinality(Units(w, R) \cap B) = 0
  BY <1>3, FS_EmptySet
<1>7. Cardinality(Units(w, R \cup {x})) = Cardinality(Units(w, R) \cup B)
  BY <1>2, Zenon
<1> DEFINE b == Cardinality(Units(w, R))
           u == Cardinality(Units(w, R \cup {x}))
           i == Cardinality(Units(w, R) \cap B)
<1>8. u = b + w[x] - i /\ b \in Nat /\ i = 0
  BY <1>1, <1>4, <1>5, <1>6, <1>7, Zenon
<1> HIDE DEF b, u, i
<1>9. u = w[x] + b
  BY <1>0, <1>8
<1> QED
  BY <1>9 DEF b, u

\* Whatever satisfies the equation of the fold counts units: of the subsets on which
\* it does not, none is smallest.
LEMMA SumIsUnits ==
    ASSUME NEW S, IsFiniteSet(S), NEW w \in [S -> Nat], NEW h, SumsUp(h, w, S)
    PROVE  \A s \in SUBSET S : h[s] = Cardinality(Units(w, s))
<1> DEFINE Bad == {s \in SUBSET S : h[s] # Cardinality(Units(w, s))}
<1>1. SUFFICES ASSUME Bad # {} PROVE FALSE
  OBVIOUS
<1>2. Bad \subseteq FiniteSubsetsOf(S)
  BY FS_Subset DEF FiniteSubsetsOf
<1>3. PICK s \in Bad : \A t \in Bad : ~(<<t, s>> \in StrictSubsetOrdering(S))
  BY <1>1, <1>2, FS_StrictSubsetOrderingWellFounded, WFMin
<1>4. CASE s = {}
  <2>1. Units(w, {}) = {}
    BY DEF Units
  <2>2. h[{}] = 0
    BY DEF SumsUp
  <2> QED
    BY <1>4, <2>1, <2>2, FS_EmptySet
<1>5. CASE s # {}
  <2>1. Picked(s) \in s /\ s \in SUBSET S
    BY <1>5 DEF Picked
  <2>2. h[s] = w[Picked(s)] + h[s \ {Picked(s)}]
    <3> DEFINE G(t) == IF t = {} THEN 0 ELSE w[Picked(t)] + h[t \ {Picked(t)}]
    <3>1. h = [t \in SUBSET S |-> G(t)]
      BY DEF SumsUp
    <3>2. h[s] = G(s)
      <4> HIDE DEF G
      <4> QED
        BY <2>1, <3>1
    <3> QED
      BY <1>5, <3>2
  <2> DEFINE t == s \ {Picked(s)}
  <2>3. t \notin Bad /\ t \in SUBSET S
    <3>1. t \in SUBSET S /\ t # s /\ t \subseteq s
      BY <2>1
    <3> HIDE DEF t
    <3>2. <<t, s>> \in StrictSubsetOrdering(S)
      BY <2>1, <3>1 DEF StrictSubsetOrdering
    <3> HIDE DEF Bad
    <3> QED
      BY <1>3, <3>1, <3>2
  <2>4. h[t] = Cardinality(Units(w, t))
    BY <2>3
  <2>5. IsFiniteSet(t) /\ Picked(s) \notin t /\ s = t \cup {Picked(s)}
    BY <2>1, FS_Subset
  <2>6. Cardinality(Units(w, s)) = w[Picked(s)] + Cardinality(Units(w, t))
    <3>1. [y \in s |-> w[y]] \in [s -> Nat] /\ Units([y \in s |-> w[y]], s) = Units(w, s)
          /\ Units([y \in s |-> w[y]], t) = Units(w, t) /\ [y \in s |-> w[y]][Picked(s)] = w[Picked(s)]
      BY <2>1 DEF Units
    <3> HIDE DEF t
    <3> QED
      BY <2>5, <3>1, UnitsAdd
  <2> QED
    BY <2>2, <2>4, <2>6
<1> QED
  BY <1>4, <1>5

\* The equation of the fold has a solution, the number of units.
LEMMA UnitsSumUp ==
    ASSUME NEW S, IsFiniteSet(S), NEW w \in [S -> Nat]
    PROVE  SumsUp([s \in SUBSET S |-> Cardinality(Units(w, s))], w, S)
<1> DEFINE g == [s \in SUBSET S |-> Cardinality(Units(w, s))]
           G(s) == IF s = {} THEN 0 ELSE w[Picked(s)] + g[s \ {Picked(s)}]
<1>1. ASSUME NEW s \in SUBSET S PROVE g[s] = G(s)
  <2>1. CASE s = {}
    <3>1. Units(w, {}) = {}
      BY DEF Units
    <3> QED
      BY <2>1, <3>1, FS_EmptySet
  <2>2. CASE s # {}
    <3> DEFINE t == s \ {Picked(s)}
               v == [y \in s |-> w[y]]
    <3>1. Picked(s) \in s
      BY <2>2 DEF Picked
    <3>2. t \in SUBSET S /\ Picked(s) \notin t /\ s = t \cup {Picked(s)} /\ IsFiniteSet(t)
      BY <3>1, FS_Subset
    <3>3. v \in [s -> Nat] /\ Units(v, s) = Units(w, s) /\ Units(v, t) = Units(w, t) /\ v[Picked(s)] = w[Picked(s)]
      BY <3>1 DEF Units
    <3>4. Cardinality(Units(w, s)) = w[Picked(s)] + Cardinality(Units(w, t))
      <4> HIDE DEF t, v
      <4> QED
        BY <3>2, <3>3, UnitsAdd
    <3>5. g[s] = Cardinality(Units(w, s)) /\ g[t] = Cardinality(Units(w, t))
      <4> HIDE DEF t
      <4> QED
        BY <3>2
    <3> HIDE DEF g
    <3> QED
      BY <2>2, <3>4, <3>5
  <2> QED
    BY <2>1, <2>2
<1>2. g = [s \in SUBSET S |-> G(s)]
  <2> HIDE DEF G
  <2> QED
    BY <1>1
<1> QED
  BY <1>2 DEF SumsUp

\* The exposure of a row, and the total of some, in the table c.
ExposureIn(c, r) == IF c[r].actual # Null THEN c[r].actual ELSE c[r].cap
Weights(c, R) == [r \in R |-> ExposureIn(c, r)]
TotalIn(c, R) == Cardinality(Units(Weights(c, R), R))

\* The sum that the ledger's queries compute is the number of units.
LEMMA TotalIsUnits ==
    ASSUME NEW R, IsFiniteSet(R), \A r \in R : Exposure(r) \in Nat
    PROVE  Total(R) = TotalIn(claims, R)
<1> DEFINE w == Weights(claims, R)
           E(h) == h = [s \in SUBSET R |-> IF s = {} THEN 0 ELSE
                           Exposure(CHOOSE x \in s : TRUE) + h[s \ {CHOOSE x \in s : TRUE}]]
<1>1. Total(R) = (CHOOSE h : E(h))[R]
  BY Zenon DEF Total, MapThenSumSet, MapThenFoldSet
<1>2. w \in [R -> Nat] /\ \A r \in R : w[r] = Exposure(r)
  BY DEF Weights, ExposureIn, Exposure
<1> HIDE DEF w
<1>3. ASSUME NEW h PROVE E(h) <=> SumsUp(h, w, R)
  <2>1. ASSUME NEW s \in SUBSET R, s # {} PROVE w[Picked(s)] = Exposure(CHOOSE x \in s : TRUE)
    BY <1>2, <2>1 DEF Picked
  <2> DEFINE F1(s) == IF s = {} THEN 0 ELSE
                         Exposure(CHOOSE x \in s : TRUE) + h[s \ {CHOOSE x \in s : TRUE}]
             K1(s) == IF s = {} THEN 0 ELSE w[Picked(s)] + h[s \ {Picked(s)}]
             F == [s \in SUBSET R |-> F1(s)]
             K == [s \in SUBSET R |-> K1(s)]
  <2>2. F = K
    <3>1. ASSUME NEW s \in SUBSET R PROVE F1(s) = K1(s)
      <4>1. CASE s = {}
        BY <4>1
      <4>2. CASE s # {}
        <5>1. F1(s) = Exposure(Picked(s)) + h[s \ {Picked(s)}]
          BY <4>2, Zenon DEF Picked
        <5>2. K1(s) = w[Picked(s)] + h[s \ {Picked(s)}]
          BY <4>2, Zenon
        <5>3. w[Picked(s)] = Exposure(Picked(s))
          BY <2>1, <4>2, Zenon DEF Picked
        <5> QED
          BY <5>1, <5>2, <5>3, Zenon
      <4> QED
        BY <4>1, <4>2
    <3> HIDE DEF F1, K1
    <3> QED
      BY <3>1
  <2>3. E(h) <=> h = F
    BY Zenon
  <2>4. SumsUp(h, w, R) <=> h = K
    BY Zenon DEF SumsUp
  <2> QED
    BY <2>2, <2>3, <2>4, Zenon
<1> DEFINE H == CHOOSE h : E(h)
<1>4. SumsUp(H, w, R)
  <2>1. \E h : E(h)
    <3> HIDE DEF E
    <3>1. E([s \in SUBSET R |-> Cardinality(Units(w, s))])
      BY <1>2, <1>3, UnitsSumUp
    <3> QED
      BY <3>1, Zenon
  <2>2. E(H)
    <3> HIDE DEF E
    <3> QED
      BY <2>1, Zenon
  <2> QED
    BY <1>3, <2>2
<1>5. H[R] = Cardinality(Units(w, R))
  <2> HIDE DEF H
  <2> QED
    BY <1>2, <1>4, SumIsUnits
<1> QED
  BY <1>1, <1>5, Zenon DEF TotalIn, w

\* Fewer rows, and no row with more exposure: no larger total.
LEMMA TotalMonotone ==
    ASSUME NEW c, NEW d, NEW A, NEW B, IsFiniteSet(B), A \subseteq B,
           \A r \in B : ExposureIn(d, r) \in Nat,
           \A r \in A : ExposureIn(c, r) \in Nat /\ ExposureIn(c, r) <= ExposureIn(d, r)
    PROVE  /\ TotalIn(c, A) \in Nat /\ TotalIn(d, B) \in Nat /\ TotalIn(c, A) <= TotalIn(d, B)
<1>1. IsFiniteSet(A) /\ Weights(c, A) \in [A -> Nat] /\ Weights(d, B) \in [B -> Nat]
  BY FS_Subset DEF Weights
<1>2. IsFiniteSet(Units(Weights(d, B), B))
  BY <1>1, UnitsFinite
<1>3. Units(Weights(c, A), A) \subseteq Units(Weights(d, B), B)
  <2>1. \A r \in A : 1..Weights(c, A)[r] \subseteq 1..Weights(d, B)[r]
    BY DEF Weights
  <2> QED
    BY <2>1 DEF Units
<1> QED
  BY <1>1, <1>2, <1>3, UnitsFinite, FS_Subset DEF TotalIn

\* A new row adds its exposure.
LEMMA TotalAdds ==
    ASSUME NEW c, NEW d, NEW A, NEW r, IsFiniteSet(A), r \notin A,
           \A q \in A : ExposureIn(d, q) \in Nat /\ ExposureIn(c, q) = ExposureIn(d, q),
           ExposureIn(c, r) \in Nat
    PROVE  /\ TotalIn(c, A \cup {r}) = TotalIn(d, A) + ExposureIn(c, r)
           /\ TotalIn(d, A) \in Nat
<1> DEFINE v == Weights(c, A \cup {r})
<1>1. v \in [A \cup {r} -> Nat] /\ v[r] = ExposureIn(c, r)
  BY DEF Weights
<1>2. Units(v, A) = Units(Weights(d, A), A)
  BY DEF Units, Weights
<1>3. TotalIn(d, A) \in Nat
  BY UnitsFinite DEF TotalIn, Weights
<1>4. TotalIn(c, A \cup {r}) = Cardinality(Units(v, A \cup {r}))
  BY DEF TotalIn
<1> HIDE DEF v
<1>5. Cardinality(Units(v, A \cup {r})) = v[r] + Cardinality(Units(v, A))
  BY <1>1, UnitsAdd
<1>6. TotalIn(c, A \cup {r}) = ExposureIn(c, r) + TotalIn(d, A)
  BY <1>1, <1>2, <1>4, <1>5, Zenon DEF TotalIn
<1> QED
  BY <1>3, <1>6

-----------------------------------------------------------------------------
(* The ceilings *)

\* The ceilings, in units.
LimitsHold ==
    /\ \A e \in Episodes : TotalIn(claims, OfEpisode(e)) <= EpisodeLimit
    /\ \A m \in 0..month : /\ TotalIn(claims, Booked(m)) <= MonthLimit
                            /\ TotalIn(claims, Experiments(Booked(m))) <= ExperimentLimit
    /\ TotalIn(claims, Unbilled) <= MonthLimit
    /\ TotalIn(claims, Experiments(Unbilled)) <= ExperimentLimit

\* The ceilings hold unless an overrun has frozen the ledger; there are finitely many
\* rows, and none of a month to come.
LimitsInv ==
    /\ LedgerInv
    /\ IsFiniteSet(Claimed)
    /\ \A r \in Claimed : claims[r].month <= month
    /\ ~Frozen => LimitsHold

\* Exposures are natural numbers.
LEMMA ExposureType ==
    ASSUME NEW c \in [Requests -> Claim], NEW r \in Requests
    PROVE  ExposureIn(c, r) \in Nat
BY DEF ExposureIn, Claim, Null

\* The rows the ceilings are about are rows of claims, of which there are finitely many.
LEMMA LedgerSets ==
    ASSUME IsFiniteSet(Claimed)
    PROVE  /\ Claimed \subseteq Requests
           /\ \A e : OfEpisode(e) \subseteq Claimed /\ IsFiniteSet(OfEpisode(e))
           /\ \A m : /\ OfMonth(m) \subseteq Claimed /\ IsFiniteSet(OfMonth(m))
                    /\ Booked(m) \subseteq OfMonth(m) /\ IsFiniteSet(Booked(m))
           /\ Unbilled \subseteq Claimed /\ IsFiniteSet(Unbilled)
           /\ \A R : Experiments(R) \subseteq R
           /\ \A R : R \subseteq Claimed => IsFiniteSet(R)
<1>1. \A R : R \subseteq Claimed => IsFiniteSet(R)
  BY FS_Subset
<1> QED
  BY <1>1 DEF Claimed, OfEpisode, OfMonth, CountsIn, Booked, Unbilled, Experiments

\* In terms of units: what the ledger adds up is within its ceilings.
LEMMA LimitsAreKept ==
    ASSUME LimitsInv
    PROVE  LedgerWithinLimits
<1>0. claims \in [Requests -> Claim] /\ \A r \in Requests : Exposure(r) \in Nat
  BY ExposureType DEF LimitsInv, LedgerInv, LedgerTypeOK, ExposureIn, Exposure
<1>1. ASSUME NEW R, R \subseteq Claimed PROVE Total(R) = TotalIn(claims, R)
  BY <1>0, <1>1, LedgerSets, TotalIsUnits DEF LimitsInv
<1> SUFFICES ASSUME ~Frozen PROVE
      /\ \A e \in Episodes : Total(OfEpisode(e)) <= EpisodeLimit
      /\ \A m \in 0..month : Total(Booked(m)) <= MonthLimit /\ Total(Experiments(Booked(m))) <= ExperimentLimit
      /\ Total(Unbilled) <= MonthLimit /\ Total(Experiments(Unbilled)) <= ExperimentLimit
  BY Zenon DEF LedgerWithinLimits
<1>2. LimitsHold
  BY DEF LimitsInv
<1>3. \A e \in Episodes : Total(OfEpisode(e)) <= EpisodeLimit
  BY <1>1, <1>2, LedgerSets DEF LimitsHold, LimitsInv
<1>4. \A m \in 0..month : Total(Booked(m)) <= MonthLimit /\ Total(Experiments(Booked(m))) <= ExperimentLimit
  <2>1. ASSUME NEW m \in 0..month PROVE Booked(m) \subseteq Claimed /\ Experiments(Booked(m)) \subseteq Claimed
    BY DEF Booked, Experiments
  <2> QED
    BY <1>1, <1>2, <2>1 DEF LimitsHold
<1>5. Unbilled \subseteq Claimed /\ Experiments(Unbilled) \subseteq Claimed
  BY DEF Unbilled, Experiments
<1> QED
  BY <1>1, <1>2, <1>3, <1>4, <1>5 DEF LimitsHold

\* A step that adds no row: the rows keep what they booked, an open row may be
\* settled, and while nothing is frozen for no more than its cap.
LEMMA LegalStepKeepsLimits ==
    ASSUME LimitsInv, LegalStep, Claimed' = Claimed, month' = month
    PROVE  LimitsInv'
<1>0. /\ LedgerInv /\ claims \in [Requests -> Claim] /\ claims' \in [Requests -> Claim] /\ LedgerInv'
      /\ IsFiniteSet(Claimed) /\ Claimed \subseteq Requests
  BY LegalStepKeepsRows, LedgerSets DEF LimitsInv, LedgerInv, LedgerTypeOK
<1>1. (\A r \in Claimed : ClaimStays(r)) /\ (Frozen => Frozen')
  BY <1>0, LegalStepKeepsLiabilities
<1>2. \A r \in Claimed' : claims'[r].month <= month'
  BY <1>1 DEF LimitsInv, ClaimStays
<1>3. ASSUME ~Frozen' PROVE LimitsHold'
  <2>1. ASSUME NEW r \in Claimed
        PROVE  /\ ExposureIn(claims, r) \in Nat /\ ExposureIn(claims', r) \in Nat
               /\ ExposureIn(claims', r) <= ExposureIn(claims, r)
    <3>1. claims[r] \in Claim /\ claims'[r] \in Claim /\ ExposureIn(claims, r) \in Nat
          /\ ExposureIn(claims', r) \in Nat
      BY <1>0, ExposureType
    <3>2. ~(claims'[r].actual > claims'[r].cap)
      BY <1>3 DEF Frozen
    <3>3. claims'[r].cap = claims[r].cap /\ (claims[r].actual # Null => claims'[r].actual = claims[r].actual)
      BY <1>1 DEF ClaimStays
    <3>4. claims'[r].actual \in Nat \cup {Null} /\ claims'[r].cap \in Nat /\ claims[r].actual \in Nat \cup {Null}
      BY <3>1 DEF Claim
    <3> QED
      BY <3>1, <3>2, <3>3, <3>4 DEF ExposureIn
  <2>2. ASSUME NEW A, NEW B, A \subseteq B, B \subseteq Claimed
        PROVE  TotalIn(claims', A) \in Nat /\ TotalIn(claims, B) \in Nat /\ TotalIn(claims', A) <= TotalIn(claims, B)
    <3>1. IsFiniteSet(B)
      BY <1>0, <2>2, LedgerSets
    <3> QED
      BY <2>1, <2>2, <3>1, TotalMonotone
  <2>3. LimitsHold
    BY <1>1, <1>3 DEF LimitsInv
  <2>4. /\ \A e : OfEpisode(e)' = OfEpisode(e)
        /\ \A m : Booked(m)' = Booked(m) /\ Experiments(Booked(m))' = Experiments(Booked(m))
    BY <1>1 DEF OfEpisode, Booked, Experiments, ClaimStays
  <2>5. Unbilled' \subseteq Unbilled /\ Experiments(Unbilled)' \subseteq Experiments(Unbilled)
    BY <1>1 DEF Unbilled, Experiments, ClaimStays
  <2>6. /\ \A e : OfEpisode(e) \subseteq Claimed
        /\ \A m : Booked(m) \subseteq Claimed /\ Experiments(Booked(m)) \subseteq Claimed
        /\ Unbilled \subseteq Claimed /\ Experiments(Unbilled) \subseteq Claimed
    BY DEF OfEpisode, Booked, Unbilled, Experiments
  <2>7. ASSUME NEW e \in Episodes PROVE TotalIn(claims', OfEpisode(e)') <= EpisodeLimit
    BY <2>2, <2>3, <2>4, <2>6, LedgerConstants DEF LimitsHold
  <2>8. ASSUME NEW m \in 0..month
        PROVE  /\ TotalIn(claims', Booked(m)') <= MonthLimit
               /\ TotalIn(claims', Experiments(Booked(m))') <= ExperimentLimit
    BY <2>2, <2>3, <2>4, <2>6, LedgerConstants DEF LimitsHold
  <2>9. /\ TotalIn(claims', Unbilled') <= MonthLimit
        /\ TotalIn(claims', Experiments(Unbilled)') <= ExperimentLimit
    BY <2>2, <2>3, <2>5, <2>6, LedgerConstants DEF LimitsHold
  <2> QED
    BY <2>7, <2>8, <2>9 DEF LimitsHold
<1> QED
  BY <1>0, <1>2, <1>3 DEF LimitsInv

\* A new month has booked nothing, and what is still open stays open.
LEMMA NextMonthKeepsLimits ==
    ASSUME LimitsInv, NextMonth
    PROVE  LimitsInv'
<1>0. /\ LedgerInv /\ LedgerInv' /\ IsFiniteSet(Claimed) /\ month \in Nat /\ month' = month + 1 /\ claims' = claims
      /\ Claimed' = Claimed /\ Claimed \subseteq Requests /\ claims \in [Requests -> Claim]
  BY LedgerConstants DEF LimitsInv, LedgerInv, LedgerTypeOK, ActualIsSettled, NextMonth, Claimed
<1>1. \A r \in Claimed : claims[r].month <= month /\ claims[r].month \in Nat
  BY <1>0 DEF LimitsInv, Claim
<1>2. ASSUME ~Frozen PROVE LimitsHold'
  <2>1. LimitsHold
    BY <1>2 DEF LimitsInv
  <2>2. ASSUME NEW A, NEW B, A \subseteq B, B \subseteq Claimed
        PROVE  TotalIn(claims, A) \in Nat /\ TotalIn(claims, B) \in Nat /\ TotalIn(claims, A) <= TotalIn(claims, B)
    <3>1. IsFiniteSet(B) /\ \A r \in B : ExposureIn(claims, r) \in Nat
      BY <1>0, <2>2, LedgerSets, ExposureType
    <3>2. \A r \in A : ExposureIn(claims, r) <= ExposureIn(claims, r)
      BY <2>2, <3>1
    <3> QED
      BY <2>2, <3>1, <3>2, TotalMonotone
  <2>3. Booked(month + 1) = {} /\ Experiments({}) = {} /\ TotalIn(claims, {}) = 0
    <3>1. Units(Weights(claims, {}), {}) = {}
      BY DEF Units
    <3>2. TotalIn(claims, {}) = 0
      BY <3>1, FS_EmptySet, Zenon DEF TotalIn
    <3>3. Experiments({}) = {}
      BY DEF Experiments
    <3>4. Booked(month + 1) = {}
      BY <1>0, <1>1 DEF Booked
    <3> QED
      BY <3>2, <3>3, <3>4
  <2>6. ASSUME NEW m \in 0..(month + 1)
        PROVE  /\ TotalIn(claims, Booked(m)) <= MonthLimit
               /\ TotalIn(claims, Experiments(Booked(m))) <= ExperimentLimit
    <3>1. CASE m = month + 1
      BY <2>3, <3>1, LedgerConstants
    <3>2. CASE m \in 0..month
      BY <2>1, <3>2 DEF LimitsHold
    <3> QED
      BY <1>0, <3>1, <3>2
  <2>7. /\ \A e \in Episodes : OfEpisode(e)' = OfEpisode(e)
        /\ \A m : Booked(m)' = Booked(m) /\ Experiments(Booked(m))' = Experiments(Booked(m))
        /\ Unbilled' = Unbilled /\ Experiments(Unbilled)' = Experiments(Unbilled)
    BY <1>0 DEF OfEpisode, Booked, Experiments, Unbilled
  <2> QED
    BY <1>0, <2>1, <2>6, <2>7 DEF LimitsHold
<1>3. Frozen' <=> Frozen
  BY <1>0 DEF Frozen
<1> QED
  BY <1>0, <1>1, <1>2, <1>3 DEF LimitsInv

\* A reservation is measured against every row it is added to.
LEMMA ReserveKeepsLimits ==
    ASSUME LimitsInv, NEW r \in Requests, NEW e \in Episodes, NEW cap \in Nat, NEW kind \in Kinds,
           NEW mode \in Modes, NEW pid \in Nat, NEW n \in 0..month, Admits(r, e, n, cap, kind),
           Inserted(r, e, n, cap, kind, mode, pid, 0), month' = month
    PROVE  LimitsInv'
<1> DEFINE c == [state |-> "RESERVED", episode |-> e, month |-> n, cap |-> cap, kind |-> kind,
                 actual |-> Null, mode |-> mode, pid |-> pid, gen |-> 0]
<1>0. /\ LedgerInv /\ claims \in [Requests -> Claim] /\ IsFiniteSet(Claimed) /\ Claimed \subseteq Requests
      /\ month \in Nat /\ n \in Nat /\ n <= month
      /\ \A q \in Claimed : claims[q].month <= month /\ claims[q].month \in Nat
  BY LedgerSets, LedgerConstants DEF LimitsInv, LedgerInv, LedgerTypeOK, Claim
<1>1. c.state = "RESERVED" /\ c.episode = e /\ c.month = n /\ c.cap = cap /\ c.kind = kind /\ c.actual = Null
  OBVIOUS
<1>2. claims' = [claims EXCEPT ![r] = c]
  BY Zenon DEF Inserted
<1> HIDE DEF c
<1>3. claims'[r] = c /\ \A q \in Requests \ {r} : claims'[q] = claims[q]
  BY <1>0, <1>2
<1>4. r \notin Claimed /\ Claimed' = Claimed \cup {r} /\ IsFiniteSet(Claimed')
  <2>1. r \notin Claimed
    BY DEF Admits, Claimed
  <2>2. Claimed' = Claimed \cup {r}
    BY <1>1, <1>3 DEF Claimed
  <2> QED
    BY <1>0, <2>1, <2>2, FS_AddElement
<1>5. LedgerInv'
  <2>1. LegalStep
    BY <1>0, InsertedIsLegal, 0 \in Nat, Zenon
  <2> QED
    BY <1>0, <2>1, LegalStepKeepsRows DEF LedgerInv, LedgerTypeOK
<1>6. \A q \in Claimed' : claims'[q].month <= month'
  BY <1>0, <1>1, <1>3, <1>4
<1>7. LimitsHold
  BY DEF LimitsInv, Admits
<1>8. /\ \A q \in Claimed : ExposureIn(claims, q) \in Nat /\ ExposureIn(claims', q) = ExposureIn(claims, q)
      /\ ExposureIn(claims', r) = cap
  BY <1>0, <1>1, <1>3, <1>4, ExposureType DEF ExposureIn
<1>9. ASSUME NEW A, A \subseteq Claimed
      PROVE  /\ TotalIn(claims, A) \in Nat /\ TotalIn(claims', A) = TotalIn(claims, A)
             /\ TotalIn(claims', A \cup {r}) = TotalIn(claims, A) + cap
             /\ Total(A) = TotalIn(claims, A)
  <2>1. IsFiniteSet(A) /\ r \notin A
    BY <1>0, <1>4, <1>9, LedgerSets
  <2>2. TotalIn(claims, A) \in Nat /\ TotalIn(claims', A \cup {r}) = TotalIn(claims, A) + ExposureIn(claims', r)
    BY <1>8, <1>9, <2>1, TotalAdds
  <2>3. TotalIn(claims', A) = TotalIn(claims, A)
    BY <1>8, <1>9 DEF TotalIn, Weights, Units
  <2>4. \A q \in A : Exposure(q) \in Nat
    BY <1>8, <1>9 DEF Exposure, ExposureIn
  <2> QED
    BY <1>8, <2>1, <2>2, <2>3, <2>4, TotalIsUnits
<1>10. ASSUME NEW A, NEW B, A \subseteq B, B \subseteq Claimed
       PROVE  TotalIn(claims, A) \in Nat /\ TotalIn(claims, B) \in Nat /\ TotalIn(claims, A) <= TotalIn(claims, B)
  <2>1. IsFiniteSet(B) /\ \A q \in B : ExposureIn(claims, q) \in Nat
    BY <1>0, <1>8, <1>10, LedgerSets
  <2>2. \A q \in A : ExposureIn(claims, q) <= ExposureIn(claims, q)
    BY <1>10, <2>1
  <2> QED
    BY <1>10, <2>1, <2>2, TotalMonotone
<1>11. /\ \A f : OfEpisode(f) \subseteq Claimed
       /\ \A m : Booked(m) \subseteq Claimed /\ Experiments(Booked(m)) \subseteq Claimed
       /\ OfMonth(n) \subseteq Claimed /\ Experiments(OfMonth(n)) \subseteq Claimed
       /\ Booked(n) \subseteq OfMonth(n) /\ Unbilled \subseteq OfMonth(n)
       /\ Experiments(Booked(n)) \subseteq Experiments(OfMonth(n))
       /\ Experiments(Unbilled) \subseteq Experiments(OfMonth(n))
  BY DEF OfEpisode, Booked, Unbilled, OfMonth, CountsIn, Experiments
<1>12. /\ TotalIn(claims, OfEpisode(e)) + cap <= EpisodeLimit
       /\ TotalIn(claims, OfMonth(n)) + cap <= MonthLimit
       /\ kind = "experiment" => TotalIn(claims, Experiments(OfMonth(n))) + cap <= ExperimentLimit
  BY <1>9, <1>11 DEF Admits
<1>13. ASSUME NEW f \in Episodes PROVE TotalIn(claims', OfEpisode(f)') <= EpisodeLimit
  <2>1. OfEpisode(f)' = IF f = e THEN OfEpisode(f) \cup {r} ELSE OfEpisode(f)
    BY <1>0, <1>1, <1>3, <1>4 DEF OfEpisode
  <2> QED
    BY <1>7, <1>9, <1>11, <1>12, <2>1 DEF LimitsHold
<1>14. ASSUME NEW A, A \subseteq OfMonth(n) PROVE TotalIn(claims, A) \in Nat /\ TotalIn(claims, A) + cap <= MonthLimit
  <2>1. TotalIn(claims, A) \in Nat /\ TotalIn(claims, OfMonth(n)) \in Nat /\ TotalIn(claims, A) <= TotalIn(claims, OfMonth(n))
    BY <1>10, <1>11, <1>14
  <2> QED
    BY <1>12, <2>1, LedgerConstants
<1>15. ASSUME NEW A, A \subseteq Experiments(OfMonth(n)), kind = "experiment"
       PROVE  TotalIn(claims, A) \in Nat /\ TotalIn(claims, A) + cap <= ExperimentLimit
  <2>1. /\ TotalIn(claims, A) \in Nat /\ TotalIn(claims, Experiments(OfMonth(n))) \in Nat
        /\ TotalIn(claims, A) <= TotalIn(claims, Experiments(OfMonth(n)))
    BY <1>10, <1>11, <1>15
  <2> QED
    BY <1>12, <1>15, <2>1, LedgerConstants
<1>16. /\ TotalIn(claims', Unbilled') <= MonthLimit
       /\ TotalIn(claims', Experiments(Unbilled)') <= ExperimentLimit
  <2>1. /\ Unbilled' = Unbilled \cup {r}
        /\ Experiments(Unbilled)' = IF kind = "experiment" THEN Experiments(Unbilled) \cup {r} ELSE Experiments(Unbilled)
    BY <1>0, <1>1, <1>3, <1>4 DEF Unbilled, Experiments
  <2>2. Unbilled \subseteq Claimed /\ Experiments(Unbilled) \subseteq Claimed
    BY DEF Unbilled, Experiments
  <2>3. TotalIn(claims', Unbilled') <= MonthLimit
    <3>1. TotalIn(claims, Unbilled) + cap <= MonthLimit
      BY <1>11, <1>14
    <3>2. TotalIn(claims', Unbilled \cup {r}) = TotalIn(claims, Unbilled) + cap
      BY <1>9, <2>2
    <3> QED
      BY <2>1, <3>1, <3>2
  <2>4. CASE kind = "experiment"
    <3>1. TotalIn(claims, Experiments(Unbilled)) + cap <= ExperimentLimit
      BY <1>11, <1>15, <2>4
    <3>2. TotalIn(claims', Experiments(Unbilled) \cup {r}) = TotalIn(claims, Experiments(Unbilled)) + cap
      BY <1>9, <2>2
    <3> QED
      BY <2>1, <2>3, <2>4, <3>1, <3>2
  <2>5. CASE kind # "experiment"
    BY <1>7, <1>9, <2>1, <2>2, <2>3, <2>5 DEF LimitsHold
  <2> QED
    BY <2>4, <2>5
<1>17. ASSUME NEW m \in 0..month
       PROVE  /\ TotalIn(claims', Booked(m)') <= MonthLimit
              /\ TotalIn(claims', Experiments(Booked(m))') <= ExperimentLimit
  <2>1. CASE m # n
    <3>1. Booked(m)' = Booked(m) /\ Experiments(Booked(m))' = Experiments(Booked(m))
      BY <1>0, <1>1, <1>3, <1>4, <2>1 DEF Booked, Experiments
    <3> QED
      BY <1>7, <1>9, <1>11, <3>1 DEF LimitsHold
  <2>2. CASE m = n
    <3>1. /\ Booked(m)' = Booked(n) \cup {r}
          /\ Experiments(Booked(m))' = IF kind = "experiment" THEN Experiments(Booked(n)) \cup {r}
                                       ELSE Experiments(Booked(n))
      BY <1>0, <1>1, <1>3, <1>4, <2>2 DEF Booked, Experiments
    <3>2. TotalIn(claims', Booked(m)') <= MonthLimit
      <4>1. TotalIn(claims, Booked(n)) + cap <= MonthLimit
        BY <1>11, <1>14
      <4>2. TotalIn(claims', Booked(n) \cup {r}) = TotalIn(claims, Booked(n)) + cap
        BY <1>9, <1>11
      <4> QED
        BY <3>1, <4>1, <4>2
    <3>3. CASE kind = "experiment"
      <4>1. TotalIn(claims, Experiments(Booked(n))) + cap <= ExperimentLimit
        BY <1>11, <1>15, <3>3
      <4>2. TotalIn(claims', Experiments(Booked(n)) \cup {r}) = TotalIn(claims, Experiments(Booked(n))) + cap
        BY <1>9, <1>11
      <4> QED
        BY <3>1, <3>2, <3>3, <4>1, <4>2
    <3>4. CASE kind # "experiment"
      <4>1. TotalIn(claims', Experiments(Booked(n))) = TotalIn(claims, Experiments(Booked(n)))
        BY <1>9, <1>11
      <4>2. TotalIn(claims, Experiments(Booked(n))) <= ExperimentLimit
        BY <1>7 DEF LimitsHold
      <4> QED
        BY <3>1, <3>2, <3>4, <4>1, <4>2
    <3> QED
      BY <3>3, <3>4
  <2> QED
    BY <2>1, <2>2
<1>18. LimitsHold'
  BY <1>13, <1>17, <1>16, Zenon DEF LimitsHold
<1> QED
  BY <1>4, <1>5, <1>6, <1>18 DEF LimitsInv

\* A step on a row of the table adds none.
LEMMA RowStepKeepsLimits ==
    ASSUME LimitsInv, LegalStep, month' = month, NEW r \in Requests, claims[r].state # "NONE",
           \A q \in Requests \ {r} : claims'[q] = claims[q]
    PROVE  LimitsInv'
<1>1. \A q \in Claimed : ClaimStays(q)
  BY LegalStepKeepsLiabilities DEF LimitsInv
<1>2. Claimed' = Claimed
  BY <1>1 DEF Claimed, ClaimStays
<1> QED
  BY <1>2, LegalStepKeepsLimits

\* Every step of the ledger keeps the ceilings.
LEMMA LedgerNextKeepsLimits ==
    ASSUME LimitsInv, [LedgerNext]_ledgerVars
    PROVE  LimitsInv'
<1>0. LedgerInv /\ LegalStep /\ claims \in [Requests -> Claim]
  BY LedgerNextIsLegal DEF LimitsInv, LedgerInv, LedgerTypeOK
<1>1. CASE UNCHANGED ledgerVars
  BY <1>0, <1>1, LegalStepKeepsLimits DEF ledgerVars, Claimed
<1>2. CASE NextMonth
  BY <1>2, NextMonthKeepsLimits
<1>3. ASSUME NEW r \in Requests, NEW e \in Episodes, NEW cap \in Amounts, NEW kind \in Kinds,
             NEW mode \in Modes, NEW pid \in 0..1, NEW m \in 0..month, Reserve(r, e, m, cap, kind, mode, pid)
      PROVE  LimitsInv'
  <2>1. Admits(r, e, m, cap, kind) /\ Inserted(r, e, m, cap, kind, mode, pid, 0) /\ month' = month
    BY <1>3, Zenon DEF Reserve
  <2>2. cap \in Nat /\ pid \in Nat
    BY LedgerConstants
  <2> QED
    BY <2>1, <2>2, ReserveKeepsLimits
<1>4. ASSUME NEW r \in Requests,
             BindProvider(r, 1) \/ MarkUnknown(r) \/ \E a \in Amounts : Settle(r, a) \/ SettleVerifiedReceipt(r, 1, a)
      PROVE  LimitsInv'
  <2>1. claims[r].state # "NONE" /\ month' = month
    BY <1>4, Zenon DEF BindProvider, MarkUnknown, Settle, SettleVerifiedReceipt, MayBind, MayForget, MayWrite, MaySettle
  <2>2. claims' = claims \/ \E x : claims' = [claims EXCEPT ![r] = x]
    <3>1. CASE BindProvider(r, 1)
      BY <3>1, Zenon DEF BindProvider, Bound
    <3>2. CASE MarkUnknown(r)
      BY <3>2, Zenon DEF MarkUnknown, Forgotten
    <3>3. ASSUME NEW a, Settled(r, a, 0) PROVE claims' = claims \/ \E x : claims' = [claims EXCEPT ![r] = x]
      BY <3>3, Zenon DEF Settled
    <3> QED
      BY <1>4, <3>1, <3>2, <3>3, Zenon DEF Settle, SettleVerifiedReceipt
  <2>3. \A q \in Requests \ {r} : claims'[q] = claims[q]
    BY <1>0, <2>2
  <2> QED
    BY <1>0, <2>1, <2>3, RowStepKeepsLimits
<1> QED
  BY <1>1, <1>2, <1>3, <1>4, Zenon DEF LedgerNext

\* As long as no provider billed more than its cap, no ceiling is exceeded, by an
\* episode, by what a month booked or by all that is open, whatever is reserved,
\* settled or left open over any number of months, and although the month of a
\* reservation is read before its transaction (reserve(), exposure()).
THEOREM CeilingsHold == LedgerSpec => []LedgerWithinLimits
<1>1. LedgerInit => LimitsInv
  <2> SUFFICES ASSUME LedgerInit PROVE LimitsInv
    OBVIOUS
  <2>1. LedgerInv
    BY NoClaimType, LedgerConstants DEF LedgerInit, LedgerInv, LedgerTypeOK, ActualIsSettled
  <2>2. Claimed = {} /\ month = 0
    BY NoClaimType DEF LedgerInit, Claimed
  <2>3. /\ \A e : OfEpisode(e) = {}
        /\ \A m : Booked(m) = {} /\ Experiments(Booked(m)) = {}
        /\ Unbilled = {} /\ Experiments(Unbilled) = {}
    BY <2>2 DEF OfEpisode, Booked, Unbilled, Experiments
  <2>4. TotalIn(claims, {}) = 0
    <3>1. Units(Weights(claims, {}), {}) = {}
      BY DEF Units
    <3> QED
      BY <3>1, FS_EmptySet, Zenon DEF TotalIn
  <2>5. LimitsHold
    <3>1. 0 <= EpisodeLimit /\ 0 <= MonthLimit /\ 0 <= ExperimentLimit
      BY LedgerConstants
    <3> QED
      BY <2>3, <2>4, <3>1, Zenon DEF LimitsHold
  <2> QED
    BY <2>1, <2>2, <2>5, FS_EmptySet DEF LimitsInv
<1>2. LimitsInv /\ [LedgerNext]_ledgerVars => LimitsInv'
  BY LedgerNextKeepsLimits
<1>3. LimitsInv => LedgerWithinLimits
  BY LimitsAreKept
<1> QED
  BY <1>1, <1>2, <1>3, PTL DEF LedgerSpec
=============================================================================
