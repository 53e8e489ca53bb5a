---------------------------- MODULE FencedLease ----------------------------
(***************************************************************************)
(* What an episode lease promises to the code that uses it, with no clock, *)
(* no rows and no owners: per episode one current fencing token, whether   *)
(* that token is still live, and the highest token ever granted.           *)
(*                                                                         *)
(* EpisodeLease (src/hybrid/lease.py) implements this specification; the   *)
(* worker module drives its leases by these actions.                       *)
(***************************************************************************)
EXTENDS Naturals

CONSTANT Episodes

VARIABLES
    token,  \* token[e]: the current fencing token, 0 when nobody holds e
    live,   \* the episodes whose current token has not expired
    last    \* last[e]: the epoch tombstone, never decreasing

leaseVars == <<token, live, last>>

FencedTypeOK ==
    /\ token \in [Episodes -> Nat]
    /\ live \subseteq Episodes
    /\ last \in [Episodes -> Nat]

FencedInit ==
    /\ token = [e \in Episodes |-> 0]
    /\ live = {}
    /\ last = [e \in Episodes |-> 0]

\* A new token is granted only over a missing or expired one, and is fresh.
\* It may be expired on arrival: the grantee's clock reading can be old.
Grant(e) ==
    /\ token[e] = 0 \/ e \notin live
    /\ last' = [last EXCEPT ![e] = @ + 1]
    /\ token' = [token EXCEPT ![e] = last[e] + 1]
    /\ live' \in {live \cup {e}, live \ {e}}

\* The holder gives the token back; the tombstone stays.
Drop(e) ==
    /\ token[e] # 0
    /\ token' = [token EXCEPT ![e] = 0]
    /\ live' = live \ {e}
    /\ UNCHANGED last

\* The holder extends the token it has.
Refresh(e) ==
    /\ token[e] # 0
    /\ live' \in {live \cup {e}, live \ {e}}
    /\ UNCHANGED <<token, last>>

\* Time passes: some live tokens expire, none comes back to life.
Expire ==
    /\ live' \subseteq live
    /\ UNCHANGED <<token, last>>

FencedNext ==
    \/ \E e \in Episodes : Grant(e) \/ Refresh(e) \/ Drop(e)
    \/ Expire

FencedSpec == FencedInit /\ [][FencedNext]_leaseVars

=============================================================================
