-------------------------- MODULE MCBillingSnapshot --------------------------
(* Small instances of the billing stores: every request costs 1 of one episode, *)
(* and the provider may report or bill 1 or 2.                                  *)
EXTENDS BillingSnapshot

MCCost == [r \in Requests |-> 1]
MCEpisodeOf == [r \in Requests |-> CHOOSE e \in Episodes : TRUE]
===============================================================================
