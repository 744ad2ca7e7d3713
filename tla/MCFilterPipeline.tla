-------------------------- MODULE MCFilterPipeline --------------------------
(* Settings for the filter: a wallet that is on the hot list, one whose      *)
(* funder is, and the creator's own; two units bought trigger, in the first  *)
(* unit of time on the fast path, and the third unit of time is too late.    *)
EXTENDS FilterPipeline

Outsiders   == {"hot", "funded"}
MCFunderOf  == [b \in Buyers |-> IF b = "funded" THEN "whale" ELSE "bank"]

MCConfig ==
    [fastSol |-> 2, softSol |-> 2, floorSol |-> 1, clusterSol |-> 1,
     selfSol |-> 1, selfHardSol |-> 2, externalSol |-> 2,
     selfShare |-> 40, selfHardShare |-> 80, buyerShare |-> 60,
     fastWindow |-> 0, softWindow |-> 1, window |-> 2, hardReject |-> 1,
     maxBuys |-> 2, concentrationBuys |-> 2, externalBuyers |-> 1, diversityBuys |-> 2]

MCEnabled == {"hotlists", "selfBuyBlock", "concentration"}

Listed   == [wallets |-> {"hot"}, funders |-> {"whale"}, blocked |-> {}]
Blocking == [wallets |-> {"hot"}, funders |-> {}, blocked |-> {"funded"}]
TwoLists == {Listed, Blocking}

=============================================================================
