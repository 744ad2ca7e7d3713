----------------------------- MODULE EntityGraph -----------------------------
(***************************************************************************)
(* Who funded whom (filter/engine.rs, persist_entity_links_for_*, and      *)
(* filter/db.rs): every profile the gates resolve is linked to its first   *)
(* funder by the persist worker, one task at a time, each in three         *)
(* statements after a read; the funder's profile counts wallets and rugs   *)
(* and gate 2 rejects by it.  At a start the graph is completed from the   *)
(* profiles stored.  One funder is modelled, since rows of different       *)
(* funders do not meet.                                                    *)
(***************************************************************************)
EXTENDS Integers, Sequences, FiniteSets

CONSTANTS
    Creators,     \* wallets that launch tokens, funded by the funder
    Buyers,       \* wallets that buy, funded by the funder
    MaxRugs,      \* bound: rugs of a creator
    MaxTasks,     \* bound: profiles resolved
    MaxRestarts   \* bound: restarts

VARIABLES
    profiles,  \* creator_profiles and buyer_profiles: the wallets whose row names the
               \* funder, with a creator's rugs
    queue,     \* the persist worker's link tasks
    step,      \* of the task at the head of the queue
    read,      \* the funder's row when a buyer's task began
    wallets,   \* funder_profiles.wallet_count
    rugs,      \* funder_profiles.rug_exposure
    members,   \* address_clusters: score of each member of the funder's cluster
    tasks,     \* how many profiles have been resolved
    restarts,  \* how often the process has started anew
    forgotten, \* history: the wallets whose row has named the funder and ceased to
    failed     \* history: whether a statement has failed

vars == <<profiles, queue, step, read, wallets, rugs, members, tasks, restarts, forgotten, failed>>

Unknown == -1
Wallet  == Creators \cup Buyers
Steps   == {"read", "funder", "member"}
NoRow   == [wallets |-> 0, rugs |-> 0]

TypeOK ==
    /\ profiles \in [Wallet -> Unknown..MaxRugs]
    /\ queue \in Seq([wallet : Wallet, rugs : 0..MaxRugs])
    /\ step \in Steps
    /\ read \in [wallets : Nat, rugs : 0..MaxRugs]
    /\ wallets \in 0..(MaxTasks + Cardinality(Wallet))
    /\ rugs \in 0..MaxRugs
    /\ members \in [Wallet -> {0, 50, 100}]
    /\ tasks \in 0..MaxTasks
    /\ restarts \in 0..MaxRestarts
    /\ forgotten \in SUBSET Wallet
    /\ failed \in BOOLEAN

Init ==
    /\ profiles = [w \in Wallet |-> Unknown]
    /\ queue = <<>>
    /\ step = "read"
    /\ read = NoRow
    /\ wallets = 0
    /\ rugs = 0
    /\ members = [w \in Wallet |-> 0]
    /\ tasks = 0
    /\ restarts = 0
    /\ forgotten = {}
    /\ failed = FALSE

Greater(a, b) == IF a > b THEN a ELSE b

-----------------------------------------------------------------------------
(* A profile is resolved.  With a funder it is sent to be linked, after it   *)
(* has been stored: now, or, for a creator whose profile memory knows, some  *)
(* time ago.  A wallet may be resolved again, with another token; if Helius  *)
(* does not answer then, the profile names no funder and replaces the row.   *)
Resolve(w) ==
    /\ tasks < MaxTasks
    /\ tasks' = tasks + 1
    /\ \E r \in IF w \in Creators THEN 0..MaxRugs ELSE {0} :
          /\ profiles' = [profiles EXCEPT ![w] = r] \/ (w \notin Buyers /\ UNCHANGED profiles)
          /\ queue' = Append(queue, [wallet |-> w, rugs |-> r])
    /\ UNCHANGED <<step, read, wallets, rugs, members, restarts, forgotten, failed>>

ResolveUnfunded(w) ==
    /\ tasks < MaxTasks
    /\ tasks' = tasks + 1
    /\ profiles' = [profiles EXCEPT ![w] = Unknown]
    /\ forgotten' = IF profiles[w] = Unknown THEN forgotten ELSE forgotten \cup {w}
    /\ UNCHANGED <<queue, step, read, wallets, rugs, members, restarts, failed>>

-----------------------------------------------------------------------------
(* The task at the head of the queue.  Only a buyer's looks at what there is. *)

Task == Head(queue)

Read ==
    /\ queue # <<>> /\ step = "read"
    /\ step' = "funder"
    /\ \/ /\ read' = IF Task.wallet \in Buyers THEN [wallets |-> wallets, rugs |-> rugs] ELSE NoRow
          /\ UNCHANGED failed
       \/ read' = NoRow /\ failed' = TRUE   \* an error reads as no row
    /\ UNCHANGED <<profiles, queue, wallets, rugs, members, tasks, restarts, forgotten>>

(* as it would be with the row replaced *)
UpsertReplacing(count, exposure) ==
    /\ wallets' = count
    /\ rugs' = exposure

(* upsert_funder_profile never lowers a column *)
UpsertFunder(count, exposure) ==
    /\ wallets' = Greater(wallets, count)
    /\ rugs' = Greater(rugs, exposure)

(* as it would be with a creator counted in place of the buyers *)
CountedOnce == 1

(* A buyer adds to what was read, a creator is one wallet at least. *)
Counted == IF Task.wallet \in Buyers THEN read.wallets + 1 ELSE 1

LinkFunder ==
    /\ queue # <<>> /\ step = "funder"
    /\ step' = "member"
    /\ \/ /\ UpsertFunder(Counted, IF Task.wallet \in Buyers THEN read.rugs ELSE Task.rugs)
          /\ UNCHANGED failed
       \/ UNCHANGED <<wallets, rugs>> /\ failed' = TRUE
    /\ UNCHANGED <<profiles, queue, read, members, tasks, restarts, forgotten>>

Score(w) == IF w \in Creators THEN 100 ELSE 50

(* The member's row, and an edge. *)
LinkMember ==
    /\ queue # <<>> /\ step = "member"
    /\ step' = "read"
    /\ queue' = Tail(queue)
    /\ read' = NoRow
    /\ \/ /\ members' = [members EXCEPT ![Task.wallet] = Greater(@, Score(Task.wallet))]
          /\ UNCHANGED failed
       \/ UNCHANGED members /\ failed' = TRUE
    /\ UNCHANGED <<profiles, wallets, rugs, tasks, restarts, forgotten>>

-----------------------------------------------------------------------------
Stored(ws)  == {w \in ws : profiles[w] # Unknown}
WorstRugs   == CHOOSE r \in 0..MaxRugs :
                  /\ \A c \in Stored(Creators) : profiles[c] <= r
                  /\ r = 0 \/ \E c \in Stored(Creators) : profiles[c] = r

(* backfill_entity_graph, in one transaction *)
Backfill ==
    /\ wallets' = Greater(wallets, Greater(Cardinality(Stored(Buyers)), Cardinality(Stored(Creators))))
    /\ rugs' = Greater(rugs, WorstRugs)
    /\ members' = [w \in Wallet |-> IF w \in Stored(Wallet) THEN Greater(members[w], Score(w))
                                    ELSE members[w]]

(* What was queued is lost. *)
Restart ==
    /\ restarts < MaxRestarts
    /\ restarts' = restarts + 1
    /\ queue' = <<>>
    /\ step' = "read"
    /\ read' = NoRow
    /\ \/ Backfill /\ UNCHANGED failed
       \/ UNCHANGED <<wallets, rugs, members>> /\ failed' = TRUE
    /\ UNCHANGED <<profiles, tasks, forgotten>>

Next ==
    \/ \E w \in Wallet : Resolve(w) \/ ResolveUnfunded(w)
    \/ Read \/ LinkFunder \/ LinkMember \/ Restart

Spec == Init /\ [][Next]_vars

-----------------------------------------------------------------------------
(* The funder is never taken for smaller than he is known to be: the wallets *)
(* counted are at least the buyers in his cluster, though they are counted   *)
(* by a read and a later write, and a crash may come between any two         *)
(* statements.  What a start recomputes from the profiles may miss those     *)
(* buyers, and no more, whose row has lost its funder to a later profile.    *)
(* (They may be more: a wallet is counted again at every buy.)               *)
CountCoversBuyers ==
    ~failed => wallets >= Cardinality({b \in Buyers : members[b] > 0} \ forgotten)

(* A rug charged to the funder stays charged, and no wallet counted is       *)
(* discounted, whichever statements fail and whatever a start recomputes.    *)
GraphGrows == [][wallets' >= wallets /\ rugs' >= rugs]_vars

=============================================================================
