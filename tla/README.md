# Verification of the Solana copy trader

TLA+ models, TLC configurations and TLAPS proofs for
`rust-solana--gemini/solana-copy-trader`, an event-driven trading program written in
Rust on tokio. Paths below are relative to its `src/` directory unless they begin
with `README.md` or `WORKFLOW.md`, which are the program's own.

The project follows one token all the way: from the two feeds that report its creation,
through the gates of the filter and what the filter stores on the side, to the buy that
is quoted, priced and posted, and on until its position leaves the program's table. The
centre is that table, whose entries change state under the feet of five concurrent tasks,
a blockchain and an account subscription, and the event loop of the filter, whose
candidates are worked on by tasks that come back at any time.
`PROJECT.json` holds the map from definitions to source lines, the runs, the mutants,
the hazards and the findings.

## 1. Inventory

### 1.1 Components, their state and their operations

| Component | State it keeps | Operations | What makes it correct |
|---|---|---|---|
| **Position life cycle** `autosell/position.rs` | state of one position, token amount, price extremes, `created_at` | `mark_submitted`, `mark_confirming`, `mark_active`, `mark_selling`, `mark_closed`, `mark_failed`, `restore_after_sell_attempt`, `apply_partial_sell`, exit conditions | only the documented arrows are followed; a closed position stays closed; a holding exists only if its buy landed |
| **Auto-sell manager and its monitors** `autosell/manager.rs` | `positions`, a DashMap shared by all tasks; the signal channel | `add_position`, `confirm_success`, `confirm_failed`, `start_grpc_monitor`, `start_fallback_monitor` (confirm or fail late buys, signal expiry, sweep) | tokens in the wallet belong to an open position; nobody waits for himself; expired positions are sold |
| **Buy task** `main.rs` `execute_buy` | its local position | build, send, register the position, start the confirmer | accounts are tracked before the position exists; a failed send leaves no position |
| **Buy confirmer** `tx/confirm.rs` | `signature_confirmed`, `token_balance`, elapsed time | cache, RPC balance and signature polls, `getTransaction` at the deadline | a position is confirmed only on evidence that the buy landed |
| **Sell executor** `tx/sell_executor.rs` | the clone of the position it sells, the amounts of the sale | size, send, wait, retry, close/partially sell/restore, clean up the mint | closed means sold; no position is left `Selling`; attempts end |
| **Account subscriber** `grpc/account_subscriber.rs` | routing maps, `subscribed_accounts`, the notify permit, both caches, the stream's last size | `track_*`, `untrack_mint`, `subscribe`, `handle_account_update` | every tracked account comes to be streamed; no wake-up is lost; an untracked mint leaves no streamed curve |
| **Position persistence** `autosell/persistence.rs` | a JSON file | save, load, delete | the file reflects the table; a restart resumes |
| **Filter pipeline** `filter/engine.rs` | candidates by mint, creator and wallet caches, in-flight sets, permits, cooldowns, launches per creator, hot lists | gate 1, admission, the slow creator gate, buy events, buyers' profiles, triggers and rejects, score tasks, the 200 ms tick, background refreshes, the persist queues | a candidate has the task its status promises, ends in one outcome and does end; a refresh runs once at a time and ends; what is stored is not lost or replaced by less |
| **Filter risk** `filter/risk.rs` | none | names, links, template counts to penalties | better evidence never hurts |
| **Filter database** `filter/db.rs` | SQLite | merging upserts, queries, reports | rows written in pieces and in any order hold the best of what was written |
| **Scanner feeds** `scanner/geyser.rs`, `deshred.rs`, `feed.rs` | the shared duplicate cache, bounded channels, the streams | connect, decode, de-duplicate, dispatch, reconnect | an event is forwarded once; a token found new reaches the filter |
| **Feed failover** `scanner/failover.rs` | status, hits and last activity per feed | report, choose | no caller in the program `main` starts |
| **Event decoder, raw events** `scanner/decoder.rs`, `raw_event.rs` | none | parse bytes | byte formats |
| **Legacy wallet subscriber** `grpc/subscriber.rs` | stream | parse watched wallets' transactions | not started by `main` |
| **Consensus engine** `consensus/engine.rs` | signals per mint, triggered flag | submit, clean up | no caller in the program `main` starts |
| **Transaction sender** `tx/sender.rs` | the shared rotation counter | fan out over RPC, Jito, 0slot | a transaction goes where its tip counts, to every channel of its route |
| **Execution router and feedback** `tx/execution_router.rs`, `main.rs` | recent receipts, the feedback | plan, profile of a signal, feedback of the window | a failure never makes the next buy cheaper or narrower |
| **Transaction building** `tx/builder.rs`, `blockhash.rs`, `jupiter.rs` | blockhash cache | instructions, HTTP | formats |
| **DEX processors, prefetch cache** `processor/*` | cached curves, prefetch cache | quotes, accounts, TTL sweep | a quote asks for no more than its amount pays for |
| **Configuration, groups** `config.rs`, `groups.rs` | group file | load, edit | validation |
| **Single-instance guard** `main.rs` `RuntimeGuard` | pid file | create, write, judge, remove, drop | one process at a time, none refused for nobody |
| **Telegram bot, analytics, replay, utilities, ops** | - | I/O, reports | - |

### 1.2 How they interact

```
scanner feeds --events--> filter pipeline --BuySignal--> buy loop (main)
buy loop --track_bonding_curve, track_ata--> account subscriber
buy loop --spawns--> buy task --transaction--> chain
buy task --add_position--> POSITIONS <--confirm_success/failed-- confirmer
account subscriber --AccountUpdate--> gRPC monitor --SellSignal--> queue
fallback monitor (every 3 s, over POSITIONS and RPC) --SellSignal--> queue
queue --> sell executor --transactions--> chain
sell executor --mark_selling/closed, restore, partial sale--> POSITIONS
sell executor --untrack_mint--> account subscriber
```

`POSITIONS` is a DashMap. No task holds one of its locks across an `await`, so every
task may find at its next step that another has changed the entry; the one exception is
inside a single step of the fallback monitor, which iterates the map while it holds a
write guard of it.

### 1.3 What is hard here

* **Stale reads.** The executor clones a position, resolves accounts, reads a balance,
  and only then marks the entry `Selling`; seconds of retries later it restores a state
  it read at the start. The fallback monitor decides by a clone, reads a balance by
  RPC, then changes the entry in whatever state it has come to be.
* **Timeouts against late answers.** Confirmer (10 s) and fallback monitor (5 s) write
  a buy off while it may still land; each of the executor's retries sends another sale
  while an earlier one may still land.
* **Errors that read as answers.** A failed balance call reads as 0.
* **Ordering.** Two monitors signal the same position; the account list sent to the
  server is taken before the connection is made; updates are handled while their mint
  is being untracked.
* **Locks.** Iterations of the table against guards held on it.
* **Messages that name a mint only.** Creator gates, score tasks and profile fetches of
  the filter report by mint; the candidate they come back to may be gone or another one.
* **Looked at, awaited, looked at again.** A refresh checks an in-flight set, waits for a
  permit, and must check again; its caller may have given up meanwhile while it goes on.
* **Rows written in pieces.** One persist worker writes what several tasks computed,
  reads before it adds up, and drops work when its bounded queue is full.
* **Crashes.** The pid file, the narrative terms' file and everything that is counted in
  memory and written later.
* **Thresholds that cross.** A dozen limits joined by conjunctions and disjunctions decide
  on a candidate; success rate, streak and tier on the price of a buy.

## 2. Modules

| Module | Models | Uses |
|---|---|---|
| `Position` | the methods of `Position` as operators on a record: state and token amount | |
| `Lifecycle` | the abstract specification: the arrows that the comments of `position.rs` promise | |
| `AutoSell` | buy task, confirmer, gRPC monitor, fallback monitor, sell executor, the position table with its locks, the signal queue, the balance cache and the chain | `Position`, `Lifecycle` (instance) |
| `MCAutoSell` | symmetry for TLC | `AutoSell` |
| `AutoSellProofs` | theorems about `AutoSell` | `AutoSell` |
| `AccountSubscriber` | tracking, untracking, the subscription stream and the caches, one map operation at a time | |
| `MCAccountSubscriber` | symmetry for TLC | `AccountSubscriber` |
| `AccountSubscriberProofs` | theorems about `AccountSubscriber` | `AccountSubscriber` |
| `Gate3` | triggers and rejects of a candidate, as operators on its buys | |
| `FilterPipeline` | the event loop of the filter, its candidates and the tasks it spawns | `Gate3` |
| `MCFilterPipeline` | settings, wallets and hot lists for TLC | `FilterPipeline` |
| `FilterPipelineProofs` | theorems about `FilterPipeline` | `FilterPipeline` |
| `CreatorRefresh` | the creator gate: memory, database, in-flight set, permits, retry cooldown, refresh workers | |
| `AddressSnapshots` | what is known of wallets: memory, database, Helius with its cooldown, RPC | |
| `Gate1` | launches in the window and uses of a template, written behind | |
| `Scoring` | gate 2's rules, gate 4's score, the single-buyer filter | |
| `FilterRecords` | the merging rows of a mint's results and timeline | |
| `EntityGraph` | funders, their wallets and rugs, the persist worker, the backfill | |
| `NarrativeTerms` | the hot terms: sources, rows that expire, the file, the reload | |
| `FilterStores` | the seven stores above, one at a time | instances of them |
| `MCFilterStores` | values for TLC | `FilterStores` |
| `CreatorRefreshProofs`, `FilterStoresProofs` | theorems about `CreatorRefresh`, and about `FilterStores` and its other stores | the latter has two instances of the former |
| `Feeds` | the feeds, the duplicate cache, the channels to the filter | |
| `Quotes` | quotes of buys and sells on a moving curve | |
| `ExecutionRouter` | plan, profile, receipts and feedback | |
| `TxSender` | tips, channels, the rotation of endpoints | |
| `ExitRules` | prices of a position and the conditions to sell it | |
| `RuntimeGuard` | the pid file | |
| `Trading` | the six modules above, one at a time | instances of them |
| `MCTrading` | values for TLC | `Trading` |
| `FeedsProofs`, `RuntimeGuardProofs`, `TradingProofs` | theorems about `Feeds`, `RuntimeGuard`, and about `Trading` and its other parts | the latter has instances of the former two |

A module stands for one component with the tasks that share its state. Components that
change each other's state are in one module (`AutoSell`); those that only hand results on
are checked apart, each taking every result the other may hand it: `FilterPipeline` lets a
creator gate end in any way and a profile be found or not, while `CreatorRefresh` and
`AddressSnapshots` show what these ends are worth. `FilterStores` and `Trading` hold
several such modules in one run: the variable `part`, chosen at the start, says which one
moves in a behaviour, and the others keep a fixed state. Their state space is the sum of
the parts', not the product, and a property of the run is a conjunction of properties of
the parts.

### 2.1 `AutoSell`: state and actions against the code

An action is the code of one task between two awaits. Each task is a record with a
program counter `pc` and exactly the locals that survive an await:

| Variable | In the code |
|---|---|
| `pos[m]` | the entry of `AutoSellManager.positions` for mint `m` ("none": no entry) |
| `age[m]` | seconds since the buy signal, standing for `held_seconds()` and for the confirmer's elapsed time |
| `buyer[m]` | how far `execute_buy` has come |
| `confirmer[m]` | `spawn_confirm_task`: polling, found a balance, done; `signature` is `signature_confirmed` |
| `fallback` | `start_fallback_monitor`: the keys left to visit, the mint whose balance it reads, what it saw |
| `monitor` | `start_grpc_monitor`: between checking a position and sending the signal |
| `signals` | the unbounded channel to the executor |
| `seller` | `handle_sell_signal`: the clone's state (`previous`), the sale's `amount`, `left` = `expected_after_balance`, the attempts made |
| `wedged` | the mint whose entry is locked by a task that waits for itself |
| `ata`, `tracked` | `AtaBalanceCache`, the mints whose accounts are followed |
| `buyTx`, `bought`, `wallet`, `sellTxs` | the chain: what became of the buy, what it bought, the token account, the sales that may yet land |

| Actions | Code |
|---|---|
| `BuySignal`, `SendBuy`, `SendBuyFails`, `AddPosition` | the buy loop tracks the accounts and spawns `execute_buy`; the send, its failures, and `add_position` with `mark_submitted`, `mark_confirming`, the save and the spawning of the confirmer |
| `ConfirmerSeesCache`, `ConfirmerPolls`, `ConfirmerSeesFailure`, `ConfirmerGivesUp`, `ConfirmerReadsTransaction`, `ConfirmSuccess` | the ways one round of the polling loop may end, the `getTransaction` fallback, `confirm_success` and `confirm_failed` |
| `MonitorChecks`, `MonitorEmits`, `MonitorPanics` | a price update meets a position; the second look-up of the entry before the signal is sent, which panics when the entry has been swept |
| `FallbackWakes`, `FallbackChecksBuy`, `FallbackReadsBalance`, `FallbackConfirmsBuy`, `FallbackFailsBuy`, `FallbackEmits`, `FallbackSkips`, `FallbackSweeps` | one round of the fallback monitor, key by key |
| `SellerTakes`, `SellerSizes`, `SellerSends`, `SellerCannotSend`, `SellerConfirms`, `SellerTimesOut`, `SellerExhausted`, `SellerSucceeds`, `SellerFails` | `handle_sell_signal` from the signal to the clean-up |
| `LandBuy`, `FailBuy`, `LandSell`, `ExpireSell`, `AtaUpdate`, `Tick` | the chain, the account updates, time |

Abstractions, and why they are sound for what is checked:

* *Prices are left out.* Whether an exit condition holds is a free choice whenever the
  code would evaluate one (`ExitDue`); only expiry by age is exact. Every price history
  is thereby covered. `ExitRules` has the prices and leaves out the rest.
* *Amounts are 0..MaxTokens.* The program compares, subtracts and takes minima.
* *A mint is bought at most once*, seconds after its creation, so the balance before
  the buy is 0. A token is created once, and `Feeds` shows that its creation is
  forwarded once; the filter would admit a mint again, and `FilterPipeline` lets it.
* *Every mint has a shard of its own* in the DashMap. With fewer shards a wedged entry
  would block more tasks, never fewer.
* *The balance read and `mark_selling` are one step* (`SellerSizes`), as are the clone
  and the relock of the fallback monitor's expiry check: no await lies between them, but
  another thread may act there. The steps between clone and sizing are separate, which
  is where the code awaits.
* *Account updates deliver the balance of the moment they are handled*; that the cache
  may lag behind by any time is modelled, that an older value may follow a newer one
  is not (one stream delivers in order).
* *Not reachable from `main`, not modelled:* follow-selling by the copied wallet,
  `handle_partial_sell`, the consensus engine, loading saved positions.

### 2.2 `AccountSubscriber`

Here an action is one operation on one map, as the tasks run on several threads and no
lock spans two maps. `routed` is `bonding_curve_to_mint` with `ata_to_mint`;
`subscribed` is `subscribed_accounts`; `permit` is tokio's `Notify`; `cached` says who
wrote a cache entry; `stream` has the locals of `subscribe`: the list last taken, the
server's filter, `last_subscribed_count`, and the entry whose lock
`handle_account_update` holds while it stores an update. `Track`/`Route`/
`SubscribeAccount`/`Notify` are `track_bonding_curve` followed by `track_ata`;
`Untrack`/`Unroute`/`Unsubscribe`/`ForgetCurve` are `cleanup_mint_if_unused` with
`untrack_mint`; `Check` to `Store` are `subscribe` and the loop in `main.rs` that calls
it again two seconds after it ends. `Prefetched` is the RPC read of the curve that
`main.rs` starts for an uncached mint and that may answer after the mint is gone.

The list of tracked accounts is taken in one step (the code iterates the map; two
accounts of one mint are adjacent in time and the next timer tick corrects a list that
missed one). A request with an empty list is modelled as an empty filter; a server may
read it otherwise. Updates still buffered on a connection whose request side has failed
are left out.

### 2.3 The filter's event loop: `FilterPipeline` and `Gate3`

An action is what the loop does with one event, from `select!` to `select!`; it never
awaits a task it has spawned. The tasks are counted: `gating[m]` creator gates,
`scoring[m]` score tasks, `fetching[<<m, b>>]` profile fetches, all under way for a mint.

| Variable | In the code |
|---|---|
| `candidates[m]` | `HashMap<Pubkey, ActiveCandidate>`: status, buys, the known and pending buyers' profiles, age |
| `hot` | the hot lists: wallets, funders, blocked wallets |
| `signals` | the bounded channel to the buy loop |
| `running`, `open` | the filter's loop has not returned; the buy loop still receives |
| `counts` | history: admissions, outcomes, signals and passes per mint |

| Actions | Code |
|---|---|
| `AdmitKnownCreator`, `RejectKnownCreator`, `AdmitForGate`, `AdmitFails` | a gate-1 pass: the creator's stored profile decides, or a slow gate is spawned, or a database error ends the loop |
| `CreatorGateResolved` | the slow gate answers: pass with a profile, or reject |
| `BuyEvent` | a buy, new or known by its signature from the other feed, perhaps stamped before the creation |
| `BuyerProfileResolved` | a buyer's profile arrives, or is not found |
| `ScoredRejected`, `ScoredPassed` | the score task ends; a pass waits for room in the channel |
| `Sweep`, `Elapse` | the tick: time-outs and candidates that became ready |
| `Reload`, `TakeSignal`, `BuyLoopEnds` | hot lists are reloaded; the buy loop takes a signal, or ends |

What the handlers of buys and profiles end with (`should_finalize` and the spawning of the
score task) is the operator `Settle`; `Evaluate` is `evaluate_candidate_after_buy` around it. `Gate3` has the statistics that decide: which buys count, the triggers of the
fast, soft and full window, the rejects for the creator's own and his cluster's buys, for
concentration, for too many buys and for lateness.

### 2.4 The filter's stores

* **`CreatorRefresh`.** A call of the gate (`calls[t]`) goes from memory to database to
  cooldown to in-flight set to permit to in-flight set again; a worker (`workers[t]`) goes
  on although its caller has timed out, writes the row, then memory (twice, when the creator is
  not turned away early: `Cache`, `CacheResult`), clears the cooldown and leaves
  the in-flight set. A profile is the time it was fetched at; from `BadFrom` on it says
  that its creator launches too much. A failed read of the database gives no row (`Read`), and
  without a key to Helius (`apiKey`) the gate lets pass what it has found. The loop's fast
  look before it spawns a gate (`creator_gate_local_fast_result`) makes the gate's first three
  look-ups and decides nothing else, so it is a gate that ends there.
* **`AddressSnapshots`.** A stale snapshot is answered at once and refreshed behind; Helius
  fails over to RPC, which knows no funder, and a 429 starts a cooldown. `Merged` is the
  upsert that keeps a known funder in this table; the rows of creators and buyers take the
  answer as it is (`EntityGraph`). A failed read gives no row here too.
* **`Gate1`.** The sliding window of launches and the count of template uses; the count goes
  through a queue to the database, and a restart reads it back.
* **`Scoring`.** One candidate: its creator's profile is judged early and, when that
  passes, by gate 2's rules and his funder's entity; the evidence may grow (`Grow` adds a
  better piece) before gate 4 scores it. Thresholds are the code's; amounts take values on
  both sides of each.
* **`FilterRecords`.** The two rows of a mint, merged from outcomes that several tasks
  write in any order, before and after a restart, each with the stages it has reached.
* **`EntityGraph`.** The persist worker's three statements for one funded wallet after a read of the
  funder, each of which may fail, and the backfill at a start. A wallet resolved again while
  Helius does not answer replaces the funder in its row by NULL (`ResolveUnfunded`).
* **`NarrativeTerms`.** One refresh: collect each source, replace each source's rows, write
  the file, reload; a crash between any two, and inside the file's write.

### 2.5 Around the filter and the table

* **`Feeds`.** One task per feed; the clock is read before the cache's lock is taken
  (`at`), the channels are bounded, a creation waits and a buy is dropped. A feed that
  connects again is one that delivers nothing for a while. `MaxLag` and
  `MaxWait` say how far apart the feeds and the two readings of the clock may be.
* **`Quotes`.** The curve moves between the quote and the landing; without a cached curve
  the reserves are guessed from the followed transaction (`TargetCurve`). What the program on
  chain charges (`CostOf`) is external: the constant product, rounded up.
* **`ExecutionRouter`.** Receipts are `submitted`, `success` or `failure`; the task that
  computes the feedback runs at any time, so a buy may act on an old one.
* **`TxSender`.** A send is the steps of its requests, interleaved with other sends at the
  shared counter; `posted` remembers every request.
* **`ExitRules`.** The update task works off a queue of prices and may be behind the
  cached price the monitor reads; the confirmer resets the entry price, and a later task of
  its own corrects it. There is one monitor for all positions: when it looks up a buy that
  has landed unconfirmed, this one or another, it waits for ever for its own lock (`wedged`, as the
  run `AutoSell_wedge` shows). From then on no position is looked at, and one in the locked
  shard is not changed by anybody.
* **`RuntimeGuard`.** `Start`, `Create`, `Write`, `Check`, `Remove`, `Exit` and a `Crash`
  at any step; pids are never used twice. This is the Linux build, which looks a pid up in
  `/proc`; elsewhere a file with a pid is never found stale (`main.rs` 387-391).

## 3. Runs

| Run | Question | Result |
|---|---|---|
| `AutoSell_any` | one position, every order, RPC calls may fail and answer late: types, `OpenIsTracked`, `HeldOnlyIfBought`, `ClosedStaysClosed` | holds, 1.5 million states |
| `AutoSell_reliable` | RPC calls may be late but do not fail, buys bring less than estimated: `ClosedMeansSold`, `SellingReleased` | holds, 1.2 million states |
| `AutoSell_timely` | buys land at once, calls answer in time: `HeldTokensManaged`, the refinement of `Lifecycle`, `SellAttemptEnds`, `HeldTokensSold` | holds, 13 000 states |
| `AutoSell_two` | two positions, one executor: `SellingReleased` | holds, 3 million states |
| `AutoSell_rpcerror` | `ClosedMeansSold` when RPC calls may fail | violated |
| `AutoSell_orphan` | `HeldTokensManaged` when a buy may land late | violated |
| `AutoSell_wedge` | `FallbackConfirms`: a buy the fallback monitor has seen becomes active | violated |
| `Subscriber_untrack` | two mints come and go: `CurveForgotten`, `NewAccountsNoticed` | holds, 698 000 states |
| `Subscriber_track` | accounts are only added: `AccountsStreamed` | holds, 44 000 states |
| `Filter_loop` | a mint admitted twice, two buyers, any task order, database failures, hot lists that change, the buy loop ending | holds, 66 000 states |
| `Filter_stores` | the seven stores, one at a time | holds, 359 000 states |
| `Trading` | feeds, quotes, routes, sends, exits and the guard, one at a time | holds, 298 000 states |

The violated runs state what a comment or the program's README says of the code; the
findings quote the lines and say which interleaving refutes them:

1. An RPC error while a sale is awaited reads as an empty account: the position is
   closed with its tokens unsold (`tx/sell_executor.rs:334`).
2. A buy that lands after it was written off belongs to no position and is never sold
   (`tx/confirm.rs:492`).
3. The fallback monitor iterates the table under its own write guard: it stops for ever
   at the very buy it should confirm, and every later save hangs with it
   (`autosell/manager.rs:358`).

Each property of a passing run has a mutant: a plausible mistake in one definition
(`...Unseen`, `...Always`, `...AtOnce` and so on, each defined just before the
definition it replaces) under which TLC finds that property violated.

What those properties say whose name does not:

| Property | Says |
|---|---|
| `SellingReleased` | the executor leaves a position `Selling` only by a partial sale of more than the amount the confirmer has set since, of a position it took unconfirmed; an `Active` one never; and only he brings one there |
| `NewAccountsNoticed` | a stream that sees no need to resubscribe misses as many tracked accounts as it still follows untracked ones: none, when nothing was untracked since its last request |
| `TasksMatchStatus` | a pending candidate has exactly its creator gate, a finalizing one exactly its score task, and an active one none; what is pending is being fetched: so a result that names only a mint never meets another admission of it |
| `Accounted` | every admission ends in exactly one outcome, every pass in one signal |
| `CloneIsCurrent` | what a score task works on is what the candidate still holds |
| `ReadyIsScored` | no step leaves a candidate that is ready without a score task, other than a reload of the hot lists |
| `CandidateLeaves` | every candidate leaves, or the loop has ended |
| `OneRefreshAtATime` | no creator or wallet is refreshed twice at a time; permits are conserved |
| `MemoryBehindStore` | memory is not ahead of the database, unless a task is on its way there |
| `KnownBadStopped` | a creator the database knows as bad does not pass, however the refresh ends, unless the gate has no key to Helius or its last read of the database failed |
| `LaunchesLimited` | no factory's token passes, and fewer from one template than the limit |
| `RecordsMerge` | rows hold the last of the best outcomes, and no stage before an earlier one |
| `CountCoversBuyers` | until a statement fails, a funder is never taken for smaller than he is known to be, but by the buyers whose stored profile has lost its funder |
| `TierJustified` | a term that memory calls confirmed has been found on chain in time |
| `ScoringConsistent` | an early verdict is repeated from the stored profile, warnings rest on a count, the narrative bonus is exactly the capped one, penalties cost quality at most |
| `NothingForgotten` | profiles, first funders, template counts, funders' counts and terms are not lost or lowered |
| `RefreshEnds` | nobody stays in flight |
| `EvidenceHelps` | a better piece of evidence never turns away a candidate that would have passed |
| `ForwardedOnce` | one feed only finds an event new; a feed's own buy does not overtake its token |
| `TokensReachFilter` | a token found new reaches the filter, however full the channel |
| `TipsMatchChannels` | what pays 0slot goes there and nowhere else, Jito gets what pays it, the relay gets bundles only; all channels are tried; bundles change endpoints |
| `FailuresEscalate` | one more failure lowers no fee and no tip and gives up no channel |
| `QuotesSound` | a quote asks for what its amount can pay, guessed or not; a round trip gains nothing |
| `OneInstance` | one process runs, its pid is in the file, and one is refused only while another runs, as long as starts do not overlap |
| `BreachSignalled` | a position past its stop, its target or its time is offered for sale without further trades, unless the one monitor has stopped for ever |

### 3.1 Bounds, and why they are enough

* **Mints.** One mint in most runs: the tasks meet on an entry, and distinct entries
  share only the executor, the queue and the monitors. `AutoSell_two` has two, for what
  they share. The subscriber has two mints, four accounts: enough for one to be
  untracked while the other is tracked, which is the case where sizes deceive.
* **MaxTokens = 1, 2 or 3.** With 2, a position with an estimate below, equal to and above the
  amount bought, and a partial sale (some left, some sold). With 3 (`AutoSell_reliable`), also a
  partial sale by an estimate that is above the amount confirmed meanwhile: it is refused, and
  `SellingReleased` says when. With 1 (`AutoSell_two`) no sale is partial; that run is about
  the executor between two positions.
* **MaxSellRetries = 2** (3 in the code): a first sale and a retry may both land.
* **MaxSignals = 1 or 2**: one signal waiting while one is acted on, and two monitors
  signalling the same position. The code's channel is unbounded; a longer queue adds
  repetitions of signals that are skipped alike.
* **Ticks.** Only the order of deadlines and their meeting with late answers matters:
  `ConfirmTimeout` (5 s) < `ConfirmDeadline` (10 s) < `Retention` (60 s) <
  `MaxHold` (120 s) become 2 < 3 <= 3 < 4; `AutoSell_any` takes them closer together,
  1, 2, 2, 1, so that expiry may also come before confirmation, as
  `MAX_HOLD_SECONDS` is configurable. Ages stop at `MaxAge`, at or above all
  deadlines.
* **LandBy, Prompt, RpcErrors** are the circumstances of a run: until what age a buy
  may land, whether calls answer within a tick, whether they may fail. The worst of all
  is `AutoSell_any`. `LandBy = 0` with `Prompt` is the ordinary case in which a buy lands
  within a second.

* **`Filter_loop`.** One mint, since candidates meet only in the channel; two admissions,
  for a result of the first to meet the second; two buyers, one hot by himself and one by
  his funder, and one buy each, which is enough for a trigger to be completed by a buy, by
  a profile or by the gate. Three units of time: fast window, soft window, too late. A
  channel with room for one signal.
* **`Filter_stores`.** Two gates of one creator, with two permits and with one: a refresh
  overtaken by another, and a gate that waits for the other's permit. Three look-ups of
  one wallet, one to fill the cache and two to find it stale. Three launches from one
  template with a limit of two. Two outcomes of one mint, three wallets of one funder, one
  term, and at most one restart each: rows of other mints, funders and terms are other rows.
* **`Trading`.** Two feeds, two tokens and one buy over channels of one place: each is
  full when the next event comes. Three sends, the least for a bundle to follow one that
  took two turns. Six receipts, two more than the four below which there is no feedback.
  A curve of 4 to 20, where every division rounds. Two processes and four starts. Prices
  2 to 4, which meet each percentage exactly.

`CHECK_DEADLOCK FALSE` everywhere: when every position has left the table, or every
event has come, and time has reached its bound, nothing is left to happen.

### 3.2 Fairness

`AutoSell!FairSpec`: weak fairness of every task the runtime has spawned (tokio polls
ready tasks), of time, and of the steps of a buy once begun. Strong fairness of
`SellerSends` (building and sending a sale does not fail for ever) and of `LandSell` (a
sale sent again and again is included in the end) are assumptions on the network,
without which `HeldTokensSold` cannot hold. Nothing is assumed of buy signals, price
updates, account updates or of buys landing.

`AccountSubscriber!FairSpec`: a track that has begun ends; the subscriber runs; a broken
connection ends. Strong fairness of `Connect` (the server is reachable again and again)
and of `Resubscribe` (`select!` picks its ready branches at random, so a stream of
updates does not starve the timer).

`FilterPipeline!FairSpec`: time passes, gates and score tasks end since every call they
make has a time-out, the loop gets round to its timer, and the buy loop takes signals. Nothing is
assumed of creations, buys, profiles or reloads. `FilterStores`: a refresh goes on until
it is done, again by the time-outs of its requests. `Trading`: a feed goes on with the
event it handles, the filter takes from its channels, and the monitor's loop goes on until it
waits for itself: its action is disabled from then on, and fairness asks nothing of it.

### 3.3 Limits of the code that the models show or leave out

These are not findings: no comment or document says otherwise. They are listed for whoever
changes the code.

Positions and subscriptions:

* A sale that lands after the executor gave up leaves an `Active` position without
  tokens, which is signalled and skipped for ever (`tx/sell_executor.rs` 394).
* A sale sized by the estimate, while the confirmer lowers the amount, is refused as a
  partial sale: the position stays `Selling` (`autosell/position.rs` 288). `SellingReleased`
  says that this is the only way.
* A mint untracked and another tracked between two ticks leave the number of accounts
  unchanged: the new accounts are not streamed (`grpc/account_subscriber.rs` 283).
  `NewAccountsNoticed` says that this exchange is the only way; `AccountsStreamed` is checked
  where nothing is untracked.
* Once the fallback monitor waits for itself, no position is sold for its age or for its
  price without a trade (`autosell/manager.rs` 354-368): `BreachSignalled` says "unless it has
  stopped", and the position that stopped it stays `Confirming`, past `MAX_HOLD_SECONDS`.
* Saved positions are never loaded; the first save after a restart overwrites them, and
  concurrent saves may store an older list over a newer one (`autosell/persistence.rs`).
* The entry price is set to the cached price at confirmation: a drop before it does not
  count against the stop.

The filter:

* A buy that overtakes its token's creation, or comes while its candidate is scored, is lost.
* A database error in the creator gate's fast path ends the event loop (`filter/engine.rs` 900).
* A creator the database knows as bad passes without a key to Helius (1701-1722), and when a
  read of the database fails (`.ok().flatten()`, 2177-2197).
* The rows of creators and buyers take a refetched profile as it is: when RPC answered in Helius'
  place, `first_funder` becomes NULL (`filter/db.rs` 340-347, 396-400), and the next backfill
  counts fewer buyers for the funder. Only `address_snapshots` keeps a known funder.
* A curve or quality that could not be fetched reads as 0.
* Gate 4's score never turns a candidate away, only the single-buyer filter does; with the default
  settings its test for risk is always met. A second buyer with the same funder can lower the score.
* A narrative source that fails empties its rows; a crash inside the file's write leaves
  it empty. The bounded persist queues drop work.
* No caller: `record_candidate_outcome`, post-trade tracking, candidate analytics and
  launch edges of `filter/engine.rs`; `scanner/failover.rs`; `consensus/`; deshred; catch-up replay; the backrun.

Around them:

* A buy found new and dropped for want of room is lost although the other feed delivers it
  again; a buy may overtake its token's creation across feeds; the reconnect delay of the
  legacy feed loop is never reset (`scanner/geyser.rs` 396-438).
* With the six default endpoints a fan-out advances the counter by three and a plain send by
  two, so equal sends see only some of them; the relay may never come up. With `n` overlapping sends
  the counter may move by `n + 1` between two bundles, so from five sends on two bundles in a row may
  go to the same endpoint; `TipsMatchChannels` is proved, and checked, below that. A sell that Jupiter has built is posted to Jito without a tip.
* The comment above `buy_from_target_instruction` (`processor/pumpfun.rs` 884-885) gives a
  linear formula; the code computes on the curve.
* A fan-out whose requests all time out is recorded as failed although it may land: then no
  position is opened for it. A 0slot transaction pays the group's `tip_buy_lamports`.
* A buy sent to Jito counts as a success before it is accepted, so that the highest boost
  is reached by failures before the sending only.
* Two starts of the program that overlap may both run; a restart under the pid the stale file
  holds (a container) is refused for ever.

## 4. Proofs

TLC shows a property on one small instance; the theorems below hold for every number of
mints, tasks, wallets, endpoints and receipts, and every value of the amounts, limits and
timeouts that the named assumptions allow. Each invariant of a passing run is stated by a
theorem, and so is each action property.

### 4.1 Theorems

Theorems named `...TypeCorrect` and `GuardTypes` say `Spec => []TypeOK` and are left out.

| Theorem | States |
|---|---|
| `AutoSellProofs` | |
| `EvidenceHolds` | the inductive invariant `Evidence` |
| `HeldOnlyIfBoughtHolds` | a position is a holding only if its buy landed |
| `OpenIsTrackedHolds` | an open position keeps its subscription |
| `ClosedStaysClosedHolds` | no step reopens a closed position |
| `SoldEvidenceHolds`, `ClosedMeansSoldHolds` | closed means sold, where RPC calls do not fail |
| `CloneKeptHolds`, `SellingReleasedHolds` | the executor leaves a position `Selling` only by a refused partial sale; no hypotheses |
| `OrderlyHolds` | confirmation comes before sale, under 4.2 (a) |
| `TimelyHolds`, `HeldTokensManagedHolds` | tokens in the wallet have somebody who will sell them, under 4.2 (b) |
| `FollowsLifecycleHolds` | refinement: every step is a step of `Lifecycle` or none, under 4.2 (b) |
| `AccountSubscriberProofs` | |
| `CurveForgottenHolds` | no streamed curve outlives `untrack_mint` |
| `NewAccountsNoticedHolds` | what comparing sizes misses is exchanged for what was untracked |
| `FilterPipelineProofs` | |
| `TasksAlwaysMatchStatus`, `OutcomesAccounted`, `CloneStaysCurrent` | the run's invariants, from `Inv` |
| `ReadyIsAlwaysScored` | no step but a reload of the hot lists leaves a ready candidate unscored |
| `CreatorRefreshProofs` | |
| `RefreshInvHolds` | the inductive invariant of the gate's tasks |
| `PermitsConservedHolds`, `OneRefreshInFlightHolds` | no permit is lost, one refresh of a creator at a time |
| `MemoryBehindStoreHolds`, `KnownBadStoppedHolds`, `StoredGrowsHolds` | what memory, the gate and the row are worth |
| `FilterStoresProofs` | |
| `StoresInvHolds` | the inductive invariants of the other six stores |
| `OneRefreshAtATimeHolds`, `MemoryBehindStoreHolds`, `KnownBadStoppedHolds` | creators and wallets together |
| `LaunchesLimitedHolds`, `RecordsMergeHolds`, `CountCoversBuyersHolds`, `TierJustifiedHolds`, `ScoringConsistentHolds` | the run's invariants, store by store |
| `NothingForgottenHolds`, `EvidenceHelpsHolds` | the run's action properties |
| `RuntimeGuardProofs` | |
| `GuardInvHolds`, `OneInstanceHolds`, `RefusedForAnotherHolds` | the pid file, as long as starts do not overlap |
| `FeedsProofs` | |
| `FeedInvHolds`, `ForwardedOnceHolds`, `OrderKeptHolds` | the duplicate cache, for any number of feeds |
| `TradingProofs` | |
| `ForwardedOnceHolds`, `OneInstanceHolds` | the feeds and the guard in the composition |
| `TipsMatchChannelsHolds` | channels, tips, and the spreading of bundles |
| `FailuresEscalateHolds` | a failure more, whatever the window holds |
| `QuotesSoundHolds` | the integer arithmetic of the quotes, for reserves of any size |

### 4.2 Assumptions

Those on constants are named `ASSUME`s of the modules that declare them; TLC evaluates each
on the values of a run. Most say that a bound is a number. The others:

* `AutoSell` under (a): `RpcErrors = FALSE`, `Prompt` (calls answer within a tick) and
  `LandBy + 2 <= MaxHold` (a buy has landed or never will before its position expires);
  (b): also `LandBy + 2 <= ConfirmTimeout` and `LandBy < ConfirmDeadline`. They are
  hypotheses of the theorems named in 4.1, not of the module, and the run
  `AutoSell_timely` meets them. `AutoSell_rpcerror` shows what happens without the first,
  `AutoSell_orphan` without the last two; where confirmation is late, a position may go to
  sale under an estimate above what was bought (section 3.3).
* `FeedsAssumption`: an event's copies come within `MaxLag`, and with more than two feeds also
  the wait between clock and lock, of what the cache keeps (120 s in the code). With two feeds nothing comes after the second copy; with
  more, that copy may set the key's time back by the wait.
* `LaunchesAssumption`: a template is tolerated once at least.
* `SpreadAssumption`: endpoints are distinct, and more by two than overlapping sends.
* `QuotesAssumption`: a new curve has reserves. `StartSol` is the protocol's constant that the
  code also knows, and the curve falls back to no less.

### 4.3 Arguments

**`AutoSell`.** The safety properties speak of the table, but what a step writes there
depends on what its task read long before. `Evidence` says what these locals are worth:

* `BuyEvidence`: whatever looks like tokens (a cached balance, a confirmed signature, a
  balance found) exists only once the buy has landed, and landing is never undone;
* `SubscribedFirst`: a mint is followed from before its position exists until it is no
  longer open;
* `SellerEvidence`: a state the executor remembers as a holding still proves that the
  buy landed; it never remembers `Closed` while it sells; and only the executor closes,
  so the position it is selling is not closed behind its back. This is why restoring a
  stale state (`restore_after_sell_attempt` looks at nothing) cannot reopen a closed
  position.

`SellingReleased` needs what a clone is still worth when the sale it sized is over
(`CloneKept`): only the confirmer changes the amount of a position that may be sold, and only of an
unconfirmed one; so a sale of an `Active` position is never larger than the position, however
late it is, and `apply_partial_sell` accepts it. `Fate` lists what the other tasks
may do to a position, one lemma for all of them.

For `ClosedMeansSold` `SaleEvidence` adds what fails when RPC errors read as 0: a cached
balance is never below the wallet's (tokens only leave it), so a balance at or below
`expected_after_balance` means that no more than that is left.

`Orderly` orders confirmation before sale. A poll completes in every tick, so a landed buy
is confirmed one tick after `LandBy` (`SoonConfirmed`); a sale is asked for later than that
(`WantedConfirmed`); so the amount the executor goes by is the position's own
(`SaleBelieved`), the sale is never partial, and the attempt leaves `Selling`. What locks the
table for ever is the fallback monitor waiting for itself, and nothing else
(`WedgedByFallback`). `Timely` adds the converse: what the fallback monitor finds unconfirmed
late is dead (`CheckedIsDead`, `Answered`), so it never comes to wait for itself, and a buy
that may yet land has a position to land in (`Expected`). With `Timely` each change of a
position's state is one of `Lifecycle`'s arrows: the refinement is one step lemma per action.

**`AccountSubscriber`.** `Tidy`: an update is stored under the lock of its entry of
`subscribed_accounts`, so what is stored is tracked, and `untrack_mint` forgets the curve after
it has removed that entry; a curve read by RPC escapes this, which is why the property speaks
of streamed ones. `InStep`: the number the timer compares with is the size of the list the server
follows, on every connection and after every request; two finite sets of one size miss as many
of each other's members (`SameSize`).

**`FilterPipeline`.** `TasksMatchStatus` is nearly inductive: a task's end and the status it
ends are one step of the loop. Several handlers end in `Settle`, which starts the score task,
so lemmas say what it does to a candidate that keeps its place. `Accounted` and
`CloneIsCurrent` rest on it: no outcome without the one task that brings it, no buy counted
while that task runs.

**`CreatorRefresh` and the other stores.** `RefreshInv` ties a task's step to the in-flight set
and the permits: those taken are exactly those of the tasks at a step that holds one
(`Holding`), and the creator in flight is that of exactly one of them (`OneEach`), although a
gate looks at the set twice. Each look-up of a snapshot has the same argument with its
two tasks (`LookupsPlaced`, `OneWorking`), and `NewerIsBrought` says who will bring memory
what is only stored. `LaunchInv` relates the counts of a template in memory, in the queue and in the database: what
has passed is covered by the count in memory and what a restart has lost (`PassesCounted`,
`StoredBehind`), and every launch still in the window is counted there by itself
(`WindowsCover`). `GraphInv` does so for a funder's
count, which may be above what is linked but not below (`LinksCounted`, `BuyersCovered`).
`TermsInv` says of a term that rows or memory call confirmed that it was seen on chain
not longer ago, at the time of the row or of the reload, than a confirmation lives. `RecordsInv` orders the stages; `ScoresInv` keeps what the early
verdict was based on.

`FilterStores` has `CreatorRefresh` twice, with as many permits as gates and with fewer; a
behaviour is one of the first or of the second, and of every other store with stuttering.

**`RuntimeGuard`.** `NamedByFile`: a process that is starting is the only one; what it does to
the file depends on the step alone; and what runs is what the file names.

**`Feeds`.** `Once`: an event is found new by one feed, which has received it, and while a copy may
still come the cache holds its key, at a time that the time to live covers. `InOrder`: what a
feed has found new it has handed on or is handing on, and of a buy and its token, both found
new by one feed, the token is handed on first.

**`Trading`.** Three parts are proved where they are composed:

* *Quotes.* `CurveInv`: the product of the reserves never falls below that of a new curve, since
  every rounding favours the curve (`Given`, `Charged`, `Paid`). So the reserve of SOL is
  never below the start's, the guess from the followed transaction is never better than the
  curve that its sender saw (`GuessedTokens`, `GuessedLow`), and what a buy asks for its
  amount pays. `RoundTripLoses` follows from `Charged` and `Paid`.
* *Router.* Types are inductive; for every log, `OneMoreFailure` compares counts, streak
  and rate with those of the log before it, and `BoostGrows`, `TierGrows` and `CombinedGrows`
  carry the order through the thresholds.
* *Sender.* `Delivered`: the channels tried for a send are those of its plan up to its step.
  `SpreadInv`: since the last bundle the counter has moved by what that bundle took and by one
  for each send that has ended since; the send of the next bundle is not among them. Counters
  closer than the number of endpoints choose different ones (`Remainders`).

What such a proof needs of a sequence without induction is written so that it can be used:
`TxUrls` numbers the endpoints it keeps by their rank, and the streak is a set of positions. Where an
induction over numbers is wanted, the least number with a property is taken instead
(`Least`, from the library's theorem that `<` is well-founded on `Nat`).

### 4.4 Only model-checked

The liveness properties: `SellAttemptEnds`, `HeldTokensSold`, `AccountsStreamed`,
`CandidateLeaves`, `RefreshEnds`, `TokensReachFilter`, `BreachSignalled`. They rest on fairness, for which
the prover would have to reason about `ENABLED`. And the violated runs, which are
counterexamples.

## 5. Plan

Modelling follows the running program from end to end, and what the runs check of safety is
proved. What would say more:

1. `AutoSell` under (b) without `Prompt`: `HeldTokensManaged` when polls may take several
   ticks, with a bound on their number in place of one tick.
2. The steps that a liveness proof would combine, as action theorems: a sale attempt's
   counter grows with every retry, and the executor has an enabled step wherever `Orderly`
   holds and the table is free.
3. `FilterPipeline`: that the gate's answer which `FilterPipeline` leaves free is one that
   `CreatorRefresh` gives, as a refinement with the gate's tasks.
4. `EntityGraph` with two workers, if the persist queue ever gets a second one.

## 6. Not modelled

* *No caller in the program `main` starts:* the consensus engine, feed failover, the
  legacy wallet subscriber, the legacy feed loop with catch-up and deshred, follow-selling,
  `handle_partial_sell`, post-trade tracking and candidate analytics.
* *Pure formats and I/O:* event decoding, instruction layouts, account lists of the pools, HTTP, SQL
  text, configuration parsing, the Telegram bot (`main` starts it with `TgNotifier::noop()`),
  reports, replay, display prices, deployment scripts. The outcome of a call is all the
  rest of the program sees of them, and it is a free choice in the models.
* *In what is modelled:* `Scoring` leaves out two minor rules (half the penalty for one buyer's share from
  0.80, the penalty for buyers the creator has funded; `filter/risk.rs` 200-207, 223-234).
* *Position persistence* beyond the locks that saving takes: nothing reads the file.
* *Second buys of a mint* in `AutoSell` (section 2.1).
