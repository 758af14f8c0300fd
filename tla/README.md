# Verification of dex-pair-verify

dex-pair-verify collects DEX pools for Unification's OoO oracle network,
judges each pool with a verdict engine, lets operators overrule the engine,
exports the verified pairs to the providers' client (go-ooo), and anchors
hashes of what it published on the Unification mainchain (BEACON).

This directory holds TLA+ modules of its parts, the TLC configurations that
check them, and TLAPS proofs about them. Run from here:

    tlc -workers 2 -config VerdictRunner_siblings.cfg MCVerdictRunner
    tlapm VerdictProofs.tla

`PROJECT.json` maps every definition to the lines it models, lists the runs, the
mutations of the code each property must notice, the hazards and the theorems.

## 1. Inventory

Five processes work on one Postgres database through Prisma and talk to each
other only through it:

- the web server (Next.js): the operators' pages and `pages/api/admin/*`, and
  the providers' API `pages/api/ooo/v1/*`;
- the cron pipeline (`import/pipeline.ts`, twice a week, about three hours):
  ingest, identity, canonical, factory, scam, revalidate, review-enrich;
- the cron health check (`yarn source-health`, every six hours);
- the beacon writer (`worker/beacon-writer`), one instance with a funded key;
- the fulfilment watcher (`worker/fulfilment-watcher`).

Nothing is held across an `await` apart from the single transaction of
`setStatusWhere`: a handler that reads a row, awaits and writes can be
interleaved with any other. The cron jobs exclude themselves with `flock`, and
nothing else.

| Part | State it keeps | Operations | Interacts with | Hard because |
|---|---|---|---|---|
| Verdict engine `lib/verdict.ts`, `fences.ts` | none, pure | fences, `evaluatePair` | called by the runner; mirrored by `pages/p/[id].tsx` | 17 ordered rules over a dozen facts, skipped fences, two copies of the predicates |
| Verdict runner `lib/verdictRunner.ts`, `scamCheck.ts`, `tokenStatus.ts` | `Pair`, `Token` rows | `runVerdictForPair`, scam check, rescore, promotion, demotion | every pass and every form writes the same rows; siblings are read across rows | reads used after awaits, crashes between flag, verdict and demotion |
| Operator forms `pages/api/admin/set*status.ts`, `bulkpairaction.ts` | the same rows | set, bulk, cascade | race the runner | rule R6 is a check of a row read earlier |
| Passes `lib/pipeline.ts`, the pages that drive one pass | `lastChecked`, `verdictAt`, check columns | seven passes, each over the rows that are due | feed the runner | one `now` for a whole pass, drain loops, re-check windows |
| Identity, canonical, factory checks | `CanonicalAddress` cache, back-off columns | resolve, cache, re-judge | passes; ingest overwrites their columns | stale caches, back-off, transient misses |
| Ingest `lib/ingest.ts`, registry `lib/sourceConfig.ts`, discovery, `/add` | `Pair`, `Threshold`, `SupportedSource`, a memo per process | page, refresh, add, promote | adapters; the runner | nothing unique in the schema, a cursor into a list that shifts, a memo of the registry |
| Feed `lib/export.ts`, `pages/api/ooo/v1/export` | none, reads rows | modified-since, export, 304, manifest, catalogue | go-ooo polls | a single time has to tell of every change; two computations of one flag |
| Anchor `lib/anchor.ts`, `merkle*.ts` | a memo per process | snapshot, proof | the feed's watermark, the beacon writer | the memo trusts the watermark |
| Beacon writer `worker/beacon-writer`, `lib/beaconQueue.ts`, `beaconChainState.ts` | queue, anchors, latch; memory | heartbeat, drip, go-live, re-anchor backlog | mainchain; the watcher fills its queue | no atomicity between chain and database, restarts, an upgrade underway |
| Fulfilment watcher `worker/fulfilment-watcher`, `lib/fulfilments.ts` | cursor, history, queue | scan, backfill | EVM router | overlapping scans, a first scan with no place to begin, reorganisations, crashes |
| Source health `lib/sourceHealth.ts` | failure counts | check | manifest, priceable flag | partial records, outages on our own side |
| Provider auth `lib/providerAuth.ts` | challenges, tokens, limiter | challenge, verify, lookup | router contract, feed | single use, concurrent verifies, crash between two writes |
| Price test `pages/api/ooo/v1/prices.ts`, `components/PriceTest`, `lib/stats.ts`, alias groups | cached prices | resolve, fetch, orient, aggregate | subgraphs, pauses | overlapping calls, stale rows, upside-down prices |
| Review triage, pages, sign-in, scripts | mostly none | queries, presentation | | not concurrent |

The properties that make the parts right:

- an operator's settled decision stands, a flagged token's pairs are not left
  trusted, pairs do not vouch one another into the feed (verdict runner);
- a phantom pool does not verify, the ladder of rules is the documented engine,
  better evidence never lowers a verdict, the page shows what the engine used;
- what a source returns is judged on fresh data, what it dropped leaves, an
  ingest that says it is done is done (ingest); every pass ends, the truth
  prevails once sources answer, a revalidation is complete (passes);
- go-ooo is never told "nothing new" when a verdict changed, and catches up; the
  catalogue promises what the feeds deliver (feed);
- a snapshot answered from memory is what the database holds, its root
  determines it, every published leaf verifies (anchor);
- the database never claims more than the chain holds, nothing is recorded
  twice but for a fault, nothing is left without its descriptor, everything is
  recorded in the end (beacon writer);
- the cursor never runs ahead of the work, nothing is recorded from a block that
  may be reorganised away, every fulfilment from the start block on gets its
  receipt (watcher);
- a bad network of ours never empties the manifest; outages are paused and
  recoveries advertised (health);
- a challenge buys one token, access ends with the registration, providers get
  in (authentication);
- the banner does not flatter, prices are the right way up, a minority of bad
  pools carries nothing off (price test).

## 2. Modules

| Module | Models | State and actions |
|---|---|---|
| `PairStatus` | the statuses of `types/types.ts`, the evidence classes, `evaluatePair` on them, and the runner's guard and mapping | operators used by `VerdictRunner` |
| `VerdictRunner` | `verdictRunner.ts`, `scamCheck.ts`, `tokenStatus.ts`, the status handlers | rows are functions of pair or token; a runner has a task (what is left of its job) and a verdict in hand; a verdict is four steps, one per await: `ReadPair`, `Judge`, `Commit`, `Promote`; a form is two, its write and then its promotion or cascade |
| `Verdict` | `verdict.ts`, `fences.ts`, `unseen.ts` | one pair with its facts; the environment changes one fact at a time (`FactsNext`); the verdict is a function of the state |
| `FenceChecklist` | the review page's own copy of the fences and its withheld figures | extends `Verdict` |
| `Passes` | `pipeline.ts`, `recheck.ts`, `identityCheck.ts`, `canonicalCheck.ts`, `factoryCheck.ts`, the pass pages | rows of tokens and pairs with their stored answers; `job[r]` is the pass a runner drives and what is left of it; `Work` is one step of it |
| `Ingest` | `ingest.ts`, the adapters' answers, `sourceConfig.ts`, discovery and promotion, `/ingest`, `/add`, `/thresholds` | `job[r]` is the pipeline's or the page's place at its awaits; `cache` is the web process's memo of the registry; `pairs` is a set of rows with ids, since two may be of one pool |
| `VerifiedFeed` | the watermark, the 304 protocol, go-ooo's poll, and every writer of the two dates | times are *held* (not later than what go-ooo holds) or *later* |
| `Anchor` | `anchor.ts`: watermark, memo, the calls that fill it | `reads[c]` is a call at its await, `memo.missed` a history of writes no watermark shows |
| `Merkle` | `merkle.ts`, `merkleCore.ts`, `merkleVerify.ts` | operators; one variable, the facts committed |
| `Notary` | abstract: a register of hashes that only grows and only takes hashes the service stood behind | `Record` |
| `BeaconWriter` | the beacon writer, its queue, its latch; the chain and its mempool | `pc` is the await the loop stands at; `queue`, `anchors`, `dbLive`, `dbSeeded` are tables; refines `Notary` |
| `FulfilmentWatcher` | the watcher on one network, the network itself | `job[j]` is a scan or backfill at its await; several run at once, once the first pass is over and the `timer` is set; `startBlock` is a block or 0 for none |
| `SourceHealth` | a health check, probe by probe and row by row | `check` is the check in progress, `failures` the column |
| `Publication` | manifest, asset classes, catalogue, thresholds | extends `SourceHealth`; `verified` and `floor` are the rows published |
| `PriceStats` | `stats.ts`: the outlier filters and the mean | operators on functions from pools to prices |
| `PriceTest` | the public and the operator's price pages, the price cache | extends `Publication` and `PriceStats`; `calls` are requests in flight, `page` what is shown |
| `ProviderAuth` | `providerAuth.ts`, `providerRegistry.ts`, `rateLimit.ts`, the v1 handlers | `req[i]` is an instance's request at its await; times are relative |

`MC...` modules give the constants values for TLC; `...Proofs` modules hold the
theorems. Composition: `VerdictRunner` extends `PairStatus`; `FenceChecklist`
extends `Verdict`, and `VerdictProofs` both, so that the engine and the runner
that applies it are proved about together; `BeaconWriter` instantiates `Notary`;
`PriceTest` composes the checks, the published rows and the pages;
`MCAnchor` puts `Merkle` beside `Anchor`. `FulfilmentWatcher` fills the queue
that `BeaconWriter` drains; there the watcher is the action `ReceiptArrives`,
and here the queue is the set `receipts`: the only thing the two share is a
unique index on (stream, hash).

What is abstracted:

- *Verdict runner*: the evidence behind a verdict is one of five classes (reject,
  loser, hold, vouch, clean), which is what the guards and siblings tell apart;
  `Verdict` models the evidence itself.
- *Verdict*: a number matters by the side of a threshold it is on, so constants
  offer values around each; the organicity score is its class; percentages are
  cross-multiplied integers instead of floating point, exact where the code
  rounds.
- *Passes*: the outside world is what is true of a token and of a pool, and
  which sources answer; a unit of time is the re-check window, one pipeline run
  to a window; a stamp is an instant; the reads of one verdict are one step,
  since `VerdictRunner` has them apart, and token statuses are left to it. A
  crash stands for a killed process and for a closed page. "Settled" means that
  GoPlus and Honeypot answer too.
- *Ingest*: an age is a number of windows; a pool's judgement is by reserve, claim
  and going unseen; token rows are not separate from their pairs. Promotions,
  discovery, operators' decisions and the market interleave with the pages. The
  seed has run: baseline sources have their row and their threshold. Pages fetched
  beyond `LastPage` do not exist.
- *Beacon writer*: a leaf's hash is its singleton and a root its set of leaves
  (injective, which `Merkle` checks); `lastRoot`, which only sets the
  `changed=` label, the one-shot modes, which run the same operations, and the
  snapshot memo are left out; both snapshots of a heartbeat are taken in one step.
- *Anchor*: one of the two trees at a time, as their memos share nothing; the
  maintenance flag that forces a rebuild is left out.
- *Watcher*: one network, since networks share only the queue, with or without a
  configured start block; a row of the history is its two sides; block times are
  left out. A start block configured as 0 behaves as 1 does, block 0 being empty.
- *Feed*: times are relative to go-ooo's last download, which is all a poll
  compares; scopes other than one source behave alike.
- *Health*: probes answer up or down; a count at `UnhealthyAfter` stands for
  any larger one, since only the comparison is ever read.
- *Prices*: a pool has one latest price; minutes of history, the trade-count
  threshold, Peirce's criterion and the formatting of addresses and symbols are
  left out. Medians and deviations keep their denominators.
- *Authentication*: the static break-glass tokens, the table of routers and the
  operators' allow-list are left out.

## 3. Runs

| Run | Asks | Bounds, and why they are enough |
|---|---|---|
| `VerdictRunner_siblings` | can siblings vouch for each other without grounds, can a flagged pair or token stay verified? | two siblings on two sources sharing a token row, the pipeline and the operator, no crash; vouching and cascades need exactly two pairs |
| `VerdictRunner_heal` | does the operator's settled decision stand when two runners race; does a flag win in the end? | one pair, one token, two symmetric runners: every race is between two hands on one row; crashes at every step |
| `Verdict_facts` | the ladder, phantoms, the page's mirror, monotone evidence | 5 pools, 4 coins, 3 sources around every threshold, all combinations of check results that matter, and time |
| `Passes_overlap` | does every pass end; is a revalidation complete? | one token, one thin pool; the nightly checks and an operator's ingest or revalidation at once; one change of the threshold |
| `Passes_truth` | do the verified pairs end up those that deserve it? | one token in three worlds, a deep pool, every nightly pass, outages and crashes until the world settles, back-offs of up to two windows |
| `Ingest_registry` | do pools stay fresh, do the gone leave, is an ingest that says done complete? | a pool of our own, malformed, of a seeded source and one of the promoted source that moves off the pages and out of the index, three sources: one with an ingest path is promoted while ingests run, which shifts one without a path and one with, on either page of it, under the operator's cursor; two pages; one change, one fault, one job of the operator's |
| `VerifiedFeed_polls` | is a verdict ever hidden by a 304; does go-ooo catch up? | two pairs, so that one pass writes on both sides of a download; one pass next to the admin's rescans; two decisions |
| `Anchor_memo` | is the memo honest; does a root determine what it commits; do proofs verify? | two pairs, one token, two seconds, two calls at once; the tree over every set of up to five rows, so that each shape of an odd level occurs |
| `BeaconWriter_upgrade` | mirror, repeats, backlog, refinement of `Notary`, everything recorded | two leaves, one receipt, one change of the set, two faults anywhere, an upgrade at any time |
| `FulfilmentWatcher_overlap` | cursor, inventions, receipts | two overlapping scans and a backfill, to the safe block or to the head; with a start block, a chain of three, and without one, of four, so that a block may lie between two first scans; batches of one, one confirmation, two faults |
| `PriceTest_public` | manifest and pauses, catalogue, banner, sides of the price, outliers | three sources (one failing is an outage, two are systemic), five pools, calls of two pages at once, two crashes of a check |
| `ProviderAuth_verifies` | one token per challenge, the end of access, getting in | two instances of one wallet and a stranger without a registration, behind one address; one call to a window of a second, so that one's call refuses the other's; two challenges, lives of two and three seconds, a request of up to one, so that two verifies run at once, one fault |

What the `MC` modules leave out beyond their constants, because the product of
everything would not be explored: `MCIngest` lets nothing change outside while a
page of the operator's works and nothing fail while it verifies or looks on
other chains, starts it with no promotion in flight, starts the pages that add
and the thresholds page while the pipeline rests (it may then start beside
them), and token mode only where it can reach another chain; the only rejection
there is for going unseen, as the rest is the engine's. The thresholds page opens
only while a source lacks its threshold, as it writes nothing else.
`MCFulfilmentWatcher` runs no backfill without a start block, since a backfill
neither reads nor writes the cursor; with one, a backfill to the head reads the
last block alone, begins while no scan is under way, and is the last; a process
dies only with a scan under way. In `MCProviderAuth` the stranger and the steady
instance's sibling do not call at the same time. `MCPriceTest` explores
time and the cache in one market, the other markets within one second and one
query per page, outages of our network only while a subgraph is asked, and the
checks while prices rest; every step is a step of the specification, which the
theorems are about.

Every property of a passing run has a mutation of the code in `PROJECT.json` (a
dropped guard, a swapped order, a missing reset) under which that run fails it.
The mutated forms stand next to the definitions they replace, marked "A fault".
Properties are stated over histories where they need to be: `settled` and
`grounded` in `VerdictRunner`, `vouched` and `repeats` in `BeaconWriter`,
`missed` in `VerifiedFeed` and in `Anchor`'s memo, `torn` in `SourceHealth`,
`from` and `done` in `Ingest`'s jobs, `lapsed` in `ProviderAuth`, `began` (the block
the cursor vouches from) and `hasty` (what backfills to a named block have read)
in `FulfilmentWatcher` record what
happened and are never read by an action.

### Fairness, and why the code justifies it

- *Verdict runner*: the cron job restarts and goes on unless it is killed, and
  is not killed for ever (`FairSpec`); ad-hoc runners and operators owe nothing.
- *Passes, ingest*: the pipeline is scheduled in every window and what runs goes
  on (an awaited call returns or throws, and a page that failed has stopped);
  time passes. Sources owe nothing until the world is said to have settled.
- *Beacon writer*: the loop goes on after every exception (it catches and
  sleeps), a supervisor restarts the process, an awaited transaction is included
  or fails, the interval elapses. Faults are bounded by a constant, so liveness
  says what happens once they cease.
- *Watcher*: the first pass, the interval timer after it, and the awaits of a
  scan. The chain and the operator owe nothing.
- *Feed*: time passes, the pipeline runs again and ingests (strongly fair: it
  may be interrupted but not for ever), a poll is answered now and then.
- *Health*: checks are scheduled and go on unless killed; kills are bounded.
- *Authentication*: a request is answered, and the steady instance calls again; of
  the calls the limiter would allow, it is not for ever the one that comes after
  another has used the window up, nor for ever too slow (strong fairness of
  `AsksInTurn` and `AnswersInTime`). This is assumed of the clients and the
  network: the code gives no one a turn, and with weak fairness alone an instance
  starves behind a busier one. What the code owes is that a window ends although
  refused calls keep coming in. The others may call and stop as they like, but
  for another instance of the same wallet, whose new challenge supersedes the
  one at hand (`Undisturbed`).

### Where the code and its comments disagree

No run asks for a counterexample: what follows was met while modelling. The
definitions named are in the modules and do not hold; TLC shows it if one is
added to a configuration.

1. *A run that read the row before the operator's decision overwrites it*
   (`ManualStatusesStand`; `verdictRunner.ts:255` checks the status it read and
   writes by id several awaits later, 215-216 promise R6).
   `SettledDecisionsStand` is what holds.
2. *With the default liquidity floor of 0 a withheld reserve of 0 passes the
   liquidity fence* and a phantom pool may verify (`PhantomNeverVerified`,
   `verdict.ts:641`). `PhantomHeld` is of a floor above 0.
3. *The go-live latch is set before the seeding*; an exception in between skips
   the seeding until the process restarts (`BacklogIsSeeded`,
   `beacon-writer/index.ts:52-54`).
4. *An operator's decision does not date the row*, so a demotion is answered 304
   until a later pass dates it, and an anchor's memo keeps the old root
   (`DemotionsAreSignalled`, `RootIsCurrent`; `setpairstatus.ts:48`,
   `export.ts:77-78`; `anchor.ts:7-10` says changes always move the watermark).
   A snapshot taken between two writes of a pass stays, too, and a pass with an
   older `now` can lower the watermark.
5. *Nothing makes a Threshold, a Token or a Pair unique* (`schema.prisma:114`,
   195, 318): two ingests that look before either creates leave two rows
   (`OneThresholdPerSource`, "creates once per source", `ingest.ts:196-198`).
   Readers then differ: the catalogue takes the last threshold, others the first.
6. *A refresh of one pool by address withdraws the claim of a full page* that the
   subgraph does not index it (`PhantomsStayOut`, `ingest.ts:168-171`).
7. *The live scam check judges fresh data alone, the rescore cached data*; they
   "can never disagree" (`LiveAndRescoreAgree`, `scamCheck.ts:130-131`) only if
   both are the same.
8. *With no start block a fulfilment may never be recorded*
   (`HistoryHasNoHoles`; "anchors every OoO fulfilment",
   `fulfilment-watcher/index.ts:5`). A first scan then begins at the head it read
   (`index.ts:99`) and the cursor stays 0 until one has saved. If the first pass
   fails halfway, or the timer starts scans before any has saved, the next begins
   at another height, and the blocks in between are read by neither. Hence
   `began`: `NothingMissed` and `EveryFulfilmentIsReceipted` are of what lies at or
   above the place where the last first scan that saved had begun, which is the
   start block where there is one.
9. *A deviation of 0 keeps every price* (`stats.ts:184-195`): where most pools
   agree exactly, an outlier stays. `MinorityIsContained` excludes it.

Others, without a definition of their own:

- R6 protects only `Manual*`: an operator's NotCurrentlyUsable, Duplicate or
  Unverified is judged again (`verdictRunner.ts:239`), and a rejected token's
  new pairs are judged without regard to it.
- Pairs without a canonical key are invisible to the sibling rule
  (`canonical.ts:12-13`); a lone impostor goes to review, not to rejection
  (`verdict.ts:539-540`, 617); bogus decimals reject first-party pairs too
  (`verdict.ts:550-551`).
- "Each distinct hash is anchored exactly once" (`beaconQueue.ts`) up to a crash
  between inclusion and mark (`RepeatsArePaidFor` says once per fault); after
  such a crash `changed=1` is a false flag; a root recorded bare whose row was
  never stored is not re-anchored; a leaf recorded after a failed seeding and a
  restart is seeded although it has a descriptor.
- Overlapping scans move the watcher's cursor backwards; nothing is lost by that
  (`NothingMissed`), as what is passed again is recorded again.
- A backfill with an explicit end ignores the confirmations
  (`fulfilment-watcher/index.ts:155`), against "stay this far behind head" (38): what it
  reads from the last blocks may be reorganised away and stays in the history
  and, if it anchors, in the queue. `NothingInvented` excepts it (`hasty`).
- The health check counts recorded checks only: "in a row" and "until a check
  passes again" (`sourceHealth.ts:8-10`) skip checks judged systemic. The
  catalogue's 304 ignores pauses and changes of thresholds.
- `reviewTier` survives operator writes (`schema.prisma:177-180`); a missed RPC
  read leaves `factoryAddress` null, "read once" (`factoryCheck.ts:7`)
  notwithstanding; `identityCheck` overwrites what it knew on an outage; ingest
  overwrites a back-filled coin id with "" (`ingest.ts:64`).
- The lists' lifetimes are in milliseconds and `now` in seconds
  (`tokenlist.ts`, `resolve.ts`): in a long-lived process a list is kept 1000
  days and a failure 41.
- A pair the operator decided whose pool is gone stays exported and is fetched
  again for ever. A promotion that dies between its two writes leaves an enabled
  source Pending; a promotion does not set the GeckoTerminal names; a registry
  load that fails is remembered (`sourceConfig.ts:82`). A late answer of
  the verification lands in another candidate's form (`sources.tsx:279-326`).
- The public price test drops pools beyond 25 of a source without saying so and
  ignores the pools of a source without thresholds, which go-ooo prices with its
  default. A price is upside-down where the subgraph's symbol is not the stored
  one, both symbols are one, or a coin id has been lost: `Legible`, the
  hypothesis of `RightWayUp`, excludes these.
- Rows with one sort key make the root depend on the database's order, and each is
  published with the preimage of the last of them (`anchor.ts:46`) and the proof of
  the first (`findLeaf`), which then may not verify. `Published` does this; the
  properties are over uniquely keyed rows.

## 4. Proofs

`tlapm` checks every proof of the eight `...Proofs` modules to the last leaf. They
assume what the constants are assumed to be (the `ASSUME`s of each component,
which TLC evaluates on every run) and nothing else; they hold for any number of
pairs, tokens, runners, scans and faults, where the runs fix them. They are about
`Spec` and so about `FairSpec`, which implies it.

**`VerdictProofs`**, the runner:

- `TypeCorrect`.
- `SettledDecisions` (`SettledDecisionsStand`). The property says only what status
  a settled row has. What makes it stay is that no run holds the pair in hand:
  `SettledInv` adds `AtRest`. A run that reads the row later finds it Manual and
  leaves it, and a run that read it earlier would not be at rest.
- `Vouching` (`VouchingIsGrounded`). A sibling is read in one step and relied on
  in another, so the row it was read from may have changed. `VouchInv` adds that
  a run about to write a verified status has grounds of its own or read a
  verified sibling of a grounded key; `GroundsGrow` says that grounds are a
  history and are never lost.
- `FlagsDemote` (`FlaggedTokensDemoted`), of `NoCrashSpec`: a check that flags a
  token stays at work until it has demoted it, whatever other runs promote
  meanwhile.
- `FlaggedQuarantined` (`FlaggedPairsQuarantined`), of `NoCrashSpec` and
  `LoneRunner`, with the pipeline as the only runner. `QuarantineInv` adds that
  the runner is orderly: what it has in hand of a pair's flag is still true of
  the row, and a flagged pair in hand is not about to be AutoVerified. With a
  second runner or a crash both are false for a while, which is why
  `VerdictRunner_heal` says with TLC that the flag wins in the end.

The engine: here the state is a pair's facts and each theorem is a statement about
`evaluatePair` for every value of the facts and of the thresholds (`FactsCorrect`
types them). `Ladder` connects the two levels: the engine's verdict is
`PairStatus!Adjudicate` of its evidence class, so the theorems about the runner
are about this engine. `PhantomsHeld` needs a liquidity floor above 0
(disagreement 2). `Mirrored` compares the page's copy of the fences with the
engine's, and `Announced` (`RejectionsShown`) the hard failures its checklist
shows, with what the engine does: one that is shown
means a rejection, and where the engine rejects automatically there is one, or the
page holds the pair on both identity and liquidity, the one rejection of the
engine (an unidentified thin third-party pool) that no hard fence announces.
`EvidenceHelpsAlways` is an action property, proved over two states of the facts:
each rule that could let a verdict fall is ruled out by the order of the ladder.

**`BeaconWriterProofs`**, for any leaves, receipts, faults and changes of the
published set:

- `TypeCorrect`, with `InFlight`, what the loop holds at each of its awaits.
- `ChainMirrored` (`MirrorsTheChain`): the invariant adds that what is about to be
  marked is on the ledger already.
- `BacklogComplete` (`BacklogIsComplete`). `BacklogInv` follows the latch from
  memory to the database to the seeding: between them the writer is on its way,
  nothing is sent without a descriptor once seeding is done, and the mark is
  only set when all that counts as recorded has been described or queued to be.
- `RepeatsPaidFor` (`RepeatsArePaidFor`). The history alone does not bound
  repeats: a transaction given up may be included later. `PaidInv` counts what is
  still `Owed` against the faults and orders the queue, so that an orphan's row
  comes before whatever was enqueued after it.
- `NotaryImplemented` (`NotaryHolds`), the refinement: initial states map to
  initial states and every step to a `Record` or a stutter, by `StoodInv`: any
  hash on its way to the chain (in a queue row, a stored root, a snapshot, a
  transaction awaited or given up) is one the service stood behind.

**`FulfilmentWatcherProofs`**: `TypeCorrect`, `CursorIsHonest` (`NothingMissed`) and
`RecordsAreFinal` (`NothingInvented`), with a start block or without, by one
inductive invariant of four parts:

- `Kinds`: no scan works to a named block, and no backfill reads or saves the
  cursor.
- `Heights`: no job but a backfill to a named block works above `final`, and neither
  does the cursor. Then `FrozenEvents` gives that what a job has read can be read
  again, whatever is mined or reorganised.
- `AllReal`: the events a job carries come from such blocks, or are `hasty`.
- `Progress`: a scan begins where all from `began` to below it is done (`Passed`),
  and has done the part of its own range its place in `scanChain` says (`Scanned`).
  That is why a slow scan may set the cursor back, or a fast one forward, without
  a gap: whichever saves, everything up to what it saves is done. A first scan
  has nothing done below it; when it saves, `began` moves up to its own
  beginning. `NothingMissed` alone does not say where the scans under way began,
  and is not inductive.

**`IngestProofs`**, for any sources, pools, pages and jobs:

- `TypeCorrect`. The invariant adds that the rows stay finitely many (a new row
  gets an id above all others) and that a job at a step holds what the step
  needs (`Handy`).
- `IngestComplete` (`IngestIsComplete`). The page keeps its place as an index into
  the registry sorted by chain and dex; a promotion shifts what the index means,
  and a crash or reload replaces the registry between two calls. `ReadInv` says
  there is a registry `S` the job has seen, contained in any later one, such that
  what the cursor has passed in `S` is behind (`Between` calls and `Within` one).
  A registry that grows only moves a source to a higher rank (`RankGrows`), so a
  source may be read twice and is never jumped over (`NoGap`); a call that
  answers "done" works at the last rank.

**`ProviderAuthProofs`**: `TypeCorrect` (with `Room`: a name is left for each
challenge asked for), `OneTokenEach` (`OneTokenPerChallenge`) and `AccessEnds`
(`AccessLapses`). `Spent` says that a challenge is consumed before its token
exists, that no two requests are about to issue for the same one and none for one
whose token was issued; `Recent` bounds, by the age of a request between
its registry check and its issue, how long ago the wallet may have left.

**`AnchorProofs`**, the memo and then the tree:

- `TypeCorrect`, `SnapshotsDependable` and `MemoHonest` (`MemoIsHonest`). A root
  kept, or about to be kept by a call that has read its watermark and not yet its
  rows, is current, or older than a date that has moved the watermark past it, or
  known to have missed something: the watermark is read first. The maximum of a
  finite set of dates comes from well-foundedness.
- `RootDetermined` (`RootIsDetermined`), for any finite set of keys. Rows are put
  in their places by counting (`Place`), so any two answers of a query give the
  same leaves. That two sets of facts with one root are one is argued level by
  level: equal roots are at equal heights, since a leaf is not a node; two levels
  that hash to the same level have the same pairs; and the odd one that is hashed
  with itself cannot pass for two, since the nodes of a level are distinct.
- `PublishedVerify` (`ProofsVerify`): what the browser recomputes after k steps of
  a proof is the node of level k above the leaf, and for an item decided
  otherwise it differs at every level.

**`PriceTestProofs`**:

- `TypeCorrect` and `ManifestIsKept` (`MostStayAdvertised`) of the checks. While a
  check is being recorded the rows are a mixture of two checks, and the
  bound is false; the invariant says instead that a paused row has not been
  written yet or belongs to a failing source, and that the failing ones are no
  more than half, so the bound holds again when the last row is written. A check
  that dies in between leaves the mixture: hence `torn`. `ChecksUndisturbed`
  carries both over to the composition with the pages.
- `CatalogueAgrees` (`CatalogueAgreesWithFeeds`): the catalogue's flag and what
  go-ooo works out from manifest and exports are both `Priceable`.
- `TestTypeCorrect`, `BannerNeverFlatters` (`BannerIsHonest`) and `NoneUpsideDown`
  (`RightWayUp`). `TestInv` says of each call, each cached row and each answer on
  the page that its stamp is no later than the prices in it, whoever overwrote
  whom, and that a pool found for a class query has a coin of the target class.
- `SomethingKept` (`SomethingIsKept`): the sample nearest the median is no further
  from it than the median deviation, a sample between the quartiles is within the
  fences, and not every squared deviation is above their mean.
- `MinorityShrugged` (`MinorityIsShrugged`): the sound samples being more than
  half, the median is among their prices' range and so is the deviation's own
  median among their distances; a survivor is within the cutoff of that, and a
  weighted mean is within the range of what it is made of. It rests on lemmas
  about sums over finite sets and k-th values, for any number of samples.

The feed, at the end of `BeaconWriterProofs`, as the writer notarises what it
serves: `FeedTypeCorrect` and `VerdictsSignalled`
(`VerdictsAreSignalled`). The property speaks of an idle go-ooo. The strengthening
says of every pair go-ooo holds wrongly that it was judged later than what
go-ooo holds (`DifferencesAreDated`), and of a poll in progress that the rows it
has read are still the rows, unless something was written since
(`AnswerIsCurrent`).

**`PassesProofs`**, for any tokens, pairs and passes beside one another:
`TypeCorrect` (with `Fits`: what a job is about to write is an answer of its
pass) and `RevalidationComplete` (`RevalidationIsComplete`). `DoneIsJudged` says
of a revalidation under way that what it counts as done stands on the thresholds
it began with. It is not inductive: the pipeline or a page that works beside it
stamps the same pairs with verdicts it read at some earlier time.
`YoungVerdicts` adds that a verdict in flight that will count as done
was read after the revalidation began; one that was not takes its pair back out.

Inductions over data (the levels of a tree, sums over a set) are done by a least
counterexample, from the well-foundedness of the naturals and of finite sets: the
library's induction theorems take an operator as a parameter, which the provers
cannot instantiate.

Every invariant and every action property of the runs is proved. Only
model-checked: the liveness properties (`FlagsHeal`, `EverythingIsNotarised`,
`ExportCatchesUp`, `EveryFulfilmentIsReceipted`, `ProvidersGetIn`, `PassesEnd`,
`TruthPrevails`, `PoolsStayFresh`, `TheGoneAreLeft`, `OutagesArePaused`,
`RecoveriesAreAdvertised`). Liveness under fairness, and the `ENABLED` in it, are
out of the prover's reach. `FlaggedPairsQuarantined` is proved for one runner
and no crash, the conditions under which it holds.

## 5. Not modelled, and why

- *Review triage and enrichment*: the tier is a function of the verdict's reason;
  the enrichers are external lookups that decorate the queue.
- *Web pages and sign-in*: presentation and a library's sessions. The pages that
  drive a pass, an ingest, an addition, a promotion or a price test, and the
  review page's copy of the fences, are modelled in the component they drive.
- *Maintenance scripts*: run by hand, once.
- *Source adapters*: what a page, a lookup and a corroboration return is in
  `Ingest`; HTTP pacing, Uniswap v4 hooks and parsing are not. The probes that
  verify a subgraph before a promotion are not.
- *Prices, statistics, economics*: see section 2; the pages of economics and
  subgraph usage are display.
- *Feed*: the detail and token queries of `export.ts`.
- *Postgres and Prisma*: a statement is atomic, as in read-committed isolation
  of single-row statements; the one transaction is one step. Prisma's `include`
  reads pairs and tokens in two statements, which the models take as one.

Two hazards have no property that holds: a refresh by address
(`ingest.ts:172`) and the latch before the seeding (`beacon-writer/index.ts:54`);
the disagreements 6 and 3 above say what the code does.

## 6. Plan

Modelled and checked: all that section 2 lists. Left:

1. `FlaggedPairsQuarantined` for several runners, as a statement about what the
   runners in flight have still to judge.
2. `ReviewTier`: the tier against the reason, on every evidence class.
3. The watcher and the beacon writer over one queue.
