# Le Grinder in TLA+

Le Grinder (`src/`) plays the Polymarket "BTC up or down, 5 minutes" markets: in
each window it may buy, with its whole stack, the side quoted at 95c or more that
the Binance spot confirms, watches the position, and sells it in a hurry or holds
it to the resolution; what comes back is the next stake. This directory models
what makes such a program hard to get right: the accounting over many windows,
what survives a restart, one event loop whose handlers await requests while the
world moves, and two guards fed over unreliable channels.

## 1. The system

| component | state it keeps | operations | modelled by |
|---|---|---|---|
| accounting (`grinder.rs` `engage`, `exec_buy`, `resolve`, `panic_exit`, `settle`; `state.rs` `GrinderState`) | stack, streak, run, counters, realised PnL, reserve (`banked`), halt, reset times; open position; last wallet evaluations | entry, win, loss, panic sale, securing sale, wipe, skim, Kelly cap, circuit breaker, halt, resume, reboot | `Settlement` |
| files (`state.rs` `load`, `save`, `append_window`), supervision (`watchdog.sh`, `le-grinder.service`), resume button (`dashboard.rs`), reconciliation task | state file, its temporary, ledger; in memory only: position, `last_played_window`, resume flag, reconciliation flag | each write of a settlement or a resume, deaths, boots, presses, verdicts | `Durability` |
| the loop (`grinder.rs` `run`, `housekeeping`, `check_exits`, `try_enter`, `record_wall`) | market, strike, phase, position (`ride`), `last_played_window`, last wall, guard | resolution, blind-guard sale, wall, securing sale, rollover, strike, entry; alarms on ticks | `WindowCycle`, against `OneBet` |
| guards (`tokyo.rs`, `remote_guard.rs`, `guard_now`) | local guard and kill latch; remote guard: last number, time, spot, kill | tick, frame, KILL frame, fusion | `GuardFusion` |
| Binance connector (`binance.rs`), radar (`engines/radar.rs`) | connection, backoff, a watch channel that keeps the last tick; the radar's history of a second | connect, break, close, zombie timeout, tick, verdict; candles, depth | `LocalGuard`; the requests in `WindowCycle` |
| Polymarket REST | none | market of a window, books, verdicts | in `WindowCycle` (partly) |
| Polymarket WebSocket (`pm_ws.rs`, `best_book`) | books per token, one freshness for all, session, backoff | boot, parking, sessions, snapshots, deltas, ping, rollover | `BookFeed` |
| paper execution (`paper.rs`, `exec_buy`, `exec_sell`) | none | sweeps of a book, level by level | `PaperSweep`, `Executor` |
| live execution (`live/`) | the CLOB's account, its cache of what was credited | orders, balances, refreshes, second FAK | `Executor`, against `Broker` |
| drift and volatility (`engines/`) | filters over real-valued ticks | update | no: floating-point filters; their verdicts are choices of a tick |
| configuration, `main.rs`, dashboard page, types | settings, wiring, a read-only snapshot | | settings are the CONSTANTS |

How they interact: the Binance connector and the UDP receiver are tasks of their
own that write a watch channel or a lock; the loop's `select!` runs one handler to
its end at a time: `check_exits()` after a tick of either feed, `housekeeping()`
twice a second. Handlers read the guards when they begin or between two awaits.
Reconciliation tasks and the dashboard talk to the loop through atomic flags that
it looks at in `housekeeping()` and `try_enter()`.

What is hard in it, and the properties about it (PROJECT.json lists every hazard
at its line):

- **values read before an await and used after it**, ticks lost meanwhile:
  `EntryAndSaleInTime`, `StrikeOfMarket`, `RideIsFinal`, `ResolvedInTime`,
  `BlindIsSold`, `KillBarsEntry`;
- **a death between two writes, a write that fails, memory that is not saved**:
  `OneEntryPerLife`, `EntriesAreTold`, `FilesAgree`, `LedgerReadable`,
  `HaltsNeedAHuman`;
- **long sequences of windows** through skims, caps, wipes and halts:
  `Conservation`, `PaperKellyCap`, `LiveKellyCap`, `LedgerAgrees`, `HaltsHold`,
  `BankedNeverShrinks`;
- **lost, late, repeated and reordered frames, a radar that restarts**:
  `FreshSpot`, `SpotMovesForward`, `KillBarsEntry`;
- **one freshness for many books, sessions that die and come back around a
  rollover**: `ServedLag`, `PastIsReplaced`, `OneCloseEach`;
- **orders whose answer is lost, whose second half fails, balances that lag**:
  `BrokerSpec`, `Exposure`, `KeptMeansNothingSold`;
- **lots that roundings of doubles lose, levels that hold less than a lot**:
  `SweepBounds`, `SweepIsGreedy`;
- **a radar fed by a loop that misses ticks**: `RadarVerdict`;
- **things that must happen in the end**: `OneBetSpec`, `BlindIsSold`,
  `DivergenceHalts`, `MarketFollowed`, `FeedReturns`.

## 2. The modules

**Settlement.tla**: money as integers of a unit, `Dollar` units to a dollar; a
fraction of the configuration is a percentage, and a product with it is rounded
down (the code computes in `f64`). `Enter` is the part of `try_enter()` that opens
the position, `Win`, `Loss`, `PanicExit` and `SecureExit` are the four ways into
`settle()`, which `SettleOn` follows in the code's order: PnL, streak and wipe,
halts, best stack, skim, Kelly cap on the wallet *after* the window, row. A fill
is any notional the book may offer, with any fees and any premium of shares over
their price; a panic sale brings any amount under a dollar a share. `ReconcileHalt`,
`Resume`, `PollWallet` and `Reboot` are the other writers of this state. One
handler runs at a time, so these are atomic here. History variables remember what
wipes put back on the table (`injected`), what a boot trims without banking
(`trimmed`; the two collateral reads of a live boot are two choices) and whether a
human has lifted the halt since the last wipe (`rearmed`).

**Durability.tla**: the same handlers cut at every file operation. `Settle`
changes the memory, then `AppendRow`, `EndLine` (`writeln!` writes the row and its
newline apart), `SaveTmp`, `Rename`; each may fail, which the code only logs, and
`Crash` may come between any two. A fault or a death in the middle of a row leaves
part of it (`Part`): `ledger` holds the whole rows of each line, `torn` the lines with
part of a row on them. A partly written temporary file needs no such step: no rename
follows it, and the next save overwrites it. `Boot` loads the file, or a fresh state when it
is missing or cannot be read. Of the amounts only the count of windows and the
halt are kept.

**WindowCycle.tla**: the loop. `pc` is the await the running handler is at;
`Advance` lets the clock run there, at most `MaxAwait` a request, and `FeedTick`
overwrites the channel meanwhile. `Housekeep` to `Buy` are the stages of
`housekeeping()` in the code's order, `HandleTick` to `ExitSale` those of
`check_exits()`. A request answers, late or not, or fails. `hk` is the `now_ms`
that `housekeeping()` read when it began, which its later stages still use. The loop is
the one without a remote radar (`SIGNAL_LISTEN` unset, the default). The margin is a
small integer, into which drift and `DIST_EXIT_USD` are folded; a sale by the executor,
retries included, is one request; whether a resolution is won is left to `Settlement`.
**OneBet.tla** is what the machine promises: one position at a time, one entry a
window, windows in order, each settled once, and in the end. `WindowCycle`
implements it with `bet <- pos.w` and its own history `results`.
**MCWindowCycle.tla** holds the sets of signals a .cfg cannot write.

**GuardFusion.tla**: both guards, the network and the loop seen from them. Times
are kept as ages that stop growing once nothing tells them apart, so the clock
needs no bound. `GuardNow` is `guard_now()`; the local kill is judged when a tick
is handled (`Update`), the remote one when it is asked for (`RemoteKill`). `stall`
is what the running handler still awaits; the receiving task runs meanwhile. A
tick whose book lacks a side has no price: it is news, and moves no spot.

**LocalGuard.tla**: what the local guard is fed. `Connected` to `Wake` are `run()`
and `connect_and_stream()` of the connector with their backoff and zombie timeout;
`LineDies` is a peer gone without a word. `Book` overwrites the watch channel;
`HandleTick` is the loop's turn, and `RadarTick` is `RadarEngine::tick()`. `trail` is a
history variable: every priced tick of the last second, handled or not.

**BookFeed.tla**: the task of `pm_ws.rs` (`Boot`, `Unpark`, `Connect`, `End`, `Wake` are
the outer loop of `spawn()`; `Connected`, `Receive`, `Ping`, `Rollover` the branches
of `run_session()`), the line it listens on, and the loop that announces markets and
is served books (`FreshBook`). Of a book it keeps which session its snapshot came
in; of an event on the line, its age.

**PaperSweep.tla**: one simulated order, one level a step, in lots and ticks.
`RoundSize` is `round_size()` on doubles: a whole number of lots may come out one lot
short (`(0.29 * 100.0).floor()` is 28), and which ones do is the constant `Falls`.

**Executor.tla**: the orders of one window after another, `EXTENDS PaperSweep`. On
paper an order is a sweep of a book; live, `pc` is the await the call is at, and the
CLOB (external) may refuse, match a part, lag in crediting, and lose an answer.
`Opened` and `Closed` are what the callers do with a fill.
**Broker.tla** is what the orders come to: one step each on what the wallet holds and
what the machine believes. `Executor` implements it with `account <- Before` (the
wallet as it was when the running call began) and `belief <- pos`, so that a call of
many awaits is one step of `Broker`, at its end.

**SettlementProofs**, **DurabilityProofs**, **WindowCycleProofs**, **GuardFusionProofs**,
**LocalGuardProofs**, **BookFeedProofs**, **ExecutorProofs** (which holds those of `PaperSweep`
too) and **BrokerProofs** hold the theorems about the module each is named after, and their
proofs (section 4). Where a
definition exists in several equivalent forms, the modules use the one the provers can
reason about: conditions nested in IF or split into conjuncts rather than CASE ... OTHER,
matches of an order as a set comprehension, the largest stake as the greatest element of
a set, sums as folds, the purge of the radar's history as the loss of a prefix (which is
also what its loop does); no module that is proved about has a RECURSIVE operator.

Definitions named `Bug_...` are wrong versions of the definition below them, and
are used by nothing: put in its place, each one breaks the property PROJECT.json
("mutants") pairs it with, which shows that the property can fail.

## 3. The runs

| run | module, cfg | checks | states, time |
|---|---|---|---|
| settlement_paper | Settlement, SettlementPaper.cfg | `TypeOK` `Conservation` `PaperKellyCap` `LedgerAgrees` `BankedNeverShrinks` `HaltsHold` | 590 k, 28 s |
| settlement_live | Settlement, SettlementLive.cfg | `LiveKellyCap` `HaltsHold` | 4.0 M, 2 min |
| durability | Durability, Durability.cfg | `TypeOK` `OneEntryPerLife` `EntriesAreTold` `FilesAgree` `LedgerReadable` `HaltsNeedAHuman` `DivergenceHalts` | 990 k, 48 s |
| window_cycle | MCWindowCycle, WindowCycle.cfg | `TypeOK` `ResolvedInTime` `StrikeOfMarket` `RideIsFinal` `EntryAndSaleInTime` `OneBetSafe` | 9.8 M, 2 min |
| window_live | MCWindowCycle, WindowLive.cfg | `OneBetSpec` `BlindIsSold` | 630 k, 42 s |
| guard_fusion | GuardFusion, GuardFusion.cfg | `TypeOK` `FreshSpot` `KillBarsEntry` `SpotMovesForward` | 8.6 M, 2.7 min |
| local_guard | LocalGuard, LocalGuard.cfg | `TypeOK` `RadarVerdict` `FeedReturns` | 1.5 M, 2.6 min |
| book_feed | BookFeed, BookFeed.cfg | `TypeOK` `ServedLag` `PastIsReplaced` `OneCloseEach` `MarketFollowed` | 580 k, 42 s |
| executor | Executor, Executor.cfg | `TypeOK` `SweepBounds` `SweepIsGreedy` `Exposure` `BrokerSpec` | 250 k, 31 s |

Three more runs each show one disagreement (section 5). What the passing runs say:

- **Accounting.** Stack, reserve and what boots trimmed always add up to the first
  stake, the realised PnL and what wipes put back, although skim and caps move
  money in four places. In paper the stack is within its share of the virtual
  wallet after every window, a return to the base included; live, within that of
  the largest wallet seen, and a stack under the share of any evaluation is left
  alone. Counters, streak, run number and rows of the ledger tell one story. After
  a total loss (`HALT_ON_WIPE`) or too many resets (circuit breaker) no window is
  entered until a human has lifted the halt, through any wins, resets that expire
  and reboots.
- **Durability.** A window is entered again only after a death within it. Every
  entry is the open position or has its one row, but for one per death or failed
  write; the two files drift apart by no more; a torn line costs the rows joined on
  it, whole or in part, and no other. An entry is made in spite of a halt only if the halt never
  reached the disk before a death, was lifted by a press made before it was
  raised, or was in a state file the boot could not read. A divergence reported by
  a reconciliation ends in a halt on disk unless the process dies or a write fails.
- **The loop.** No strike outlives its market. A position opens at most four
  requests after its playing time, and a sale is over at most three requests after
  the end; past the point of no return only the resolution closes it; no position
  outlives its window by more than the fallback's delay and six requests. The
  machine implements `OneBet`, its liveness included, and a position whose feed
  died is put up for sale while there is time.
- **The guards.** No entry is decided within the latch of a crash the local guard
  saw, nor after a KILL frame while the remote guard is in use. A fresh, green
  guard never rests on an old spot, but for a spot left by a local tick that had no
  price, which makes the guard fresh and leaves the spot as it was. A KILL frame
  counts as news without bringing a spot too: that it makes no exception needs `KILL_LATCH_MS > REMOTE_MAX_AGE_MS`, an assumption of
  the module that the defaults satisfy. Frames never move the spot of one radar
  life back in time. A verdict of the local radar is never about a move slower than
  its second, however long a reconnection or a stall lasted, and is right whenever
  the loop handled every tick of that second; it may miss a crash whose ticks the
  loop let overwrite each other. A line that died without a word is replaced.
- **The books.** A served book is behind by no more than `BOOK_MAX_AGE_MS` while
  the line is silent; for the instants in which a line that was silent delivers what
  it held, by no more than the longest silence a session survives, the zombie
  timeout and one ping (40 s): events carry no time of their own, and look fresh when
  they arrive. A book left by an earlier session is served only between the first
  event of the new one and that book's own snapshot. An announcement closes one
  session at most, though a session opened for it does not mark it seen and closes
  itself once; the market played is subscribed to in the end.
- **The orders.** A simulated purchase never spends more than its cash or pays more
  than its cap, a simulated sale never sells more than it has; none takes from a
  worse level while a better one has more than the lot a rounding may lose, and
  none leaves what it could have, but for a purchase stopped by a level of less than
  a lot. Live, at most one *known* entry is made in a window; what the machine
  believes and what the wallet holds part in three ways only, each a named action or
  clause of `Broker`: an answer lost after a match, a sale whose second half fails,
  and a residue. The wallet never holds more of a token than one stake, and one more
  for each lost answer.

### Bounds, and why they are enough

- *SettlementPaper*: three windows, so that a window follows one that follows a
  wipe; base 3, ceiling 5, wallet 10, so that stacks pass the ceiling, the skim,
  the cap (40 %) and the base in both directions. *SettlementLive*: four windows
  and two resets within two seconds, so that a reset expires before and after the
  breaker; reads 0 (unreadable), 6 and 9 move above and below one another within
  the three evaluations kept.
- *Durability*: two windows, two deaths, one failed operation, two presses: a
  second death may follow the boot of the first, in the same window or the next.
- *WindowCycle*: two windows of 5 units with requests of up to one unit, delays
  and ages of one or two units: each threshold can be met, missed, and crossed
  during an await; a window may be entered one unit after it starts, before the
  fallback of a position left from the last one, as the defaults allow (60 s and 90 s),
  so that only the phase keeps a second position out. *WindowLive*: one window of 9 units, long enough for a feed to
  die, be noticed and the position be sold before the end. The securing exit is off
  there (`SecureLast` = 0): its two requests would need a longer window, which is out of
  reach of a liveness check; `WindowCycle` and the proofs have it.
- *GuardFusion*: stalls as long as `GuardMaxAge`, frames that travel one unit, two
  at a time, two numbers, two lives. No bound on time.
- *LocalGuard*: a second of one unit, stalls of two, so that a stall outlasts the
  radar's look back; two prices a threshold apart; three ticks in a second; a zombie
  timeout longer than any backoff. No bound on time.
- *BookFeed*: two markets, so that a rollover meets every state of the task; a line
  of three events, which holds both snapshots and a change; ages of one, pings every
  two and a zombie at three, in the code's order (5 s, 10 s, 30 s); backoff 1, 2, 4.
  No bound on time.
- *Executor*: three prices around the cap of 2, levels up to four lots in halves of a
  lot, so that levels of less than a lot occur; a haircut of 80 %; one number of lots
  that a double takes down; cash that buys little, part and all of a book; two
  answers lost in a window. No bound on windows.

`CHECK_DEADLOCK FALSE` stands where the instance stops: the clock of `WindowCycle`,
the windows of `Durability`, the number of windows of `Settlement`, whose stack
may also become too small for a unit to be bought. `GuardFusion`, `LocalGuard`,
`BookFeed` and `Executor` never stop and are checked for deadlock.

### Fairness

`WindowCycle`: the clock runs; handlers that began go on (each request ends, by
its timeout if need be: `reqwest` and `tokio` timeouts for Binance and Polymarket;
the live executor sets none of its own, which section 6 recalls); the branches of
`select!` are polled in random order, so that a `housekeeping()` that is due over
and over is served even when ticks keep coming (strong fairness of `Housekeep`).
No fairness of feeds or of answers: a feed may be silent and a request fail for
ever. `Durability`: the loop goes on and the supervisor boots what died
(`Restart=always`); strong fairness of `ReconcileHalt`, which every pass of
`housekeeping()` reaches. `BookFeed` and `LocalGuard`: the tasks run and time passes;
strong fairness of `Connected`, which says that a server asked again and again
accepts in the end. It is an assumption on the network, not on the code:
`connect_async()` has no timeout (`binance.rs:164`, `pm_ws.rs:90`), so that a handshake
that never ends would leave the feed, or the books, waiting for ever, and
`FeedReturns` and `MarketFollowed` say nothing of it. The code's part is to ask again and again, which a backoff without a bound, or a session that
never gives up, would not do. Nothing is assumed of what comes over a line, nor that
a line that is down comes back.

## 4. Proofs

All theorems hold for every value of the constants that satisfies the modules'
assumptions (the `ASSUME`s: mostly that a number is a natural number); TLC evaluates
those assumptions on every run. Constants that bound an instance (`MaxWindows`,
`MaxTime`, `MaxCrashes`, `MaxFlight`...) are arbitrary there, so that no theorem
depends on how small the runs are. Every invariant below was first checked by TLC on
the instance of its module's run. Assumptions that are more than a type:

| assumption | module | why the code satisfies it |
|---|---|---|
| `KillLatch > RemoteMaxAge` | `GuardFusion` | the defaults, 5 s and 1.5 s; a configuration may break it, and then a KILL frame may leave an old spot fresh |
| `MaxLives >= 1` | `GuardFusion` | a radar lives once at least |
| `MaxWindow >= 1` | `Durability` | there is a window to play |
| `Stakes` has a greatest element | `Executor` | the stack is bounded by the wallet |
| `TimingAssumption` | `WindowCycle` | a request takes time; the fallback (90 s) comes after the first attempt (3 s), and later than two requests, each within its timeout, can make a securing sale that may not be thought of in the last 3 s |

### The accounting

`SettlementProofs`, for any base, percentages, wallet, mode and set of wallet reads,
and any number of windows:

| theorem | statement |
|---|---|
| `Invariance` | `Spec => []IInv`, the inductive invariant |
| `TypeCorrect` | `Spec => []TypeOK` |
| `MoneyConserved` | `Spec => []Conservation` |
| `PaperKellyCapHolds` | `Spec => []PaperKellyCap` |
| `ReserveIsSafe` | `Spec => BankedNeverShrinks` |
| `LedgerAgreesHolds` | `Spec => []LedgerAgrees` |
| `HaltsHoldAlways` | `Spec => HaltsHold` |
| `LiveKellyCapHolds` | `Spec => LiveKellyCap` |

`IInv` is `TypeOK /\ Conservation`. `TypeOK` alone is inductive only because the
skim and the caps never take more than there is (`SkimPart`, `CapPart`, which rest
on `PercentPart` and `PercentFloor`: a percentage of a natural number is a natural
number, no larger up to 100 %). Conservation needs the second conjunct of its own
definition: a settlement replaces the stack by the proceeds and books
`proceeds - pos.cost`, which conserves money only because the open position
stands for the whole stack (`cost: self.st.stack`), through every step that may be
taken while it is open. The cap is not inductive by itself: a settlement
establishes it whatever was before, and the other steps leave the stack no larger
and the realised PnL alone. The argument has one lemma per operator of a
settlement, one for the settlement as a whole (`SettleFacts`, paper and live), one
for the four ways to it (`ClosingSettles`), and one step per action.

`LedgerAgrees` is inductive together with `IInv`: each of its counts is the
cardinality of a set of rows, and a closing (`ClosingBooks`) adds one index to the
sets it belongs to, or empties the unbroken wins (`BookedStep`, `WipesStep`,
`UnbrokenStep`, all from `OneMore`). The rows' costs chain because a position costs the
whole stack and a boot only trims it.

`HaltsHold` is about the ledger, but the breaker looks at `reset_ts`, which forgets, and
is only updated at wipes. `HInv` says why they agree: rows grow in time (`TimesGrow`);
`reset_ts` holds the times of exactly the wipes within the window of the last one
(`ResetsAreWipes`), as many as these wipes, since the times differ (`AsManyTimes`); and
what trips either halt has halted, unless a human lifted it (`Stopped`).

`LiveKellyCap` rests on `LargestIsGreatest`: the wallet the cap is computed on is one of
those seen, and none seen is larger.

### Restarts

`DurabilityProofs`, for any number of windows, deaths, failed operations and presses:

| theorem | statement |
|---|---|
| `DInvHolds` | `Spec => []DInv`, the inductive invariant |
| `DurabilityTypeCorrect` | `Spec => []TypeOK` |
| `OneEntryPerLifeHolds` | `Spec => []OneEntryPerLife` |
| `EntriesAreToldHolds` | `Spec => []EntriesAreTold` |
| `FilesAgreeHolds` | `Spec => []FilesAgree` |
| `LedgerReadableHolds` | `Spec => []LedgerReadable` |
| `HaltsNeedAHumanHolds` | `Spec => HaltsNeedAHuman` |

None of the properties is inductive. `EntryOK` adds what a boot relies on: the window of
the clock is open to one more entry only if its last one was made in an earlier life.
`HaltOK` says where a halt that nothing lifted is: in memory while the process is up, on
disk while it is down, and never with a press left to lift it. `CountOK` follows the
three counts (memory, rows, state file) through each write of a settlement, with what
is `Pending` and `Settling`. `LineOK` bounds the lines that are torn *or may still be*:
the last one, when it lost its newline, is charged to its fault before the next row
joins it.

`PartType` and `PartCounts` say that part of a row leaves every whole row where it was.

`Sum` (the rows of all lines, the deaths of all windows) is a fold of the community
modules, that is a recursive function on the subsets of a domain. An induction over it
cannot be stated to these provers, but a descent can: a least counterexample among the
subsets of a finite set (`LeastSet`, from the well-foundedness of `<` on `Nat`) has a
smaller one. `SumExists` gets the function that way, and the lemmas after it what one more
element or one changed value does to a sum.

### The loop

`WindowCycleProofs`, for every length of window, request and delay, any set of signals
and any number of windows:

| theorem | statement |
|---|---|
| `IInvHolds` | `Spec => []IInv`, the inductive invariant |
| `TypeCorrect` | `Spec => []TypeOK` |
| `StrikeHolds` | `Spec => []StrikeOfMarket` |
| `RideHolds` | `Spec => RideIsFinal` |
| `OneBetHolds` | `Spec => OneBetSafe`, the refinement of `OneBet` but for its fairness |
| `ResolvedHolds` | `Spec => []ResolvedInTime` |
| `EntryAndSaleHold` | `Spec => EntryAndSaleInTime` |

`IInv` ties each await to what it is for: a handler that sells has a position, which does
not ride (the check was made before the request, and no other handler ran since); one
that buys has none (which `TypeOK` states too), and buys in the market it has the strike
of; markets and results
come in order. With it every step is a step of `OneBet` or leaves its variables alone
(`BuyPlaces`, `SettlingCollects`). `StrikeOfMarket` needs `StrikeOK`: the strike is
forgotten in the step that changes the market, before the first request for the new one.

The two bounds in time need `TInv`, which counts requests: for each await, by when the
handler came to it (`Began`), from the time its pass or its check read (`PassOK`,
`SaleOK`, `EntryOK`); and for a position, how many requests the loop may be past its
fallback at each stage (`HeldOK`), with a pass that is not due finding none (`PromptOK`).
A securing sale thought of at the last moment and refused late sends the loop on with the
position still open: that it is then no further past its fallback than `HeldOK` allows is
what `TimingAssumption` says of the delays.

### The guards

`GuardFusionProofs`, for all ages, delays, stalls, numbers of frames and lives:

| theorem | statement |
|---|---|
| `GInvHolds` | `Spec => []GInv`, the inductive invariant |
| `FusionTypeCorrect` | `Spec => []TypeOK` |
| `FreshSpotHolds` | `Spec => []FreshSpot` |
| `KillBarsEntryHolds` | `Spec => KillBarsEntry` |
| `SpotMovesForwardHolds` | `Spec => SpotMovesForward` |

`NewsOK` is the heart of the first: the last news of a fresh radar was a tick, or a KILL
whose latch outlasts the freshness. `LatchOK` relates the latch the local guard keeps to
the time since the crash it stands for. `FramesOK`, of the radar's first life, is an order:
numbers on the way are sent in the order of their ages, and none that the guard would
accept is older than the spot it has; it must speak of all frames, delivered in any
order.

### The radar

`LocalGuardProofs`, for any look back, threshold, timeout, backoff, stall and number of
ticks:

| theorem | statement |
|---|---|
| `RadarInvariance` | `Spec => []IInv`, the inductive invariant |
| `GuardTypeCorrect` | `Spec => []TypeOK` |
| `RadarVerdictHolds` | `Spec => []RadarVerdict` |

`RadarVerdict` relates two sequences that lose their old points at different moments: the
trail when a tick comes, the history when one is handled, which may be a stall later and
is then judged by the tick's own age. `IInv` says how one follows the other (`Tracks`): as
far back as a tick yet to be judged may look, the points of the history are those of the
trail that were handled, of the same ages and prices and in the same order. That is enough
because a waiting tick is the trail's last, and all of the trail is young to it
(`TickInv`); that the code's purge drops exactly the points too old for the tick, though it
stops at the first that is not, needs both sequences sorted by age (`AgeInv`, `RecentIs`).
Time ages both alike, a stall beyond all counting included (`FollowsAged`), a new tick
purges the trail only (`FollowsBook`), a tick handled purges the history by the same age
(`FollowsHandle`). Then what the radar judges is a part of the trail that ends in the tick
(`CrashOfSuffix`), and the whole of it if every tick was handled (`Verdict`).

### The books

`BookFeedProofs`, for any number of markets, any length of line and any limits:

| theorem | statement |
|---|---|
| `BInvHolds` | `Spec => []BInv`, the inductive invariant |
| `FeedTypeCorrect` | `Spec => []TypeOK` |
| `PastIsReplacedHolds` | `Spec => []PastIsReplaced` |
| `ServedLagHolds` | `Spec => []ServedLag` |
| `OneCloseEachHolds` | `Spec => []OneCloseEach` |

`BooksOK` says that in a session each book of the market subscribed to is the session's or
has its snapshot on the line (`Coming`); `HeldOK` that a line that is down holds nothing
older than the session's silence, which `SilenceOK` bounds by the timeout and what is left
of the ping; `QuietOK` that nothing of a session survives it but the books; `CloseOK` that
an announcement still unseen has closed no session yet.

### The simulated orders

The first part of `ExecutorProofs`, for every set of prices, cap, haircut, fraction
of a lot and every set `Falls` of roundings that lose a lot:

| theorem | statement |
|---|---|
| `SweepInvariance` | `SweepSpec => []IInv`, the inductive invariant |
| `SweepTypeCorrect` | `SweepSpec => []SweepTypeOK`: nothing goes below zero |
| `SweepStaysInBounds` | `SweepSpec => []SweepBounds` |
| `SweepTakesTheBest` | `SweepSpec => [](BestFirst /\ NothingLeft)`, the greed of a sweep |
| `OrdersStayInBounds` | `Executor`'s `Spec => []SweepBounds` |
| `OrdersAreGreedy` | `Executor`'s `Spec => []SweepIsGreedy` |

`SweepBounds` is not inductive: the average of a purchase is within the cap only
because the levels *yet to come* are, which is the third conjunct of `IInv`; and
`left` stays a natural number only because of the arithmetic of a level
(`AffordableFits`, `SellableFits`): the purchase compares `left / price` with the size
of the level as real numbers and rounds the lesser, and both products, back in cash
and in fractions of a lot, must stay within what there is. They rest on
`RoundSizeFalls`, the one fact about `round_size()`: whatever the double does, it never
rounds up. Greed needs `LevelsOK`: the levels behind the sweep are better than those
before it and each gave all it could, but for a lot. `Cheap` says that a lot costs a tick at least, so that
no purchase brings more lots than it had cash, which bounds the position it opens.

### The orders and what is at risk

The second part of `ExecutorProofs`, for every set of tokens, book, stake and number of lost answers:

| theorem | statement |
|---|---|
| `EInvHolds` | `Spec => []EInv`, the inductive invariant |
| `OrderTypeCorrect` | `Spec => []TypeOK` |
| `OrdersAreBrokered` | `Spec => BrokerSpec`, the refinement |
| `OrdersExpose` | `Spec => []Exposure` |

`EInv` says what each call is for at each of its awaits (`CallOK`: what has been filled has
moved, nothing has moved before the first answer), of what (`AimOK`: a purchase finds no
position in a window not played, a sale is of the position), that the sweep under way is
that of the order (`SweepOfOrder`), that no number is beyond a stake (`AmountsOK`), that
each simulated order keeps `PaperSweep`'s invariants, and, through the mapping, `Broker`'s
`IInv` of the wallet as the running call found it. Each step maps to a stutter while the call
runs and to one step of `Broker` at its end: `Before`, which takes back what the running
call has moved, does not change while it moves.

`BrokerProofs` proves `ExposureHolds`, `Spec => []Exposure` of `Broker`, for any set of
tokens, any stake and any bound on lost answers (natural numbers, the theorem's only
hypotheses). `Exposure` is not inductive: a wallet full to the bound would have no room
for the next entry. `IInv` counts entries instead, those lost and the one known, which
`played` keeps at one; a sale never gives room back, since a residue may stay.
`OrdersExpose` is that theorem carried over the refinement (of the wallet as the running
call found it: what a call has matched counts when it ends, as a fill or a loss).

### Model-checked only

- Liveness, which this prover does not reach: `OneBetSpec` (its safety is
  `OneBetHolds`), `BlindIsSold`, `DivergenceHalts`, `MarketFollowed`, `FeedReturns`.
- The three disagreements of section 5, which are counterexamples.

Every invariant and every action property of the passing runs is a theorem of this section.

## 5. Disagreements between the program and what it says of itself

Each of these runs finds a behaviour of the code that contradicts a sentence of
the repository.

| run | the repository says | the code |
|---|---|---|
| durability_entry | `grinder.rs:12` one entry per window | the position and `last_played_window` are not saved: after a death in position the window is entered again and the first bet is forgotten |
| durability_halt | `state.rs:35-36` the halt survives restarts | `settle()` appends the row, then saves: a death in between boots on a state that is not halted, though the ledger holds the row of the wipe (the property asks for that row; a death before it is written loses the halt too) |
| live_partial | `grinder.rs:840-842` a sale keeps the position only if nothing could be sold | `sell_all()` returns an error of its second FAK at once and drops the fill of the first: part is sold, nothing is booked, the position keeps all its shares |

Others, met while modelling, no run is spent on:

- a press of the resume button when nothing is halted stays set and lifts the next
  halt at once (`config.rs:62-63` against `grinder.rs:577`; `HaltsNeedAHuman` counts it
  as one of the three ways a halt is lost);
- the safety exit "for a dead Binance feed" (`grinder.rs:453`) looks at the age of the
  last tick *handled*: requests the loop itself awaits make a living feed look dead,
  and the position is sold;
- "un KILL reste actif 5 s" (`.env.example:25`), but the remote kill is looked at only
  while the remote guard is fresh (`grinder.rs:391-395`): a KILL followed by silence
  counts for 1.5 s;
- "réévaluation à CHAQUE tick" (`grinder.rs:268`), but a watch channel keeps the last
  tick only: a crash within a stall of the loop is not seen by the local radar;
- "rollover → resouscription sans reconnexion" (`pm_ws.rs:51`), but the session ends
  and a new one is opened a second later;
- "session morte → carnets invalides" (`pm_ws.rs:74`), but the books are kept, and the
  first event of the next session makes them all fresh again until each one's
  snapshot comes;
- one position, one entry (`grinder.rs:12`), but a purchase matched although its
  answer is an error is not known, and the machine may buy again in the same window
  (`BuyLost` of `Broker`);
- a live securing sale (FOK) is for the credited balance only, and closes the
  position: shares not credited yet are left to the resolution, unbooked;
- "arrondi par défaut, 2 décimales" (`paper.rs:10-13`): the double may lose a whole
  lot, and a securing sale that is all or nothing is then refused though the book
  holds all of it;
- a level of less than a lot ends a purchase (`paper.rs:44-46`) although later levels
  would do.

Smaller ones, that one line of code shows: `cost` is the whole stack and not "notional + frais d'entrée"
(`state.rs:77`); a lost window is a wipe only when the cash left out of it is under
the base (`grinder.rs:9-10`); a wipe puts at least $2 on the table, twice the
default `GRIND_BASE` (`.env.example:4`); a tie is lost by Up and won by Down
(`README.md:52`); the safety exit does not look at `panic_floor`
(`config.rs:29-31`); the time left and the grace are judged before the order is
awaited (`config.rs:33`, `grinder.rs:695`; `EntryAndSaleInTime` says by how much);
the local kill does not expire while Binance is silent and the radar speaks
(`tokyo.rs:62`); frames of a radar that restarts its numbers are dropped until
they pass the last one seen (`remote_guard.rs:11`).

## 6. What is not modelled

- Real arithmetic: drift, volatility, OBI, micro-price, `margin_z` itself: filters of
  doubles over real-valued ticks, which TLC cannot enumerate.
- The levels of the books in `BookFeed`, and several events in one message, which the
  task applies together before anything is read: each event is a message there, so
  that the reads in between are more than the code allows.
- The remote radar in the loop: `WindowCycle` is the loop with `SIGNAL_LISTEN` unset, the
  default. With a radar, each frame in position first awaits a book (`record_tick()`), which
  may be a request, and past the window's end too; `select!` chooses at random between the
  next frame and `housekeeping()`, so that the bounds in requests of `ResolvedInTime` and
  `EntryAndSaleInTime` hold in probability only. What these frames are and what guard they
  make is in `GuardFusion`, which has the await too.
- Prices of live fills, signatures, authentication headers and HTTP. A live request
  that never answers stops the loop; the fairness of `WindowCycle` excludes it. A WebSocket
  handshake that never ends stops its task; that of `LocalGuard` and `BookFeed` excludes it.
- The composition of `WindowCycle` with `Executor` and `BookFeed`: the loop takes an
  order for one request and a book for any answer, and `Executor` leaves time out.
- The wait between a balance of zero and its second read, and every other delay of the
  live executor: they bound no property of it.
- The end of the machine: a power cut may lose a rename the process saw succeed
  (there is no `fsync`); `Crash` is the death of the process only.
- Parsing of the environment (`config.rs`) and of JSON, the dashboard's pages, statistics over the ledger, tick and wall
  logs, `NO_TRADE_UTC`.

## 7. Running

`tlc -config X.cfg M` for a run; `tlapm XProofs.tla` for the proofs of a module, each two
minutes or so at most.

## 8. Plan

Done, in this order: the accounting and its proofs; durability; the loop and its
refinement of `OneBet`; the guards; the books, the orders and their refinement of
`Broker`, the Binance line; then the proofs: simulated orders and exposure, the loop and
its times, the guards, the files, the refinement of `Broker`, the books, the ledger and
the halts, the radar. What could follow:

1. That the wallet holds what the machine believes until an answer is lost or a sale
   fails half way, from `EInv`.
2. Composition of `WindowCycle` with the halts of `Durability`, and with the frames of a
   remote radar.
