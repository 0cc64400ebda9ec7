# A TLA+ model of myLedger

myLedger is a double-entry ledger.  One thread, the sequencer's reactor, orders
and judges every transfer; around it run an idempotency component, the pending
engine (which keeps the holds, on a volume of its own), a consensus component
and the client's queues.  They share no locks: every two threads meet in a
bounded single-producer, single-consumer ring.  What can go wrong is therefore
what one thread believes about another between two messages, what a full ring
does to an order that somebody relies on, and what of the engine's state is on
the disk when the node stops.  This project models that core, checks it with
TLC and proves part of it with TLAPS.

All paths are relative to the repository (`src/...`).

## 1. Inventory

### Components

| component | state it keeps | operations | modelled in |
|---|---|---|---|
| hold overlay `pending/src/overlay.rs` | one entry per hold: watched, missing, removed or decided, with pins and reservations | begin_lookup, pin, unpin, admit_lookup, created, reserve, release_reservation, note_remaining, forget, compensate, maintain | HoldOverlay |
| pending channel `sequencer/src/state/pending.rs` | committed writes the engine has not taken, declines, count of applies sent | write, flush, lookup, fence, decline | HoldPath; declines in Sweep |
| judge, propose, apply `sequencer/src/reactor/{judge,apply}.rs` | effects, batches | accept, build_effect, take_proposal, commit_batch, roll back, seal | HoldPath (holds), Lanes (order), Commit (money) |
| lanes `sequencer/src/state/lane.rs` | per account: seq_counter, last_seq, in_flight, pending_replies, speculative overlay, quarantined | issue, accept_seq, leave, release, take and give back | Lanes; the overlay in Commit |
| linked chains `sequencer/src/rules/linked.rs`, `state/cascade.rs` | legs, gated requests, outstanding, closed, failure; gates; the cascade stack | admit, fail, add_leg, close_batch, wait_behind, judge_chain, open_gates | Lanes |
| budget groups `sequencer/src/rules/budget.rs`, `engine.rs` | members and total of a group; the tallies of a chain | allow_resolution, note, misses_a_member, with_group | BudgetGroups |
| batcher `sequencer/src/state/batcher.rs` | open batch, batches in flight | push, take_proposal, chain_boundary, on_committed | Commit, Lanes, HoldPath |
| accounts `account/src/store.rs`, `base/src/ports/account.rs` | four columns per account | apply, checked adds, replay, totals | Commit |
| outbox, pauses, audits `sequencer/src/state/outbox.rs`, `reactor.rs` | ack backlog, pause cause, counters | emit, flush, track_intake_pause, audit | Commit |
| safety `sequencer/src/state/safety.rs` | quarantined lanes, fail-stop, sealed | quarantine, release_quarantine, clear_fail_stop, seal_applies | Lanes, Commit |
| engine's orderer `pending/src/orderer.rs` | places per lane, filled or reserved | expect, fill, pop_ready | Lanes |
| engine's command loop `pending/src/memory.rs`, `engine.rs` | lookups in flight, applied count | take, apply_effect, begin_lookup, harvest, publish | HoldPath |
| expiry sweep `engine.rs`, `memory.rs`, `sequencer/src/state/expiry.rs` | the day open, the cursor, outstanding and declined voids, parked voids | open_day, propose_expiry, expiry_declined, sweep_expiry, park, admit_expiry | Sweep; a void among other requests in Lanes |
| record log and blocks `pending/src/{block,engine}.rs` | writeback buffer, block being filled, residency, blocks owed to the volume, days | append, drain, seal, submit, collect, sync, trim, free, reconcile | RecordLog |
| index `pending/src/index.rs` | cuckoo table of record positions, shadow of a dump | insert_new, repoint, remove, resolve, replace, begin/end_snapshot, restore_bucket | HoldTable |
| snapshots `pending/src/{snapshot,snapshots}.rs` | dump in progress, what is outstanding, the two names | begin, step, fill, give_up, abandon, finish, read_into | Snapshots; coverage and replay in RecordLog |
| files, cache `pending/src/{files,cache}.rs` | write lane, read pool, open files, cached blocks | write, barrier, rename, remove; submit, poll, keep, forget | Snapshots (writes), ReadPath (reads) |
| SPSC ring `base/src/spsc.rs` | slots, head, tail, cached indices | push, push_from, pop, a staged producer's send and flush, drop | SpscRing |
| idempotency, lane_order `idempotency/`, `stubkit/` | ids seen, results ordered per lane | ask, answer, misorder on purpose | Lanes (order and its fault); the map of ids is left out |
| consensus `raft/src/echo.rs` | proposals | commit, refuse, answer two in the wrong order | Commit; HoldPath and Lanes without the wrong order |
| service `service/src/lib.rs` | threads, drain deadline | start, stop, drain | Commit |
| device cost model `pending/src/block.rs` (LatencyStore, StoreModel), configuration, `ledgerd`, `ledgerfio`, `ledgersim`, `benchkit`, `sizing` | | drive, delay or measure the ledger | not modelled |

### How they interact

A client request enters by a ring, takes a slot and, if its debit account is
constrained, a seq on that account's lane.  The reactor asks idempotency about
it and, when it resolves a hold, asks the engine for the hold's record; when it
reads no hold but earlier requests of its lane wait for the engine, it sends a
fence through the same queue.  Both components answer later, each in lane
order.  When nothing is waited for, the request is judged against the balances
(the account's columns less what the lane has promised) and against the
overlay's view of the hold, and its effect joins the batch.  Consensus commits
or refuses batches in order; committing moves the columns, hands the hold's
decision to the engine (or to a backlog, when the ring is full), and answers
the client.  The engine publishes how many decisions it has applied; the
overlay drops a removal's marker only behind that number.

The engine's record of a hold goes from the writeback buffer into a block of
its day's segment, through the volume's write lane onto the disk; the index
follows it.  A dump of the index shares that lane and says from which position
of the log a restart must replay.  The sweep walks the blocks of a day that has
run out and offers a void for each hold still live, which the sequencer admits
like a request of its own or declines.

### What is hard

* The overlay and the engine disagree for as long as decisions and answers are
  on their way.  An answer made before a removal and read after it shows a hold
  that no longer exists.
* Every queue is bounded, and each full queue has its own path: a deferred
  request, a backlog of writes, a paused intake, a declined void, a chunk kept
  as bytes.
* Order is promised and never restored: a gap in a lane isolates the account.
  Chains, fences, deferred dispatch, voids and fail-stop all touch the order.
* A batch may be refused after later requests have been judged on it.
* Slots, lanes, segments, cache slots and file names are reused.
* A crash keeps what a barrier covered and any part of the rest, while a dump
  claims to know which part of the log is on the disk.

The list of hazards, each with its line, is in `PROJECT.json`.

## 2. The modules and the code

### HoldOverlay

Operators on one overlay entry, one for each method of `HoldOverlay`.  The
four variants of `enum Entry` and "no entry" share one record shape.

### HoldPath

A hold's life across the reactor and the engine.  Requests are creations,
settles and voids; what each asks is chosen in `Init` among well-formed
transfers, one creation per hold because a transaction id is used once.  Their
debit account is unconstrained, so no lane order protects the hold: only the
overlay does.

| action | code |
|---|---|
| `Admit` (`AdmitRefused`, `AdmitHold`, `AdmitResolution`) | `admit`, `prepare`, `dispatch`: the question goes, is deferred, or is skipped when the overlay knows the hold is gone |
| `RetryDispatch`, `FlushWrite` | `drain_backlogs` |
| `IdemAnswer`, `PendingAnswer` | `drain_replies`, `on_idem`, `on_pending`, then `judge` if it was the last answer |
| `Propose`, `StartApply` | `take_proposal`, `on_proposed`, `apply` |
| `ApplyEffect` | one effect of `commit_batch`: columns, reservation given back, `write`, `finish`; or `seal` |
| `RollBackEffect` | one effect of a refused batch: `compensate`, `finish` |
| `EvictIdle` | `evict_idle_holds`, `maintain` |
| `EngineApply`, `EngineLookup`, `Harvest`, `Publish` | the engine's `take`, `apply_effect`, `begin_lookup`, `harvest`, `publish` |

The reactor's handlers are atomic except the application of a batch, which is
one step per effect; the engine runs between any two steps.  `released`,
`ledger` and `saw` are history.  Left out of this module: lanes and chains
(Lanes), amounts' width (a hold's amount is a small number that never comes
near a limit), groups (BudgetGroups), expiry (Sweep).

### Lanes

Seqs, dispatch, chains and gates, the cascade, batches, quarantine, fail-stop,
the orderer on the engine's side, and shutdown.  Whether a judged request is
refused for money or as a duplicate is a free choice (`refused`), so is whether
the overlay knows the hold is missing (`known`) and whether committed writes
keep lookups back (`blocked`).

| action | code |
|---|---|
| `Admit`, `AdmitReserved` | `intake`, `admit`, `prepare`, `LinkedChains::admit`, `close_batch`; an id of the ledger's own is refused first |
| `AdmitExpiry` | `admit_expiry` |
| `RetryDispatch` | `drain_backlogs` |
| `IdemAnswer`, `SwapReplies` | `on_idem`; `LaneOrderer` with `violate_every` |
| `EngineTake`, `EngineFill`, `PendingAnswer` | `Orderer::expect`, `fill`, `pop_ready`, then `on_pending` |
| `JudgeNext` | one job of `run_cascade`: `judge`, `judge_chain`, `open_gates` |
| `Propose`, `Apply` | `take_proposal` with `chain_boundary`; `apply` |
| `ReleaseQuarantine`, `ClearFailStop`, `CloseIntake` | the operator's calls |

`misordered`, `crossed` and `burnt` record why a lane may show a gap.  An
answered request keeps only the chain it was in.

### SpscRing and BoundedFifo

The ring, one step per access to memory the other thread can see: `Offer` (the
test on the cached head, of `Push`, `Send` and `Flush`), `LoadHead`,
`WriteSlot`, `StoreTail`; `Pop` (the test on the cached tail), `LoadTail`,
`ReadSlot`, `StoreHead`; `DropRing`.  A load returns any index the other thread
has stored since the one last loaded, which is all that acquire and release
promise of it.  Indices wrap at `Modulus`, a multiple of the capacity as a
machine word is.  `wrapped` says whether the producer is inside a
`StagedProducer`.  The callers of `send` check `is_stuck` first (the assertion
in `send`), and so does `Send`.

`BoundedFifo` is what HoldPath and Lanes take a queue to be.  The mapping: the
queue is the window between head and tail, the value a pop has moved out of its
slot included until head is stored, and behind it the staged value.  A bare
producer's ring holds `Capacity`, a staged one's one more.

### Commit

Money from a judged request to an answered client: the balance check of a
constrained account against its columns and the lane's speculative overlay,
the batcher, consensus, apply in order, the account store, the outbox, the
pauses and the two-phase stop.  `Cap` is the largest value a column holds, so
an overflow happens in the run.

| action | code |
|---|---|
| `ClientStep` | the client sends a leg of a submission it has begun, or takes an answer |
| `Intake` | `intake`, `track_intake_pause` |
| `Judge` | `judge_chain_legs`, `direct_effect`, `take_overlays`; `reject_chain` |
| `Propose` | `take_proposal`, `chain_boundary`, `on_proposed`, `restore` when the ring is full |
| `DrainProposals`, `Deliver` | the stand-in consensus, with its refusals and its wrong order |
| `Apply` | `apply`, `commit_batch`, `move_columns`, `roll_back_batch`, `seal_applies` |
| `Flush`, `ClearFailStop` | `drain_backlogs`; the operator |
| `CloseIntake`, `Drained`, `TimedOut` | `serve_then_drain` |

### BudgetGroups

Groups across the engine's totals and the sequencer's judgment.  A lookup is
taken from the queue and answered at once or after a fetch (`TakeLookup`,
`Harvest`); the totals in the answer are of that moment (`with_group`), the
judgment comes later (`Judge`), the decision reaches the engine later still
(`Commit`, `TakeWrite`) or is taken back (`RollBack`).  `Expire` is a void of
the sweep.  The overlay is one number per hold.

### RecordLog

The engine's records from a committed decision to a synced block, and back
after a crash.  `Apply` and `Replay` are one decision of the log, `Writeback`
a round of drain, seal, submit, collect, sync and trim, `SweepExpiry` the turn
of a day and the reuse of a segment, `SnapshotRound` a step of a dump,
`LaneStep` one operation of the volume, `FaultRound` the end after a refused
one.  `CrashAndRestore` keeps of every file what was synced and any part of
what was written since, reads the current dump and reconciles the log with
the volume.  A restart with no dump at all is not taken: such an engine
replays the whole log over empty state, which is `Init`.  `strayed` is history: the holds a replay treats otherwise than the
first time (section 5).

### HoldTable

The index as the code has it: buckets, ways, fingerprints, the two homes of an
entry, the cascade with its limit, the mark on shared fingerprints and the
counts per segment.  `Write` and `Replay` apply a decision, `Carry` is
compaction's move of a record, `BeginSnapshot`, `NextBucket`, `EndSnapshot` a
dump beside them, `Restart` loads the dump.  The hashes are constants
(`MCHoldTable` chooses ones that clash).  `homeless` are holds a full cascade
left out, which the engine reports as not stored; `stolen` is history (section
5).  Operators keep the names of the functions.

### Snapshots

A dump's way to the disk.  `Begin`, `Step`, `Abandon` are the snapshot stage,
`Serve` the write lane's thread, `LogSubmit` and `LogCollect` the log's use of
the same lane.  A file is the set of blocks written into it and the set that
is synced; `Commit` is the file system writing its directory when it likes
(external), `Crash` keeps the durable names and the synced part of each file
and any part of the rest.

### ReadPath

A read through the cache and the pool.  `Seal`, `Free` and `Serve` are the
write side: blocks written, segments freed, files created and unlinked.
`Fetch` is `Cached::submit` (a hit, a read that joins another, a read of the
store), `PollReady` and `PollStore` the two halves of `poll`.  Block numbers
are never reused (`WriteOnce` of RecordLog), so a block's bytes are its
number.  A file remembers the segment it was made for, and `fault` is the key
whose read was refused, so that what a fault means can be stated exactly: the
block is in a file of its segment made after the one the read side has open.
`aliased` is history (section 5).

### Sweep

The calendar and the voids.  On the engine's side `SweepExpiry` (open_day,
propose_expiry, reclaim), `HandOverNotices`, `Take`, `Harvest`, `Carry`; on
the sequencer's `PublishExpiryRoom`, `DrainNotice`, `AdmitParkedExpiry`,
`DrainDeclines`, `JudgeVoid`.  `ClientResolves` and `Outcome` are the rest of
the ledger, `NextDay` the clock, `Restart` a restart that finds the index
again and nothing else.  `lapsed` is a history variable: whether the cursor in
force was placed while a hold was more than a cycle of segments behind what had
run out.  So is `let_go`: the voids the engine waits for of which no copy is left
anywhere (`LetGo`), because the expiry queue had no room or a batch was refused.

How they compose: every module takes its queues as BoundedFifo promises them,
which SpscRing is proved to implement.  RecordLog takes the index as a map,
which HoldTable's `FindsEveryHold` shows, and a dump's publication as atomic,
which Snapshots' `CurrentIsWhole` shows.  ReadPath relies on `WriteOnce`.
BudgetGroups and Commit take a hold as one number, what HoldPath's
`JudgedAgainstTruth` says a resolution is judged against.

## 3. The runs

`CHECK_DEADLOCK FALSE` everywhere: a ledger without clients is idle, and the
clients, days, dumps and crashes of a run are bounded.

| run | instance | what it shows |
|---|---|---|
| hold_path | 1 hold of 2, 4 requests, a ring that never fills, 1 refused batch | `NoOverPromise`, `JudgedAgainstTruth`: a hold's money is promised once and each resolution is judged against the truth; `ConservedUnlessRefused`, `NothingLeaks`: nothing is lost on the way |
| hold_live | 1 hold of 2, 3 requests, a ring of one command, 1 refused batch | the two threads' views agree when commands are refused, deferred and backlogged (`TypeOK`, `EngineFollowsCommits`, `OverlaySound`, `NoStaleAnswer`, `ReadYourWrites`), and every request in a slot is answered |
| hold_backlogged | as hold_path with a ring of one | the finding of section 5 |
| lanes | a constrained and an unconstrained lane, 2 requests, 1 void, 1 fault, fail-stop at one lane | `ChainWhole`; `RepliesBelong`: the orderer never waits in vain and no answer reaches another request's slot; `LaneBooksBalance`; `GapHasACause`: every isolation has one of three causes; `EveryRequestAnswered`: no request keeps a slot, open or judged |
| spsc_ring | 4 slots, indices of 8 values, 2 values, batches of 1 and 2 | the order of the four indices, one owner per slot, and that the ring is a bounded FIFO |
| record_log | 2 keys, one of a group, 4 decisions, blocks of one record, windows of one and none, 2 segments, 2 days, 1 dump, 1 crash | `LookupIsTruth`, `CoverageIsOnDisk`, `WriteOnce`, `TotalsTrue` |
| hold_index | 4 keys in 4 places with clashing hashes, 2 hops, 4 decisions, 1 compaction, 1 dump and restart | `EntriesSound`: counts exact, one slot for a hold, unmarked means alone; `FindsEveryHold`; `DumpIsOfItsInstant` |
| snapshots | 2 dumps of 2 chunks, a lane of 2, 1 operation of the log, 1 fault, 1 crash | `CurrentIsWhole`, `FinishedStays`, `DumpEnds` |
| read_path | 2 segments, 2 readers, a cache of 2, 3 blocks, segments freed twice | `ReadsAreTrue`: right bytes, no slot claimed twice, a fault exactly where a segment was freed and made again under an open descriptor; `EveryReadAnswered` |
| sweep | 2 holds, 2 segments, days 4 to 7, rings and an expiry queue of one, slices of two; one of a decline, a partial settle, a refused void, a restart | `DaysKeptApart`: no day skipped and one day in a segment, unless a restart found a hold a cycle behind; `DayFinishes`: a day that has run out ends, after a restart too, unless the calendar has stopped or a void was let go |
| commit | 3 accounts with columns of at most 2, 5 requests (a chain, a hold, its settlement, a deposit that may overflow), batches of 2, rings of one, 1 refusal, 1 swap, 1 clear | `NoOverdraft`, `StateFollowsLog`, `AcksAreTrue`, `AuditHolds`, `PauseEnds`, `DrainFinishes` |
| budget_groups | a group of 2 and a hold outside it, 5 submissions, one naming a member twice, voids of the sweep, 1 refused batch | `GroupMovesWhole`, `ReportsTheGroup` |

Each property is broken by a mutant of the code it is about; `PROJECT.json`
lists them.

Bounds.  Two resolutions on one hold are what every race of the hold path
needs; three and the creation let an eviction or a refused batch come between
them.  A hold of 2 can be settled partly once.  Holds share nothing but the
queues, so one is enough.  A ring of one command is full as soon as one command
is in it.  In Lanes two requests make a chain of two or stand before and behind
a void; the void is the third tenant of a slot.  In the ring an index range of
twice the capacity wraps after two laps, where a full and an empty ring are
closest, and a batch of two is split by a ring with one place left.  In
RecordLog a block of one record seals at every append, a residency of none
makes every read of a synced block go to the volume, and two segments come
round after two days; a dump with four decisions around it leaves some before
its coverage, some between coverage and the totals' instant, some after.  In
HoldTable one way and four buckets make every third insert a cascade and the
fourth one that fails.  In Snapshots a lane of two with one operation of the
log in it refuses the dump's second chunk.  A cache of two blocks evicts at
the third.  In Sweep two segments and a lifetime of one are the tightest
calendar `validate` admits; an expiry queue of one may be full when the second void of
a slice comes; the third day reuses the first one's segment and the fourth takes a
hold a cycle behind.  In Commit a column of at most 2 overflows at the
third unit, and a batch of two cuts behind a single request and before a chain.
`MaxReqs`, `MaxVoids`, `MaxFaults`, `MaxFailures`, `MaxEffects`, `MaxDay`,
`MaxCrashes`, `MaxRefused`, `MaxDumps`, `MaxMoves`, `MaxLogOps`, `MaxBlocks`,
`MaxFrees`, `MaxTurns`, `MaxSwaps`, `MaxClears` bound the
environment and nothing in the code.

Fairness.  The reactor's loop runs every stage in every tick and the engine's
loop drains its queue in every round, so weak fairness of each thread's steps
is what the code gives.

* HoldPath: `WF(Drain)` and `WF(Engine)`, one for each loop.  Lanes, Commit and
  Snapshots: one `WF` on the disjunction of what the threads have to do.  That
  is weaker than fairness of each, and enough: every such step uses up work.
* Admission has none, except that a client that has begun a chain ends its
  submission (a submission is finite and already in the queue); eviction,
  faults, the operator, days, crashes and stops have none.  Consensus and
  idempotency are taken to answer.
* Sweep: `WF` of each stage of both loops and of consensus' answer.  A client
  that goes on reducing a hold is bounded by the instance.
* ReadPath: a harvest polls until nothing is left, ready reads first, and the
  threads' queues in turn, so a finished read is not passed over for ever:
  strong fairness of each handle's poll.

## 4. The proofs

`HoldPath_proofs` proves six theorems for any number of holds and requests,
any amount and any limits, from the three assumptions of HoldPath (limits are
positive naturals, the set of requests is finite).

* `TypeCorrect`: `Spec => []TypeOK`.  `TypeOK` is inductive as it stands.  It
  says more than shapes: an effect's `left` is a natural because `Verdict`
  refuses what exceeds the remainder, and the pending column stays natural
  because `ApplyEffect` seals instead.
* `AnswersAreFresh`: `Spec => []NoStaleAnswer`.  The reactor isolates an
  account when an answer reflects fewer decisions than had been sent before the
  question.  The theorem says that check never fires against an engine that
  takes commands in order.  `NoStaleAnswer` is not inductive: a state with an
  old answer on its way breaks it in one step.  `StaleInv` adds
  `AnswersReflectQueue` (every answer and every fetch already reflects what its
  question must see), which needs `QueueInOrder` (the queue holds exactly the
  decisions sent and not applied, in order, each question behind those it must
  reflect), and `AskedOnce` (a request asks the engine once, so `expected` does
  not change while its question travels).

The proof goes action by action: steps that leave the queue alone
(`StaleUntouched`, `StaleElsewhere`), that append a decision (`StalePush`),
that append a question (`StaleAsk`), that take one from the head (`StaleApply`,
`StaleLookup`).

* `EngineFollows`: `Spec => []EngineFollowsCommits`.  The engine is handed every
  committed decision, once, whole and in commit order.  The property replays
  what has not been applied (`Handover`: the queue and then the backlog) on the
  engine's records with a recursive function; `Follows` says the same with runs
  (`EndsWith`: a sequence of remainders, each the one before turned by its
  command), so that appending at the end and taking from the head are facts
  about runs.  A refused or a lost command would show as a decision that is
  twice in the hand-over or in none: `LifeInv` says that a request asks idem and
  the engine once, is judged once, and is in the open batch, in one batch in
  flight or in the one being applied, once.
* `OverlayHolds`: `Spec => []OverlaySound`.  `ReadInv` and `PinInv` are the pins:
  only a request that reads a hold asks for it, and an entry's count is that of
  the requests with a question out or judged.  The marker of a removal is
  `MarkInv` (a removal the engine has not applied is marked, and the marker's
  number is past what is published, so it cannot be evicted) with `ReviveInv`
  (an answer or a fetch that still shows a hold the hand-over ends meets the
  marker).  The second needs to know whose answers can show what, and that is
  the rest of `SeenInv`.
* `ReadsOwnWrites`: `Spec => []ReadYourWrites`.  A client may ask about its hold
  while the creation is still in the queue, in the backlog, or applied with the
  answer on its way.  `KnownInv`: nobody knows of a hold before its creation is
  handed over.  `ShownInv`: a question that is owed the hold, because its client
  saw it acknowledged or because the overlay watches for it, finds it in what
  the queue has before the question, unless it was resolved; and an answer that
  finds nothing is an answer to a hold that was.  `ToldInv`: so a marker, a known
  absence or a `not_found` is told only of a hold that was resolved.
  `WrittenInv` and `CreatedInv` say of the backlog and of creations what these
  rest on: each is committed, once, and a creation leaves something.

`OverlayInv` is all of it.  A step of the reactor either only turns entries
(`Turns`: what may become of an entry when nothing is decided), or asks, or hands
a decision over (`HandsOver`); a step of the engine takes from the queue or
answers.  Each part of `SeenInv` is kept for these four kinds, and each action is
shown to be of one kind.

* `NothingIsKept`: `Spec => []NothingLeaks`.  `ReserveInv` says that every
  reservation, every mark of a full resolution and every pin has somebody behind
  it: a live entry reserves exactly what judged, undecided resolutions of its
  hold were promised (`ReservedInv`, a sum over requests), a mark has a resolution
  that takes all and is undecided or waits in the backlog (`ResolvedInv`), and a
  marker is never numbered past the decisions sent (`MarkedInv`).  Beneath it,
  every step is of one of five kinds: it decides nothing (`Quietly`), judges
  (`JudgedOn`), commits (`Commits`), refuses (`Refuses`) or hands over what waited
  (`Flushes`).  This one needs no condition: it holds with a backlog too.

`HoldMoney_proofs` has the theorems on the money of a hold.  With a backlog they
are false (section 5), so they are about behaviours in which nothing is held back
(`NothingHeldBack`: the backlog is empty), which is exactly what is broken there.

* `NothingPromisedTwice`: `Spec /\ []NothingHeldBack => []NoOverPromise`.
* `BooksBalance`: `Spec /\ []NothingHeldBack => []ConservedUnlessRefused`.
* `JudgedOnTheTruth`: `Spec /\ []NothingHeldBack => JudgedAgainstTruth`.

`MoneyInv` is what these rest on.  The hard case is a resolution judged on a
record the engine read some decisions ago, while others of the same hold are
promised, refused and committed.  The judged of all batches are in one order
(`Numbers`: a position for each, growing along the batch being applied, those in
flight and the open one), and `ShareInv` says that what a resolution takes and
leaves is no more than its share, what the hold has once everything promised
before it is taken, and is all of it until a batch is refused.  `CoverInv` says
that nowhere (an entry, an answer the overlay would believe, the log) is a
hold told of with more than it has, and `WholeInv` that until a batch is refused
it is nowhere told of with less.  `BehindInv` is why an old answer does no harm: a question
whose answer the overlay would believe has no resolution of its hold behind it
in the queue.  A refused batch is what makes the share an inequality: it takes
its promises away, and those judged on them leave less than the hold has.
The backlog is empty as long as the command queue is never full when a decision
is written.  Nothing in the code ensures that: the queue's default is 8192
commands (`pending/src/memory.rs:348`) beside 65536 slots
(`sequencer/src/config.rs:75`).  In the run `hold_path` a queue of four for four
requests never fills; `hold_backlogged` is what happens when it does.

`SpscRing_proofs` proves three theorems for every capacity, every index range
that is a multiple (at least two) of it, and every set of values; that is what
`CapacityAssumption` and `ValuesAssumption` say.

* `CachedIndicesBehind`: `Spec => []IndicesInOrder`.
* `SlotsHaveOneOwner`: `Spec => []OneOwner`, the argument in the comments of the
  unsafe blocks.
* `RingIsAFifo`: `Spec => RefinesFifo`.

All three rest on `RingInv`, which adds `PushFits` (a push in progress fits in
the room it has seen) and `SlotsMatch` (the slots that hold a value are exactly
those of the window, less the one moved out, and those the batch has written):
without the first a stored tail could pass head by more than a capacity, without
the second nothing says what is in the slot a pop reads.  Beneath it are lemmas
on wrapping indices: distances (`Distances`), and that indices less than a
capacity apart have different slots, across the wrap too (`SlotsApart`, from the
uniqueness of the remainder).  The refinement has one lemma per step: `StoreTail`
appends the batch, or turns the staged value into one inside; `LoadHead` appends
when it stages; `StoreHead` takes the first; `DropRing` empties; the others
stutter.

`Snapshots_proofs` proves two theorems for any number of chunks, queue depth,
share, number of dumps, faults and crashes (`SnapshotsAssumption`).

* `CurrentWhole`: `Spec => []CurrentIsWhole`.  The published name has every
  block of one dump, in memory and after any crash.
* `FinishedKept`: `Spec => []FinishedStays`.  A dump that was counted is not lost.

The invariant follows a dump through the lane it shares with the log.  `Mine`
is what of the lane is the dump's, in order (`OwnedBy`, the dispatch by owner).
`ProgressInv` says that the lane holds the tail of the one list of operations a
dump asks for (remove, its writes, the barrier), and that the partial file has
the writes already served, synced once the barrier is; `PublishInv` that a
rename is asked for only behind a barrier that was answered well, and that
nothing but a removal follows it; `CountInv` that every buffer out is counted,
so a draining run is over only when the lane has nothing of it; `NamesInv` that
a new file is under no durable name; `CurrentInv` that both names, the one in
memory and the one on the disk, are of a whole dump at least as new as the last
one counted.  An answer that failed breaks the first of these on purpose: the
progress is claimed for runs whose answers are all good (`Sound`), and `Broken`
ends the others.

`Commit_proofs` proves four theorems for any accounts,
requests, submissions, limits and faults of consensus, from
`CommitAssumption` (the opening books balance and overdraw no constrained
account) and `ClientAssumption` (a request is sent once, in one submission no
longer than a batch; a resolution names a request).  The module has the
invariant and every step but the judge's first, then the judge's step, then the
theorems.

* `NeverOverdrawn`: `Spec => []NoOverdraft`.  A leg may spend what earlier legs
  of its chain bring in, the batch is cut elsewhere than it was judged, and any
  batch may be refused.  `PromiseInv` says that there is, for each decided
  request, an effect and a need: the part of its reservation that its account
  has to have now, the rest coming from legs before it.  The available balance
  covers the sum of the needs (`Covered`), and a batch applied leg by leg never
  takes more from an account than the needs it has used up (`Levels`,
  `Rises`).  For the batch still open this is claimed from every place where no
  chain crosses (`Cut`): it is why `chain_boundary` has to walk back, and why
  the mutant that cuts inside a chain breaks the property.  A refused batch
  takes its needs away with it.
* `BooksFollowLog`: `Spec => []StateFollowsLog`.  `Offsets` places each commit
  still on its way in the log.
* `AnswersTrue`: `Spec => []AcksAreTrue`.  A request is with the client, in a
  slot or answered, never in two of these (`PlaceInv`); the batches in flight
  and those consensus has are matched by number (`FlightInv`, `RaftInv`), which
  holds until an answer in the wrong order seals the apply path, and then
  nothing is applied any more.
* `AuditPasses`: `Spec => []AuditHolds`.

`ReadPath_proofs` proves one theorem for any segments, requests, cache and pool
(`ReadPathAssumption`).

* `ReadsTrue`: `Spec => []ReadsAreTrue`.  `DiskInv`: a segment's name is its
  newest file, and a block the index may name is in it with no removal on its
  way.  `AskedInv`: a block asked for stays in a file no older than the one the
  read side has open, also when the segment is freed meanwhile.  `WaitInv`: a
  request waits in one place, for its poll, for another's read or for its own,
  and the pool's reads are of the files still open.  `HeldBy`: a claim's slot
  has its own block and is in the order of eviction, each slot for one key.
  Like the property it is about caches in which no slot was given away under a
  claim.

`Sweep_proofs` proves one theorem for any holds, any number of segments, any
lifetime shorter than the cycle, any limits and any number of restarts
(`SweepAssumption`: the clock does not start within two cycles of day zero).

* `DaysStayApart`: `Spec => []DaysKeptApart`.  `Calendar` says that the days of
  all holds on blocks are between the cursor and the day that is open, and these
  less than a cycle apart, so that days in one segment are one day
  (`CyclesApart`).  The cursor moves past a day only when no hold is in its
  segment, which by the invariant is the day's alone.  After a restart nothing is
  known of the cursor but the counts: `CursorPlaced` shows from the arithmetic of
  `oldest_unfinished_day` that a hold less than a cycle behind is not passed, and
  that one whose day has not run out puts the cursor a whole cycle before it, so
  that no day opens (then, and for as long as nothing restarts: the third part of
  `Calendar`).  Proving it is what showed that `lapsed` is needed: in smaller
  instances the clock does not get a cycle past a restart.

`FoldTheorems` has what the above need of sums, of filters and of folds over
sets and sequences.  The library's induction theorems take an operator, which
these provers cannot instantiate; stated with a set (`SetInduction`: a set with
0 and every successor has every natural) induction is within reach, and with it
that the recursive function in a LET exists (`RecursionExists`), what each of
its steps is (`FoldTrace`) and that the order of a commutative fold does not
matter (`FoldAnyOrder`).

`HoldPath_proofs` cites the same for its runs and for its sums.

Model-checked only.  The liveness properties stay with TLC in any case
(`EveryRequestAnswered`, `DumpEnds`, `EveryReadAnswered`, `DayFinishes`,
`PauseEnds`, `DrainFinishes`).  `NoOverPromise`, `ConservedUnlessRefused` and
`JudgedAgainstTruth` have no unconditional theorem because with a queue of one
they are not true of the code (`hold_backlogged`); what is proved of them is above.
The invariants of Lanes, RecordLog and BudgetGroups have no proof yet.
HoldTable uses Bitwise (a bucket's alternate is an exclusive or), which TLAPS
cannot be given.

## 5. What the models show about the code

**A backlogged settle can be promised twice** (`hold_backlogged`,
`sequencer/src/state/pending.rs:92`).  `commit_batch` gives a partial settle's
reservation back and hands the decision to `write`; with a backlog or a full
ring the overlay is told the new remainder only at `flush`.  A resolution
judged in between sees the old remainder.  `docs/request-flow.md:81-82`
promises otherwise.

Seen while modelling.  The passing runs leave each of these out by a bound, by
a history variable or by an exemption in the property, and say so there.

The hold path and the lanes:

* A refused batch can strand money.  An effect carries `remaining_after` as an
  absolute, judged on the settles before it.  When the first batch is refused
  and the second commits, the engine's record counts money nobody took.
  `docs/request-flow.md:112` expects a false reject only.
  `ConservedUnlessRefused` is stated for runs of events without that.
* A void inside an open chain isolates the lane (`reactor/intake.rs:91`).  It
  takes a seq between two legs and waits behind the chain.  `GapHasACause`
  counts it (`crossed`); `state/lane.rs:60` knows of one cause only.
* `max_legs` equal to the batch ceiling can stop the ledger
  (`rules/linked.rs:177`).  The terminator is not counted, so a chain has up to
  `max_legs + 1` legs, and `validate` (`config.rs:118`) admits a ceiling of
  `max_legs`; `chain_boundary` walks such a chain back to zero, empty batches are
  proposed for ever and what was judged is never answered.  `config.rs:147-148`
  says that the config refuses a ceiling that could not hold the longest chain.
  The run keeps the ceiling one above `max_legs`; with `MaxLegs`, `MaxBatch` and
  `QueuedLimit` at one TLC finds `EveryRequestAnswered` violated.
* A leg with a ledger-origin id does not doom its chain
  (`reactor/intake.rs:125`).  It is refused before the chain sees it;
  `ChainWhole` is about the chain the ledger formed.
* A fail-stop refuses requests that hold a seq (`burnt` in Lanes), and
  `clear_fail_stop` waits for batches only, so the next request on such a lane
  meets a gap: the third cause of `GapHasACause`.  The run burns a seq so, but
  a gap from that alone takes a second constrained lane and four requests,
  which its bounds leave out; the other two causes happen in it.

Commit:

* `close_intake` inside an open chain leaves its legs in their slots: no
  terminator will come, and the drain ends at its deadline
  (`reactor.rs:469`: "What is in the pipeline still finishes").
  `DrainFinishes`, and `EveryRequestAnswered` of Lanes, exempt that state.
* `clear_fail_stop` also clears the flag of a node whose apply path is sealed
  (`state/safety.rs`).
* A pause published with one cause keeps it when another takes over, since only
  transitions are published.

Budget groups:

* A hold of a group of several never expires: `budget.rs:23` wants a chain and
  a void of the sweep is never in one.
* A group that several submissions build is judged by the members reported when
  the first leg was looked up, so a member that joins meanwhile is left behind.
  The run keeps to what `docs/design-notes.md:653-659` describes: the holds
  one chain creates share a group.

Records and recovery (the calls `replay`, `restore` and `read_into` are made by
tests and benches only, so far):

* A replayed `Reduce` of a hold whose slot the dump left out repoints nothing
  and the hold is lost (`engine.rs:356-361`, `strayed`); a member of a group
  created and removed between coverage and the totals' instant is taken off the
  totals twice (`engine.rs:482-509`).
* After a restart a day's block range grows by a count while its next block is
  elsewhere (`block.rs:795-811`, `engine.rs:1039`), so the sweep's walk of that
  day misses it.
* A replayed `Create` that meets an unmarked slot with its fingerprint takes
  that slot from the hold it belongs to (`engine.rs:330`, `index.rs:385`,
  `stolen` in HoldTable).  A full cascade may leave out a hold other than the
  one `NotStored` names.

Reading:

* `keep` takes the slot `order.len()`, which after a `forget` may be one that a
  key still claims: `cache.rs:46` says "A slot is free exactly when no key maps
  to it" (`aliased` in ReadPath).
* The read side keeps the old file of a segment that was freed and used again
  (`files.rs:572`, `845-875`), and reads of the new one fault.
* `harvest` drops a lookup whose second candidate's fetch finds the pool busy
  (`engine.rs:271-279`).

Sweep:

* After a restart `oldest_unfinished_day` (`engine.rs:705-716`) also counts the
  segments of days that have not expired, so the cursor may start a whole cycle
  back, no day has a segment and both the calendar and the sweep stand still;
  when the clock runs far ahead of a stopped calendar it does not "release
  itself" (`engine.rs:727`).  `DayFinishes` exempts both (`Stopped`).
* A restart can step over a day.  The counts name segments, so a hold whose day
  ran out a cycle or more before the restart is taken for a hold of the last
  expired day with its segment number (`engine.rs:712`): the cursor starts after
  it, the sweep voids it with the later day's, and a new day may come to share
  its segment.  It happens when the node was away, or its sweep behind, for that
  long, and when the restart before it found a day that had not run out: the
  calendar stood still then with no day open, and what was carried meanwhile is,
  whatever its age, dated day zero.  The comment on the cursor says that "days therefore cannot be
  skipped" (`engine.rs:98`), and the one on `oldest_unfinished_day` that
  `day_has_a_segment` keeps the days apart (`engine.rs:702-704`), which it does
  only while nobody restarts.  `DaysKeptApart` exempts exactly this (`lapsed`).
* A void dropped at a full expiry queue (`reactor.rs:568-571`) is counted and
  nobody is told.  The engine's `outstanding` keeps it, `propose_expiry` offers
  nothing of that day while it does, and the day ends only with a restart or when
  a client resolves the hold.  `state/expiry.rs:11-14` and `config.rs:17-18` say
  that such a void is declined and offered again.  `has_room` asks for room for one
  void where its comment (`expiry.rs:44-49`) asks for a slice, so it takes no more
  than a slice of two.  A void that consensus refuses after its admission is lost
  in the same way.  Both happen in the run; `DayFinishes` exempts them, and only
  while the void still points at its hold (`Forgotten`): without that exemption
  TLC finds it violated by either.

## 6. Not modelled, and why

* LatencyStore and StoreModel: a stand-in that delays a store's answers.  Every
  order of answers it can produce is a behaviour of RecordLog or ReadPath.
* Configuration, sizing, footprint: arithmetic on start-up numbers.  What the
  models need of it is in their ASSUMEs.
* Metrics, log records and the log thread: nothing reads them back.
* The map of idempotency ids: its answer is a free choice in Lanes.
* The byte layout of blocks, records and dumps, checksums, aligned buffers:
  data no property tells apart; a read is of the right block or it is not.
* The orderer's rotation between lanes: answers of different lanes leave in any
  order.
* ledgerd, ledgerfio, ledgersim, benchkit: they drive or measure the system.

## 7. Plan

The components are modelled, and the theorems on the ring, the hold path's
queue, overlay and money, the commit path, the dumps, the read path and the
sweep's calendar are proved.  What is left is proof, in this order: `ReportsTheGroup` of
BudgetGroups; the counts of Lanes; and `CoverageIsOnDisk` of RecordLog.
