# A formal model of SynAPS RepairFlow

RepairFlow plans the repair of units in a shop: operations of repair cards are
given a post (work centre), a crew, tools and a time, within calendars, setups
between technological states, spare parts and permits. A plan comes either from
the repository's own list planner or from an external solver, the SynAPS kernel.
Whatever made it, a separate fail-closed checker, the *notary*, reads the plan
against the problem before a result may be called verified. When something
happens in the shop (a post goes down, a part is late, a job is urgent, an
inspection reveals damage) the plan is made again around what still holds.
Operators' decisions go to a hash-chained log that several processes append to,
and the agents that develop the program share out its issues by comments that a
tool replays.

These TLA+ modules follow the code under `src/src/repairflow/` and
`src/tools/agent_bus.py`. TLC checks them
on small shops; TLAPS proves the main results for all values of the constants.
Time is whole minutes from the start of the planning horizon throughout.

## 1. Inventory

| Part | Code | State it keeps | Operations | What makes it correct |
|---|---|---|---|---|
| Domain model | `model.py`, `scheduling_contract.py`, `checker_primitives.py` | none (a validated problem) | calendars, setup cells, validation of frozen rows | frozen rows are a feasible fragment |
| Lane colouring | `lane_setup.py` | the lanes during one pass | colour a post, stamp lanes | agrees with the set of all assignments of rows to lanes |
| Capacity sweep | `capacity.py` | a running sum in one walk, the open rows in another | peak, excess arrivals | no overload missed, none invented |
| Notary | `checker.py` | none | one check per kind of rule | accepts only plans that are feasible minute by minute |
| List planner | `planner.py` (`domain_greed`) | rows placed so far | place the next ready operation | what it publishes is short of operations at worst |
| Verdict and claim | `planner.py` (`wrap`, `classify_result`) | none | bind crews, stamp lanes, classify | no claim without its reason |
| Disruptions, replanning | `events.py`, `planner.py` | issued plan, card | seven kinds of events, freeze, release | only freed visits move; nothing broken stays frozen |
| Kernel fixpoint | `planner.py` (`_kernel_fixpoint`), `dag_compiler.py` | release windows, last answer | one pass per answer | converged means ordered; *optimal* is true |
| Decision log | `decision_log.py` | a file, a lock file | append (and append again), verify | one history; nothing acknowledged is lost; a damaged file is left alone |
| Kernel adapter | `adapter.py`, `kernel_compat.py` | none | compile a card for the kernel, refuse what it cannot state, bind crews to its answer | the notary's own derivation of the image agrees; nothing the notary judges is lost |
| Exchange pools, rotable spares | `ledger.py` | stock during one walk | demand, return | no minute of a clean plan is short of stock |
| Agent bus | `tools/agent_bus.py` | the comments of an issue; what each agent read last | claim, heartbeat, handoff, steal, done, replay | never two agents that may go on |
| Evidence | `evidence.py`, `integrity.py`, `attestation.py` | none | canonical JSON, hashes | not modelled |
| The rest | ingest, normalisation, reports, benchmarks, packaging | none | conversions, output | not modelled: no control of interest |

**How they interact.** The planner, the notary and the adapter are called in
sequence by one thread and share only the problem and the rows passed along.
The planner re-reads its own rows at every step (gaps, lanes, last visits), so a
step can invalidate what an earlier one relied on. Replanning feeds the issued
plan back as frozen rows of the next problem. The log is the one place where
processes run against each other: they share a file and a lock file. The agents
of the bus share the comments of an issue, and each goes by its last reading.

**What is hard.** Rows placed in list order into gaps *between* rows; parallel
posts, whose lanes are not stored but recomputed from the rows; two readers of
the same calendars, written apart (planner and notary); events that arrive on
top of each other; a loop around an external solver that knows chains only; an
image of the card that is derived twice, once to solve it and once to check it,
while windows are lifted and rows are frozen in between; crashes in the middle of
an append; and agents that act on readings of any age. `PROJECT.json` lists the hazards
line by line.

## 2. Modules

`Shop` (rows, occupancy, calendars) ← `Lanes` (colouring), `Ledger` (stock) ←
`Notary` ← `Verdict` (what `wrap` publishes) ← `ListPlanner` ← `Replan`,
`SlotScan`; `Notary` ← `Submission`. `DagCompiler` (edges, chains, windows) and
`Claim` ← `KernelFixpoint`; `DagCompiler` and `Verdict` ← `KernelImage`.
`CapacitySweep`, `AgentBus`, `DecisionLog` and `AppendOnlyLog` stand alone.
`Workshop` has the small shops that the `MC*` modules choose from. Proofs are in
modules of their own, named after what they prove about: `ReplanProofs` covers
`ListPlanner` and `Replan`, `OperatorProofs` what several of them need of the
operators (least and greatest elements, orders, folds, sums, the binding of crews,
the colouring of lanes, the compiler's windows).

**Shop, Lanes, Ledger, Notary, Verdict, Claim, DagCompiler** are pure: operators
over a problem `p` and a plan, a function from operations to rows. Operations,
posts and crews are numbers whose order is that of their identifiers. `Shop!Excess` is
the result of
the sweep; the sweep itself is `CapacitySweep`. `ColourLanes` folds over the rows
in order of occupancy exactly as `_colour_lanes` walks them. Each check of
`_constraint_violations` is one operator of `Notary` that returns pairs of a
reason code and what it is about.

**ListPlanner** has `placed` (the dict of `domain_greed`), `problem` and `done`.
`Place(o)` is one turn of the loop: `o` is the first ready operation in list
order that has a slot, and takes its best slot; `Stop` is a turn without one.
The scan of one gap (`_slot_from_lane`) is given by its result, the least start
for which `Fits` holds. ATC's index is a float that changes with every placement:
any ready operation may come first, which includes every order of the others.

**SlotScan** is that scan as the code does it: the cursor of `_slot_from_lane`,
which jumps past what blocks the candidate (`Blockers`, `_conflict_end`) or by one
minute where the post would colour it into another lane, and the walk of
`_advance_calendar` over the calendars, each with `Tries` tries (256 in the code)
and its stride of 30 minutes. `TriesSuffice` says of which problems these are enough.
`ScanFindsLeast` compares its result with that of `ListPlanner` in
every state that the planner reaches.

**Ledger** is `ledger.py`: a card is done when its sinks have ended, the unit goes
to the pool of its type, dated demands draw on it; a rotable spare is out until
its return lag is over. The notary calls it, as in the code.

**Replan** extends the planner with the issued plan. `Disrupt` is
`replan_disruption`/`replan_after_disruption` whole: apply the event to the card,
find the broken visits, release them with the tails of their lanes and their
direct successors, freeze the rest, raise the floors of the broken visits, start
planning. `Inspect` freezes every issued row and refuses when the card no longer
agrees with them. `Issue` is `wrap`. The next event starts from the card of the
last outcome, as the commands do when they are given the result of the last one.

**Submission** lets a shop write any rows of a finite set, one at a time, and
asks the notary about every plan on the way.

**CapacitySweep** has the two walks over start and end events, one action per
event and kind. `peak_concurrency` (`CountEnd`, `CountStart`) keeps a running sum of
weights and the greatest it has been; `excess_arrivals` (`Leave`, `Arrive`) keeps the
rows that are open and adds their weights up at every arrival. They share nothing
but the order of events, and may take their steps in any order. `Demand` is what
both are judged by, the weights of the rows over a minute.

**DagCompiler** is `dag_compiler.py`: a card's edges, the chain links that a
strategy makes of them, and the windows that an answer lifts across chains.

**KernelFixpoint** is one action per pass: the kernel answers the compiled
problem (chains, windows, posts; no lags), and edges outside the chains lift
windows. The kernel is external. It is taken to be honest: a plan it returns
satisfies its own problem, OPTIMAL is shortest for that problem, INFEASIBLE
means there is none. It may otherwise answer anything, with an operation left
out too. Makespan stands for its objective.

**KernelImage** composes the adapter, the kernel and the notary. `Compile` is
`to_schedule_problem`: for each operation the chain it is ordered in, its posts,
its earliest start, the resources it needs (a crew, a pool of the crews with its
skills, its tools), what the calendars of those resources leave, the setups.
`ImageMatches` is the notary's `_id_map_issues`, which derives all of that again
from the card without calling the compiler. `Refuse`, `Solve` and `Repair` are
the refusals before the first pass, a pass, and the repair of a plan around its
frozen rows. Identifiers stand for the names that are derived from them; codes,
labels and attributes are left out. `inside` keeps the one case in which a name
is not decoded uniquely, a job whose identifier begins with another's and a colon.

**AgentBus** has the clock, the comments (`thread`), the commits of the branches,
the last CI run, and for every agent what its last reading left it with (`view`).
`Replay` is the loop of `inspect_thread`; what a reader knows of commits and runs
may be anything true (`Evidence`). Agents post comments that `validate_object`
accepts; `Read` may happen at any time, so every other action works on a reading
of any age. Committing to a branch is the agents' own doing and external.

**DecisionLog** has the file as `lines` and a `rest` without newline, the lock
file, and a program counter for each process. A hash is the sequence of all
decisions up to its record: equal hashes mean equal histories, which is what a
collision-free hash gives. Any process may die anywhere; a write may be cut
short at a part of the line or just before its newline; `fsync` may fail. A caller
that was told of a failure, or nothing, may append the same decision again
(`CallAgain`): a new record, as nothing in the code recognises it. `unsure` has the
decisions on record of which no caller was told.
**AppendOnlyLog** is what it promises; `KeepsThePromise` is the refinement, with
the abstract log mapped to the decisions of the lines up to the first that is no
record (`History`): a decision is recorded a second time only while its caller has
no answer.

## 3. Runs

| Run | Shows |
|---|---|
| `planner` | `OnlyShortOfOperations`: at every moment the notary, which shares no code with the search, finds nothing in the published rows but missing operations. In every order ATC could choose, which includes those of GREED and EDD. Outside the shops this is promised for too (two lanes, expiring permits): links hold, no crew or tool is booked twice, no post overfilled. `ScanFindsLeast`: the walking cursor, given seven tries for eight minutes, and the least fitting start are the same. |
| `replan` | two events of any kind in a row on every issued plan, with and without a protected window: only freed visits move; `affected_operation_ids` is complete, and exact for closures; no work in any closure reported so far; broken slots are consumed; what is frozen of a sound plan is feasible. |
| `replan_answers` | the planner's loop ends and every event is answered, also when operations are left without a slot. |
| `submission` | the notary against an oracle that looks at single minutes and tries every assignment of rows to lanes (compare `tests/oracle_minutes.py`), with exchange pools and rotable spares. |
| `sweep` | both walks on all triples of intervals of weight one or two, empty and backward ones included: every arrival reported is over an overload and none is missed; the peak is the greatest demand of any minute. |
| `log` | two processes, three decisions, deaths, restarts, cut writes, retries, and one decision whose text splits lines: one chain; what was acknowledged survives, that decision aside; a file with a damaged line is not written to again (`FailsClosed`); the refinement of `AppendOnlyLog`; every call ends. |
| `kernel` | what is converged is ordered, what is claimed optimal is, what is verified is clean, windows only grow; for segments and for `serialize` on jobs that do not branch. |
| `image` | the notary takes the image that the program compiled, with the windows it was compiled with, after any number of passes and after repairs where one crew has the skills (`OwnImagesPass`); an image of another card or other windows passes only if the kernel would have been asked the same (`StaleImagesFail`); an answer to the image breaks no calendar, post capacity, crew or tool of the card (`KernelPlansAreClean`; its cards have posts with one lane, setups that take no time and spares in stock, so that it says nothing of parallel lanes, setups and spares). |
| `bus` | two agents with readings of any age: never are two entitled to go on (`OneEntitled`); who is entitled is the holder for every reader that gets an answer (`BeliefIsTrue`); nobody is reported just when the issue can be claimed (`FreeMeansClaimable`). |

Three more runs end in a counterexample; each is a disagreement between the code
and a statement of the repository, listed under `findings` with its quotation:

- `replan_unattended`: an unattended post closed for the whole horizon is taken
  for always open, by the planner and by the notary.
- `log_cut_write`: a record that lost only its newline swallows the next one.
- `image_repair`: a repair by the kernel compiles the card before it freezes the
  visits that are kept, and is judged by the card with the frozen rows. Where two
  crews have the skills of a kept visit the image names a pool, the notary expects
  the crew of the row, and every such repair is rejected.

**Known limits of the code.** The modules also model behaviour that the passing
runs leave out by their choice of shops, and no run of its own shows:

- Freeing the direct successors of a broken visit from the middle of a lane
  (`planner.py:391`) leaves frozen rows whose setup came from a freed one, which
  `model.py:615` rejects, and with it every answer.
- A text with U+2028, U+2029 or U+0085 is one line to the validator
  (`decision_log.py:86`) and several to `splitlines`; the log is unreadable after
  it, and such a decision is lost although it was acknowledged. The constant `Split`
  of `DecisionLog` has such decisions, and in `log` it has one:
  `CompleteWritesSurvive` says that no other decision is lost by it.
- A caller whose `fsync` failed, or who died before it was answered, cannot tell
  whether its decision is on record; appending it again may record it twice.
- On a parallel post the cursor moves by single minutes while the post would colour
  the visit into another lane (`planner.py:1420`), so a start further off than 256
  such minutes is not found, and the visit may be left out. With six tries instead
  of seven a shop of `planner` shows it (`ScanFindsLeast` is violated).
- With `serialize`, a branching job is put in one chain, and an optimum of that
  is claimed as one of the card (`planner.py:754`). `OptimalIsTrue` has the
  hypothesis that excludes it.
- On a parallel post an inserted row can change the lane, and so the setup, of a
  row placed before (`planner.py:1295` looks only at the next row of the lane);
  a replan can likewise recolour rows of a lane nothing happened on, as frozen
  rows carry no lane (`planner.py:372`). The notary rejects such plans.
- The list planner never reads when a permit expires (`planner.py:1163`), nor the
  quantity of a spare; the notary does.
- Frozen rows carry no tools. After an inspection, which freezes every visit, the
  planner may book a frozen visit's tool again; the notary rejects that answer,
  and what a later event freezes of it is not a feasible fragment. This is why
  `FrozenStaysFeasible` speaks of sound plans (`Sound`) only. `Sound` names the
  links besides, as one finding of the notary stands for a frozen visit with a
  predecessor missing and for one that breaks a lag to another.
- A visit that is protected by the caller's window, behind one on its post that
  is freed, keeps a setup that may be stale. `PostIsCut` names this and the
  cut by direct successors; `FrozenStaysFeasible` holds where neither happens.
- Visits that drew on a receipt which a delay drops are not found as affected
  (`events.py:287`).
- A problem that the kernel proved infeasible is published as PARTIAL, because a
  result without rows is never clean (`planner.py:719`).
- The kernel is given no frozen rows by `plan` (only by a repair), so its plan of
  a card that has some meets `FROZEN_MOVED`. It knows no lags and no edges between
  chains; both are left to the notary (`KernelPlansAreClean`).
- Pools that overlap without being equal may be promised the same crew twice; the
  notary refuses such a plan, and `CrewsApart` says where it cannot happen.
  Crews are bound greedily, in order of start.
- The image is tighter than the card for unattended posts with a calendar, for
  visits that may pause at posts with breaks, for operations without skills in a
  shop with one crew, and for pools, which count crews and not what each may take
  on. Such a card may have a plan that the kernel cannot find.
- A job `A` with an operation that splits into chain `B`, beside a job `A:B`,
  makes `_job_for_order_key` ambiguous; the honest image is refused
  (`ColonCards` has the names and no such chain).
- A steal is judged by the reader's comparison of the branch with `main`
  (`agent_bus.py:257`). Once its thief commits, as it is entitled to, every
  reader with a fresh comparison refuses the thread: hence `st.refused` in
  `BeliefIsTrue`. In the same way a thread with an earlier `done` needs that run
  from every later reader, and a heartbeat that arrives after its sender was
  displaced refuses the thread for good. `check-thread`, `check-done` and
  `check-steal` are documented, and `main` has none of them.

- A row frozen without a crew gets one at every publication, and not always the
  same; `OnlyFreedVisitsMove` leaves its crew open.
- A row on a post with one lane may name any lane; neither colouring nor notary
  looks at it.
- A row that ends before it starts can overflow the colouring without meeting any
  other, and the ledger then takes a card for done too early. Another check
  refuses such a row: hence the hypothesis in `StockoutsAreMinutes`.

Of all these only `replan_unattended` lets a wrong plan be called verified. A plan
may be called optimal for a card that has a shorter one in two ways: with
`serialize` on a job that branches, and where the image is tighter than the card
(an unattended post with a calendar, pauses at posts with breaks, a lone crew,
pools). In the others the notary or the status prevents both.

**Where the planner and the notary agree.** `ReadsAllThatBinds` in `ListPlanner`
says of which problems `OnlyShortOfOperations` is promised. Its parts name what
the planner does not read: the tools of and lags into rows frozen by hand
(`FrozenPlain`), and permits, latest finishes and quantities that run out
(`NothingRunsOut`). `FrozenFragmentOk` is no more than model validation asks, and
`IdleCellsGiven` is the one cell the two read differently. The runs of `Replan`
have posts with one lane besides. Outside these a plan may be rejected by the
notary; what holds there too is in the first row of the table. That the notary accepts
no wrong plan is checked apart, by `Submission`,
for any rows at all of its families (which have no unattended post). With
`missing_setup = "zero"` the planner, as model validation, counts a missing cell
out of idle as zero and the notary reports it (`GapSetup`, `ExpectedSetup`): a
row that opens a post is then refused. `ZeroShops` has a missing cell between
two states, which both read as zero.

**Bounds.** Shops have three visits (a fourth may arrive), two posts, two crews,
one tool and eight minutes: enough for a gap between two rows, a row across a
break, a crew and a tool busy on the other post, a predecessor of a predecessor,
and an event before, in and after every visit. Each family in `Workshop` varies
two or three of the hard things at once. Two lanes with four visits are the
least on which an inserted row has a row after it on both. Two events are the
least in which the second sees what the first left; a protected window that ends
at minute 4 cuts most plans in the middle. Two processes with three decisions
reach a fork, a stale tail and a cut write followed by an append, and two retries a
decision that is recorded twice. Weights of one and two at a capacity of two are
the least that tell a sum of weights from a count of rows. Cards of the
fixpoint have four operations, the least that branch and join. In `planner` the
cursor has seven tries, fewer than the minutes of the horizon: a calendar opens
that often in no shop, and the two-lane shops need all seven. Cards of the image
have three operations, five minutes and at most three passes: enough for an edge
between chains to lift a window and for the answer to it to lift another. Agents
of the bus are two, with four comments and three hours of which two make a holder
stale: enough to claim, lapse, take over, and hear again from the displaced one;
one branch may get a commit. `replan_answers`
uses a smaller family, as TLC must decide there when a step is enabled.

`CHECK_DEADLOCK FALSE` is set where the system stops: a planner that is done, a
log whose bound on decisions is reached, an image that was judged, a thread at its
bound.

**Fairness.** Planning and publishing are sequential code: weak fairness of
`Plan` and `Issue` says that it goes on running. Events need not come.
In the log, `RunOn(p)` says that a live process's file operations return and its
wait for the lock ends at the deadline the code gives it; nothing is assumed of
death, restart or the operator, so `CallsEnd` holds with a stale lock that nobody
ever removes.

## 4. Proofs

- **ReplanProofs**, for every set of problems that `ProblemOk` describes
  (frozen rows are rows of the card), every order of the loop, any rows frozen by
  hand, and any number of events that `EventOk` describes. `PlannerInv` is about
  the loop. It adds one row and changes none: a new row's links were checked with
  its predecessors in place; meeting is mutual, so that checking the new row
  against the old ones settles both; a post that did not get the row holds what it
  held (`OtherPosts`).
  `NotaryFindsNothingElse` is the agreement of the search with the notary, which
  shares no code with it. A row that passes the notary on its own stays so, and
  `PlacedFitsAlone` keeps what its slot was checked for: calendars, window, crew,
  duration, floor, spares, and the deadlines that frozen rows set. Setups are what
  a later row could spoil, and `SetupsFollow` is the invariant that says it does
  not. Rows on a post with one lane that never meet follow one another, and the
  notary's colouring then judges each row by the last one before it
  (`OneLaneInTurn` in **OperatorProofs**). A row put in a gap has the setup from the gap's
  last row; at most the gap's next row follows the new one instead of the old
  (`OnlyNextFollows`), and `FollowerHolds` was checked for that one. A row put
  before all others changes what the first one leaves, and one put after a row
  frozen by hand is judged from it: hence the invariant is about all rows, frozen
  ones too, and begins at what model validation asks of these
  (`FrozenSetupsInTurn`). The notary's checks are then taken one by one
  (`EveryRowPassesAlone` to `NothingElseIsFound`).
  `ReplanInv` says what an answer leaves for the next event:
  the issued plan is the placed rows with crews and lanes (`IssuedPlan`), rows of
  the last plan that were not freed are frozen where they stood (`KeptRows`), a
  visit that was hit has its floor behind the slot it lost (`BrokenSlotsOver`),
  and what was reported closed stays cut out of the calendars of later cards
  (`ClosuresCut`). Rows are frozen and published many times over; that this comes
  back to the same row is `FrozenAgain`. Two results have a hypothesis.
  `ClosedMeansNoWork` and `ClosuresHitNothingElse` need `ClosedAreStaffed`, as an
  unattended post whose calendar has become empty counts as always open: that is
  what the run `replan_unattended` shows. `AffectedMissesNothing` needs
  `DelayedArePlain`, that spares which are reported late have no receipts with a
  date, as visits that drew on a dropped receipt are not found (`events.py:287`).
  `FrozenFragmentsHold` compares what is frozen with the plan it is taken from.
  Each row passed the notary and the event does not name it, so it passes after
  the event (`SparedRowsPass`, from the checks behind `AffectedMissesNothing`).
  Fewer rows share no more of anything (`KeptRowsApart`). Setups need the shape of
  what is freed: with one lane to a post the tail that is freed is all of the post
  from the first hit on, so a row is kept behind a freed one only in the two ways
  that `PostIsCut` names (`KeptComeFirst`); elsewhere the kept rows are the first
  ones, and each follows the row it followed (`KeptSetupsHold`).
  `ScanFindsTheLeastStart` is about the cursor. Both of its loops, over the gap and
  over the calendars, are one search in bounded tries (`Tried`). If an answer is
  the first good start, and moving on passes over none (`Searches`), then so many
  tries find the first good start, or leave only those that are further off than
  the tries (`TriesFindLeast`). The calendars move a start on to the least that one
  of them takes (`AdvanceFindsLeast`). A later start has no earlier end
  (`EndsFollowStarts`), so that a missed deadline or lag ends the search for good
  (`LaterIsTooLate`), and whatever holds a post, a crew or a tool against a start
  holds it against every later one until it is over (`JumpsAreSafe`); for a full
  post that is the first of the rows met to end, and until then the post stays as
  full (`ExcessStays`). Where the horizon has more minutes than there are
  tries, it is counted what the cursor stops at (`MarksOfOpenings`). After the first
  try it stands where a calendar opens (`FittedIsOpening`) or behind a row that it
  jumped past, and it passes each of either once (`MarkPassed`). On a post with one
  lane the row that a post, a crew or a tool waits for is ahead (`BlockersAreAhead`)
  and the lane always matches (`OneLaneMatches`, `AloneIsRoom`), so that there is no
  step by a minute (`FewPassed`). The hypotheses are that links and spares can be read
  (`Scannable`, what model validation asks) and `TriesSuffice`: the calendars of a
  slot open in fewer minutes than there are tries, and its post has one lane and
  frozen rows that keep apart, with no more visits on the card than tries; a try for
  every minute is asked only of parallel posts. TLC evaluates both for the shops of
  `planner`, the second for those whose posts have one lane. Without it the cursor
  may find none, but never a later start than the least: `CursorPassesOverNone`.
- **CapacitySweepProofs**, for every finite set of intervals and all weights. The
  invariant says of each walk what is open between two events: the rows that have
  started and not ended. For `excess_arrivals` these are the rows it keeps, so that
  the sum at an arrival is the demand of its first minute; an overloaded minute has
  a row that arrived last, and that arrival is reported. For `peak_concurrency` the
  running sum is their weight, and the peak the greatest demand of the minutes
  walked (`PeakIsGreatest`). That one walk reports an arrival just when the peak of
  the other is over capacity follows from the minutes alone (`BothSweepsAgree`).
- **DecisionLogProofs**, for any processes and any number of decisions. The
  invariant ties the lock file to the program counters (`OwnsLock`) and the hash
  a process has read to the end of the file (`TipIsCurrent`): nothing else writes
  in between, so a sealed record continues the chain. `Whole` adds that a file
  without cut writes is readable and has what was acknowledged, as far as no text
  splits a line. `Fresh` says that a decision which is still to be written is in no
  other call, and on record only if no caller was told. That makes every step an
  append to `History`, an answer, the loss of one or a stutter: `LogImplementsPromise`,
  the refinement of `AppendOnlyLog`. A damaged line is the last one, as no process
  gets past loading it (`DamagedLogIsLeft`). All but `LogTyped` assume that no live
  process's lock is removed by hand (`Careless = FALSE`), and nothing else.
- **KernelFixpointProofs**, for every card that `CardOk` describes and any number
  of passes. A plan keeps the windows the kernel was given, so a broken edge that
  the kernel never saw lifts a window; where none moves, no edge is broken
  (`RestMeansOrdered`). For `serialize` order is carried along a job's chain, by
  the least operation that would break it. `OptimalIsTrue`: an optimum is only
  claimed after one pass without windows, when the kernel's problem had every
  plan of the card among its own, if the chain links are edges of the card.
  `SegmentsAddNoOrder` gives that for the default strategy; `serialize` lacks it.
  That passes only lift windows (`WindowsOnlyLift`) is in **OperatorProofs**, as
  the next module needs it too.
- **KernelImageProofs**, for every card that `Compilable` describes, which TLC
  evaluates on the cards of the runs (`CardsAssumption`). `ImageIsMatched` goes
  through the notary's check conjunct by conjunct: a chain does not leave its job,
  so an order is one chain; the earliest start is the greatest of its bounds and
  so one of them; a pool has a calendar just when its crews share one.
  `ImagesAgree` carries it over the steps: `CompiledInv` says that the image is that
  of the card and the windows it was built with, and that windows are only lifted
  across chains; `RepairedInv` what a repair leaves of that. A repair changes the card
  after it was compiled; it leaves the
  image matched if every operation is frozen or has exactly one crew with its
  skills (`Settled`), and the run `image_repair` shows that this is needed.
  The other direction is `PassingImagesAreAsked`: each part that the kernel reads
  is settled by one conjunct of the check, so two images that pass for the same
  card and windows ask the same. With `ImageIsMatched` it gives
  `StaleImagesAreRefused`, for every other card and all other windows.
  `KernelPlansStayClean` is about cards that the image describes in full
  (`PlainCard`: posts with one lane, setups that take no time, permits that last,
  spares in stock, no hard pools), which TLC evaluates on the cards of the run.
  A plan that meets the image is a function from operations to slots
  (`PlansAreSlots`), and its rows differ from what the notary reads in crews only
  (`FillingChangesNothing`, `RowsAreBound`). Of each kind of finding it is shown
  that the plan has none. Crews are the long part: the kernel is given a pool with the
  number of its crews, and the program picks the crews afterwards, row by row in
  order of start. The rows of a pool that meet are at most as many as its crews
  (`AskedOnceAtATime`, `BoundCrewsAreNotOver`), so when a row's turn comes one of
  the crews is free (`SomeCrewIsFree`), and later rows change nothing for it
  (`LaterRowsAreNotSeen`). Pools share no crew, or are the same
  (`ServedApart`), hence no other pool has taken it. Order between chains is not
  asked of the kernel and not promised here.
- **AgentBusProofs**, for any agents, branches, leases and length of the thread.
  `ReadOnce` is the invariant: who takes itself for the holder has read so after
  some comment, with some evidence, and has not given the issue away since. Two
  readers that get an answer went through the same states, whatever evidence each
  had (`ReadersAgree`); and no comment since takes the issue from a holder whose
  lease still runs (`HolderStays`), as claims and steals need one that was over
  when they were posted. That is `BeliefsHold`; `OneAgentWorks` follows by looking
  at the older reading from the younger one. Both rest on comments being in the
  order of one clock.
  `FreeIsClaimable`: a reader that gets an answer finds nobody just when a claim
  posted at that moment would be accepted by the same replay.
- **SubmissionProofs**, for every problem and every plan of rows that
  `RowsAssumption` describes: what `model.py` lets through. The checks of the
  notary are taken one by one against the oracle.
  *Capacity*: a minute over capacity has a row that arrived last, and the notary
  counts at that arrival; a pool of minutes is therefore a pool of arrivals.
  *Setups*: the colouring is a pass over rows in order of occupancy, and the
  invariant of the pass (`Tracks`) says that the rows walked so far are on the
  lanes they name, or on the only lanes that any assignment could give them
  (`Sure`). It is carried by the explicit pass (`FollowsNames`) and the implicit
  one (`Guesses`); in the end a fault of the colouring is a fault of every
  assignment (`SetupsAreExplained`, `ExplainedSetupsPass`).
  *Spares*: consumables run out at the last visit that draws on them, rotables are
  a capacity. The ledger walks from moment to moment; `WalkedTo` says what it has
  in stock there (`LeftAfter`), and that nothing happens between two moments. It
  takes a card for done when its sinks have ended, which is when all of it has,
  because links hold and have no cycle.
  *Stamping* changes lanes and nothing else (`SameButLanes`), which only the check
  of setups reads.
- **OperatorProofs** has no specification: facts about the operators, for any
  arguments, cited by name in the others: extremes, folds and sums over finite
  sets, the sweep against minutes, the colouring of a post with one lane, rows
  that differ in their lanes only, the binding of crews in turn, and the lifting
  of windows.

The theorems are about the models. What ties a model to the code is the reading
that `PROJECT.json` records in `map`, and the honesty of the kernel is assumed.

Only model-checked is liveness (`EventsAreAnswered`, `CallsEnd`), which is out of
the prover's reach. That the tries of the cursor are enough is proved for posts with one
lane; on
parallel posts with more minutes than tries it is false.

## 5. Not modelled

- Calendars shared by several resources, and demand for more than one unit of a
  spare by one visit.
- The refusal of a card above the cap of operations (`_cpsat_cap_refusal`), which
  has the shape of the refusals that are modelled.
- The codes, labels and attributes that an image copies, and the reading of crews
  and tools back from the kernel's identifiers: a conversion between names.
- Evidence: canonical JSON and hashes. With a hash that is injective their
  properties would hold by the shape of a model; what matters is the text that
  goes in, which has no control.
- The FIFO baseline, which ignores resources by design and is never claimed to be
  feasible; comparison of plans and nervousness, which only report.
- Parsing, normalisation, wording, reports, benchmarks, packaging; the native
  prototype in Rust, which nothing calls.
- On the bus, comments are in the order of `createdAt`. The code sorts these as
  text; times written with different offsets would be out of order.
- The engine's own findings, which only make a verdict stricter; and the cache of
  setup cells keyed by object identity, which is below this level.

## 6. Plan

Done: `Shop`, `Lanes`, `Ledger`, `Notary`, `Verdict`, `ListPlanner`, `SlotScan`,
`Submission`, `Replan`, `CapacitySweep`, `DecisionLog` over `AppendOnlyLog`,
`DagCompiler`, `Claim`, `KernelFixpoint`, `KernelImage`, `AgentBus`, and the
modules of proofs.

Next: cards of the image with setups and spares, of which the kernel is told in
part, and parallel posts in `KernelImage`.
