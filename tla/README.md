# SupplyIQ in TLA+

TLA+ specifications of SupplyIQ, the supply-chain optimization service of this
repository: what its request handlers promise about solved plans, how its rate
limiter and its solvers decide, checked with TLC on small instances and proved
with TLAPS for every instance. Paths such as `services/...` are relative to
`src/src/`.

## 1. The system

SupplyIQ is a FastAPI service with a Gradio UI. A client sends a replenishment,
routing or network request to `POST /<domain>/solve`; the domain's solver computes
a result, the pair is stored in one SQLite file under a fresh plan id, and the
result is returned. `GET /<domain>/plans/{id}` reads a result back. `POST
/copilot/ask` names a plan and a question: an LLM (Ollama) classifies the question
and, for a what-if, proposes modifications of the plan's request, which the
orchestrator applies, re-solves and stores as a new plan.

| Component | State | Operations | Hard behaviour | What makes it correct |
|---|---|---|---|---|
| Plan routes (`api/routes/*`) | none of their own; locals of handler threads | solve, get plan, ask | handlers run in threads of several processes; each has its own except clauses | the plan told to a client is stored, in the domain named, and answers what was asked; an error stores nothing |
| Plan storage (`services/storage/sqlite_service.py`) | table `plans` | save (an upsert), get by id and domain | one writer at a time, connection per call, rollback, locked file, crash before the commit | rows never change; the lock is always released |
| Copilot (`services/copilot/copilot_service.py`, `orchestrator.py`) | locals of one call | load, LLM call with up to 3 attempts, classify, re-read, modify, re-solve, save | the plan is read twice with LLM calls between; every step may fail in a way of its own | the plan modified is the plan the LLM saw; the call ends; the new plan is the modified one |
| Modification applier (`services/copilot/modification_applier.py`) | a copy of the request | path walk, list lookup, coercion, revalidation | a later modification walks through what an earlier one wrote; ambiguous keys; values outside JSON | each modification reaches the field it names, none is dropped, numbers and flags keep their kind |
| Network solver (`services/network/*`) | locals; `remaining_capacity` | LP, greedy fallback | two methods must agree; ties, caps of 0, repeated ids, exhausted warehouses | capacities and caps hold, shortfalls are forced and reported |
| Routing solver (`services/routing/*`) | locals; `remaining` | capacity check, OR-Tools, greedy fallback | time limit, windows, load and clock carried through nested loops | each stop once or unassigned; loads and durations fit |
| Replenishment solver (`services/replenishment/*`) | locals | formulas per SKU, LP under a budget | rounding after the LP, repeated SKUs, the table of z-scores | the budget is used and kept, urgent orders are cut last, no site is overfilled |
| Rate limiter (`api/middleware/rate_limit.py`) | a deque of times per client address, in memory | dispatch | boundary of the window, several processes, restarts | at most the limit per window, no undeserved 429 |
| Authentication (`api/dependencies.py`) | none | bearer token check | combination with the environment | the UI that is deployed with the API can use it |
| Application (`api/main.py`) | none | exception handlers, middleware, startup | errors that no handler maps | statuses as documented |
| UI (`ui/app.py`) | plan id and domain per session, copied by listeners into the copilot tab | solve, ask, change events | two listeners update plan id and domain, behind those of three tabs; gives up after 60 s | plan and domain belong together; the page comes to rest |
| Settings, schemas, metrics, logging, health | immutable or write-only | — | — | — |

Interactions: the routes call solvers and storage synchronously; the copilot calls
Ollama over HTTP and the same solvers and storage; API processes (two replicas in
the Kubernetes manifest) share only the SQLite file; UI and API meet over HTTP.

## 2. Modules

| Module | Models | Proofs |
|---|---|---|
| `PlanRegistry` | the abstract specification: a registry of immutable plans with a lineage | |
| `PlanService` | routes, copilot, orchestrator and storage, and implements `PlanRegistry` | `PlanServiceProofs` |
| `RateLimiter` | `RateLimitMiddleware` in several processes | `RateLimiterProofs` |
| `NetworkSolver` | `NetworkOptimizationSolver`, `GreedyCostAllocator` | `NetworkSolverProofs` |
| `RoutingSolver` | `VehicleRoutingSolver`, `GreedyNearestNeighborRouter` | `RoutingSolverProofs` |
| `ReplenishmentSolver` | `ReplenishmentSolver` with its linear program | `ReplenishmentSolverProofs` |
| `ModificationApplier` | `apply_modifications` | `ModificationApplierProofs` |
| `UiSession` | one session of the Gradio UI, the API's token check behind it | `UiSessionProofs` |
| `Sums` | the `sum()` of the solvers, as totals of a function over a set | `SumsProofs` |
| `MC...` | the instances that TLC checks (`MCUiSession*.cfg` are of `UiSession` itself) | |

Operators commented *Seeded fault* are not part of a specification: each is the
definition after it with a plausible bug, kept to show that the property aimed at
that code does fail when the code is wrong.

### PlanService

`plans` is the table (`domain`, `request`, `result` by id), `writers` the holder of
SQLite's write lock, `pc` and `task` the position and the locals of each handler
thread, `answers` the responses clients received. One action per step at which other
threads may interleave or something may fail:

| Actions | Code |
|---|---|
| `ReceiveSolve`, `GetPlan`, `ReceiveAsk` | the three kinds of route |
| `LoadPlan` | `CopilotService.ask` up to its loop, `_load_plan_data` |
| `LLMAnswers`, `LLMReplyInvalid`, `LLMFails` | one turn of the retry loop: a valid reply, one that is asked for again, one that raises past the loop |
| `Reread` | `_resolve_with_modifications`: second read and `apply_modifications` |
| `Solve`, `SolveFails` | the solver, and the drawing of the plan id |
| `BeginSave`, `BeginSaveFails`, `Commit`, `CommitFails` | `_save_plan` within `_connect` |
| `Respond`, `ResponseLost` | the response, rendered after the commit; the client may have gone |
| `Crash` | a process dies, its open transaction is rolled back |

A request stands for the result a solver computes from it, since the properties ask
only whether a result belongs to its request. `Applied` is the modification applier
by what it returns; `NonFinite` are requests with an infinite number in a field that
must hold one, which validation accepts and JSON cannot carry: saved as `null`, they
cannot be read back. (In an optional field, such as a budget, the `null` reads back as
"no bound": such requests are not meant.) `ClientRequests` are those that clients send;
what-ifs reach the others.
`StatusOf` is what the except clauses make of each exception.

`PlanRegistry` has a client's view: submitted requests, a store that only grows,
every entry solved from a submitted request or from the modified request of another
entry, and published ids that are in the store. `RefinesRegistry` maps `plans`
(without the domain) to `store` and the ids in successful answers to `published`.

### RateLimiter

`dispatch` has no `await` before it has recorded the request, so one dispatch is one
action (`Dispatch`). The history of recorded times `admitted` is kept, and the deque
is the part after `popped`: so properties can speak of any window, also one that the
deque has forgotten. Time is in whole seconds; `Restart` empties a process.

### NetworkSolver

`Feasible` and `Objective` are the LP as `_solve_exact` builds it, including that its
variables and demands are keyed by ids, so that a repeated one replaces the earlier.
GLOP is external: `SolveExact` returns any optimum, over whole units (the vertices
of the LP are whole when its data are), `ExactFails` any other exception, on which
the heuristic takes over. `NextEntry`, `TryLane`, `EntryDone`, `Finish` are the
greedy loops turn by turn. Costs are whole numbers; rounding to cents is left out.

### RoutingSolver

`Solutions` is the routing model as `_solve_exact` builds it: mandatory stops, a
capacity per vehicle, one time dimension in whole minutes with no slack, a free start
and a capacity that is the longest duration of all vehicles, windows on the time
dimension, which at a stop includes the service there. OR-Tools is external:
`SolveExact` returns any solution (the search is cut off by a time limit),
`ExactFindsNothing` none, `ExactRaises` what is not a `RoutingError`. `StepsOf` is
`_extract_solution`. `NextVehicle`, `Visit`, `VehicleDone`, `Finish` are the loops of
the heuristic. Travel times are in ticks, two per minute in the instance, so that
the truncation to minutes matters. Distances are travel times (the speed is constant).

### ReplenishmentSolver

`Recommend` computes `RecommendForSku` of every row: z-score by table and interpolation
(`ZScore`), reorder point, order quantity (`Eoq`, `Capped`), days of supply. Then the
plan is returned (`Unconstrained`), or a linear program shares the budget
(`ShareBudget`), or OR-Tools is missing or fails (`LpFails`). The program is a
fractional knapsack, one variable per SKU in [0, 1] and one row, so that `LpOptima` can
name its optimal vertices: SKUs of greatest worth in full, at most one in part. That its
variables, its coefficients and the unit costs are keyed by SKU, the last row winning,
is kept. Numbers are whole: levels in thousandths, z-scores in 1/90000 (each
interpolation is then whole), lead times are squares (their root multiplies the safety
stock), and the root in the order quantity is compared, not computed (`RoundRoot`).
Fractions are exact, where the code has floats; `round` goes to even.

### ModificationApplier

`data` is the dumped request, a function from places (sequences of keys) to nodes
with a kind and a value; `cursor` is the place the walk has reached. `Lookup` goes
through an indexed segment, `Descend` through a plain one, `SetField` writes the last
one with `Coerce`, `Reject` and `RefuseValue` raise, `Validate` is the second
`model_validate`. `FindListItem` returns the item that the code's two loops return:
by index if the key passes `isdigit()`, else the first with any identifying field equal
to it. `Digits` is `int()` of such keys: `"01"` is an index too, and a superscript digit
raises the `ValueError` that `Reject` shows.
`writes` records what each modification wrote. pydantic is external (`Accepts`); the
raw values are strings, of which only `float()` matters (`Float`). That the modified
data stays a request of the same type is what `PlanService` takes as
`TypePreservedAssumption`: the copy stays a well-formed dump (`TypeCorrect`), and the
final validation is with the type of the request.

### UiSession

Gradio is external and modelled by what the listeners of `build_ui` rely on: a listener
handles one event at a time, a newer event replaces one that waits, session values are
read when an event is handled. `ClickSolve`, `Solved`, `NotSolved` are the Solve
buttons; `RunChange` and `StoreChange` the change listener of a tab's plan id, which
stores plan and domain in the session; `ReadSession` and `Deliver` the two listeners
that copy these, each on its own, into the copilot tab; `Edit` is a user who types
there; `ClickAsk` and `Answer` the question. `Answers` is what the API says: nothing is
sent without a plan or a question, a plan is found in its own domain only, and
`TokenAccepted` is `require_api_token`, which `_post` meets without a header. `owner`
remembers where each plan was solved.

## 3. What is checked

### Runs that pass

| Run | Instance | Shows |
|---|---|---|
| `plan_service` | 3 threads in 2 processes, 3 calls, 2 attempts, 2 crashes or lost responses; 250 000 states | all safety properties of `PlanService`, `IInv`, append-only rows, the refinement |
| `plan_progress` | 2 threads in 2 processes, 3 calls, 3 attempts, fairness | every call ends |
| `rate_limiter` | 1 process, 2 clients, limit 2, window 2 s, clock to 6 s, 1 restart | limit per window, no undeserved 429, bounded memory |
| `network_solver` | 2 079 requests, both methods; 22 000 states | capacities, caps, accounted demand, forced shortfalls, agreement of the two methods |
| `routing_solver` | 2 560 requests, both methods; 30 000 states | stops once, loads, durations, windows of exact plans, greedy order |
| `replenishment_solver` | requests of up to three rows, budgets from 1; 33 000 states | the budget used but for rounding, sites not overfilled, monotone in the service level, urgent orders cut last |
| `modification_applier` | all pairs of 21 paths and 7 values on one request; 81 000 states | every modification reaches what it names, none is lost, kinds stay |
| `ui_session` | 2 tabs, 4 clicks, fairness; 91 000 states | plan and domain belong together at rest; the page comes to rest |

The properties, each aimed at a hazard that `PROJECT.json` lists by source line:

- `DisclosedPlansStored`, `AnswersMatchPlans`, `RereadAgrees`,
  `FailedCallsStoreNothing`, `OrphansHaveACause`, `NotFoundIsTrue`, `PlansAppendOnly`,
  `RefinesRegistry`, `EveryCallEnds` of `PlanService`. A plan nobody was told about
  exists only after a crash, a lost response, or a result that cannot be rendered.
- `IInv`, the inductive invariant of a module: it contains the types of the variables
  and the facts that the other properties rest on (in `PlanService` also
  `LockIsOfAnOpenTransaction` and `RowsFitTheirDomain`, in `RateLimiter`
  `DequesAreBounded`, in the solvers what a plan is computed from). That of
  `ReplenishmentSolver` is only proved: it says no more than which step computed what.
- `SlidingWindow`: any `Limit + 1` admitted requests span more than a window.
  `RejectionsAreDeserved`: rejected requests never prolong a block.
- `CapacityRespected`, `DemandIsAccountedFor`: no warehouse and no lane carries more
  than it may, and what is not shipped is reported. `ShortfallIsForced`,
  `CheapestFirst`: the greedy allocator leaves demand unmet, or uses a dearer lane, only
  where nothing else can give more. `FallbackPlansFitTheLP`, `OneLocationIsOptimal`: its
  plans are plans of the LP, where the LP has a variable at all, and optimal for one
  location. `InfeasibleIsTrue`: a 409 has a cut that proves it. The properties that
  relate shipments to demand per location assume locations listed once; what happens
  otherwise is described below.
- `StopsServedOnce`, `LoadsFit`, `RefusalIsTrue`; `DurationsFit`: the heuristic keeps
  each vehicle's own duration, OR-Tools only the longest one, plus the part of a
  minute that `int()` drops per leg; `WindowsBoundDepartures`: an exact plan's
  windows bound departures, not arrivals; `NearestFirst`, `LeftBehindIsForced`.
- `BudgetIsSpent`: when the budget binds, at most one order is cut in part and the
  spending differs from the budget by at most half a unit of that order.
  `OrdersFitTheSite`, also for a site that is over its capacity already.
  `MoreServiceMoreStock`: the interpolation is monotone. `CutsSpareTheUrgent`: what
  the weights of the program are for. (`BudgetIsSpent` and `CutsSpareTheUrgent` are
  about SKUs at one location each; `SpendCap` shows what happens otherwise.)
- `ReachesWhatItNames`: a modification reaches the field that its path denotes in the
  plan the user saw, unless an earlier one changed an identifier or a container.
  `AppliedMeansAll`: what is accepted holds every modification. `KindsAreKept`.
- `SettledTabIsConsistent`: whatever solves end in whatever order, at rest the copilot
  tab names a plan and the domain it was solved in. `Settles`: the chain of listeners
  comes to rest, and no call hangs.

Why the bounds are enough. Two threads of one process and one of another give every pair
of handlers, with and without a shared crash; three calls are a solve, a what-if about
it and either a reader, a rival writer or a what-if about the what-if. No step of a
handler depends on more than one other plan and one other transaction. Threads of one
process share only its crash, so that a third process would add nothing. The rate
limiter's clock runs through three windows, so that a deque fills, drains and fills
again. The solvers' requests were chosen for the branches of the loops: ties, caps of 0
and none, exhausted warehouses and vehicles, unreachable locations, closed warehouses,
repeated ids, stops that take too long; and for replenishment levels in and between the
entries of the table, full and overfull sites, free and priced orders, equal and
repeated SKUs. Two modifications are enough for one to disturb another; the pairs
include every branch of the walk. Two tabs and four clicks give two solves that overtake
each other with a question in between; the theorem of section 4 holds for any number of
both.

Fairness. `plan_progress` assumes weak fairness of each handler thread's steps: the LLM
client times out after 60 s (`LLMUnavailableError`), SQLite's busy timeout ends a wait
for the lock, and the solvers are bounded by time limits or loops over lists. Nothing is
assumed of clients, crashes or lost responses. `ui_session` assumes weak fairness of the
server's and the page's steps together: httpx gives up after 60 s, and Gradio works its
queue off; users need not click. The runs check deadlock, except those of `UiSession`,
whose session rests when the user has made all clicks; `Rest` and `Done` mark the ends
that are intended elsewhere. `Rest` is also the only bound on `PlanService`: no more
calls.

### Runs that find a violation

Each checks one statement of a document or comment that the code does not keep.

| Run | Statement | What happens |
|---|---|---|
| `unfetchable_plan` | the new plan can be fetched | not if a what-if made a number infinite (its clients send none themselves): solved, stored, `new_plan_id` told, and the read fails |
| `unmet_but_infeasible` | unmet demand is penalized, not infeasible | without a usable lane the LP path is infeasible |
| `spend_cap` | the budget caps the spending of a cycle | a SKU at two locations is budgeted once and ordered twice (rounding after the LP may add half a unit more, which `BudgetIsSpent` bounds) |
| `ui_unauthorized` | the compose file is a full local stack with a UI | the API asks for a token that the UI does not send: 401 for every call |

Other deviations met while modelling, visible in the modules' answers and outcomes
but not stated as properties:

- JSON of the LLM that is a list, or has `"modifications": null`, raises `TypeError`
  past the retry loop, a 500, where `copilot_service.py:104` has
  `IntentClassificationError` after retries (`LLMFails`).
- `fixed_operating_cost` ("Cost incurred only if this warehouse ships anything",
  `network_schemas.py:29`) is read by no solver.
- A location listed twice gets only its last demand from the LP, which calls the plan
  feasible (`network_solver.py:70`); `DemandIsAccountedFor` is about distinct locations.
- ADR-002 (22-23) has the heuristic take the nearest stop "respecting vehicle capacity
  and time budget"; its candidates respect the capacity, and the nearest of them ends
  the route when it is too late (`heuristic_router.py:59`, `LeftBehindIsForced`).
- `vrp_solver.py:129` gives OR-Tools the longest `max_route_duration_minutes` of all
  vehicles for each of them: an exact plan may exceed a vehicle's own (`DurationsFit`).
- The README's "Capacitated VRP with time windows" holds for exact plans; the heuristic
  never reads the windows, and its plan does not say so.
- `modification_applier.py:97-103` compares the key with every identifying field of an
  item before it goes on to the next: `shipping_lanes[L1]` is the first lane to L1.
- `int(float("inf"))` raises `OverflowError`, which `_set_typed_value` does not turn into
  `InvalidModificationError` (`modification_applier.py:127`), and `int()` of an index such
  as a superscript two a `ValueError` (line 92): a 500, not a 422.
- `ui/app.py:204` offers to "ask about the most recently solved plan from any tab"; a
  solve that fails later empties the copilot tab, and when two tabs are solved at once
  the one whose event is handled last wins. `SettledTabIsConsistent` says what is kept.
- `api/routes/copilot.py:20-21` promises a new plan id for every what-if; a what-if
  reply without modifications is answered with 200 and none (`orchestrator.py:48`).
- `/copilot/ask` answers an infeasible what-if with a 500, `/network/solve` the same
  problem with a 409, though ADR-004 (77-78) has the one mirror the other.
- `domain/exceptions.py:89` names read failures as `StorageError`; only writes are
  wrapped (`sqlite_service.py:115`).
- The limit of the rate limiter holds per process, and the Kubernetes manifest runs
  two: `SlidingWindow` says so in its quantifier over `Processes`.
- A location listed twice gets a lane's cap twice from the heuristic
  (`greedy_allocator.py:45`): `AllocationsAreCapped` bounds each entry only.
- ADR-002 (19-20) has the heuristic take over when the exact solver fails; routing
  does so for `RoutingError` only (`vrp_solver.py:87`), network for any exception.

## 4. What is proved

TLAPS checks these for all values of the constants: any number of threads, processes,
calls and faults, any request, matrix, limit or window.

Assumptions, all named in the modules and evaluated by TLC in the runs: the typing of
the constants (`RequestsAssumption`, `ModsAssumption`, `LimitAssumption`, ...), which
for the requests of the solvers is what their schemas validate (lists that are finite
and, where the schema has `min_length=1`, not empty; counts that are not negative);
of `PlanService`, `TypePreservedAssumption`: `apply_modifications` returns a request of
the domain it was given (it validates with `type(request)`).

- **`PlanServiceProofs`.** `IInv` adds to the safety properties what the locals of a
  handler say about the table: ids are drawn before use and owned by one handler
  until it responds (`PlanIdsAreOwned`), and the request in hand is the submitted or
  the modified one (`HandlersConsistent`). Without them `AnswersMatchPlans` is not
  inductive: a commit could overwrite a row somebody was told about. From it:
  every safety property of `plan_service`, `AppendOnly`, and `Refinement`, where
  `Commit` is `Store` or `Derive`, a response is `Publish`, `ReceiveSolve` is `Submit`,
  and all other steps stutter.
- **`RateLimiterProofs`.** `IInv`: recorded times are ordered and what was dropped had
  expired. A request is admitted only when fewer than `Limit` times are left in the
  deque, so the time `Limit` places before it was dropped, hence older than a window:
  `WindowSlides`. Also `RejectionsJustified`, `MemoryBounded`.
- **`SumsProofs`.** The laws of `Total` that the three solvers need: what it does on one
  more argument, a disjoint union, a larger set or larger terms, that sums by rows and by
  columns agree, and that the running value of a loop is the total of its terms.
  `Total` is a fold of the community modules over an arbitrary order (`CHOOSE`), so
  that even "the order does not matter" (`TotalRemove`) is an induction. The induction
  is over sets of subsets (`SubsetInduction`) and of numbers (`RangeInduction`): no
  theorem with an operator for a parameter is used.
- **`NetworkSolverProofs`.** The loop: capacity only shrinks, so a saturated lane stays
  so; lanes are tried in the order of the sort and each is used up while the entry needs
  more (`ServesInOrder`): `ShortfallForced`, `CheapestLaneFirst`. The plans: what a
  warehouse has lost is the total of what left it (`StockIsAccountedFor`), what an entry
  has got and what it needs are its demand (`NeedIsAccountedFor`), and a plan of the LP
  is a feasible optimum (`PlanIsOfItsMethod`): `CapacityIsRespected`,
  `AllDemandIsAccountedFor`, `FallbackFitsTheLP`. Optimality at one location
  (`OneLocationOptimal`) is an exchange argument: the greedy plan fills every lane below
  the last cost it pays and leaves the dearer ones empty (`Exchange`, `ThresholdSum`).
  `InfeasibilityIsTrue` is the max-flow min-cut theorem for this LP, by contraposition:
  if no set of locations needs more than can be brought to it, take bounds on the lanes
  that are still enough and cannot be lowered anywhere (`LeanExists`); each lane then has
  a tight set of locations; tight sets are closed under union and intersection
  (`Submodular`, `TightSetsCombine`); so the bounds themselves meet every demand exactly
  and fit every warehouse (`LeanMeetsDemand`, `LeanFitsCapacity`).
- **`RoutingSolverProofs`.** The heuristic: a route grows only at its end, so the past of
  a step never changes (`VisitKeepsThePast`), and the stops left before the next step are
  those that remain (`LeftIsRemaining`): `NearestStopFirst`, `LeftBehindForced`. Plans of
  either method: OR-Tools' are cuts of one order of the stops (`CutsAreInOrder`), whose
  extracted steps follow the two dimensions up to what `int()` drops
  (`StepsFollowTheDimensions`); the heuristic's are chained by its loads and clocks
  (`StepsAreChained`). From them `StopsVisitedOnce`, `LoadsWithinCapacity`,
  `RoutesEndInTime`, `WindowsKept`, and `RefusalsAreTrue`: were there an assignment that
  fits, its loads would add up to the demand that the check found too large.
- **`ReplenishmentSolverProofs`.** `IInv` only says which step computed what; it is where
  the theorems start. Every row has a recommendation, and with an order cost it is the one
  rounded root of the formula: the root exists below the limit of `Eoq` (`RootExists`) and
  no other number is within half of it, halves going to even (`RootIsUnique`):
  `EoqIsTheRoundedRoot`.
  `RoundRatio` is within half of its ratio and never passes a whole number that the ratio
  does not pass (`RoundRatioIsNear`, `RoundRatioIsBounded`): `OrdersFit`. The table is
  piecewise linear and its lines rise (`ZScoreOnTheLines`, `ZScoreGrows`):
  `MoreServiceMeansMoreStock`. An optimum is a split into full, empty and at most one part
  order, in the order of worth (`OptimumIsASplit`): `UrgentSpared`, and with the rounding
  of that part `BudgetSpent`.
- **`ModificationApplierProofs`.** A write puts a scalar of the field's own kind in the
  place of one node and drops what was below (`CoerceKeepsKinds`, `WriteKeepsDump`), so
  that the copy stays a dump: `TypeCorrect`, `KindsStay`. Every write is there as long as
  no later one goes above it (`WritesAreKept`): `NothingIsDropped`. As long as no write
  hits an identifier or a container, lookups give what they give in the original
  (`FoundAlike`, `LeadsAlike`), so the walk is where the path leads there
  (`PathsResolveAlike`): `PathsReach`.
- **`UiSessionProofs`.** `IInv`: a value that has no event waiting has been read or
  delivered as it is (`Mirrored`), the newest of what waits, runs and is stored is what
  the tab's box shows (`NewestIsShown`), and a box shows a plan of its own tab
  (`BoxesAreOwned`). The first two are what makes two independent listeners safe: at
  rest each has delivered the same stored pair. From it `Consistency`.

Every safety invariant and every action property of the passing runs is proved. Only
model-checked: liveness (`EveryCallEnds`, `Settles`), which rests on fairness and
`ENABLED` and is out of TLAPS' reach, and the violations of section 3, which need an
instance.

## 5. What is not modelled

- The LLM, OR-Tools, SQLite and uvicorn are external: their outcomes are choices.
- Floating point: money, times, levels and fractions are whole or exact numbers.
  Irrational safety stocks do not occur, since lead times are squares.
- Field validation, prompts, markdown, metrics, logs and health: no decision of the
  modelled code depends on them. Schema creation is idempotent and happens at start.
- The audit middleware and the order of the middleware: they keep no state and decide
  nothing. The health routes answer with constants.
- Gradio's own workings beyond the queue of a listener.
- Rounding of costs, distances and durations in results.

## 6. Plan

Done: `PlanRegistry` and `PlanService` with refinement and proofs; `RateLimiter`;
`NetworkSolver`; `RoutingSolver`; `ReplenishmentSolver`; `ModificationApplier`;
`UiSession`. Every part that keeps state or decides anything has a module.

Proved: the safety properties of all of them (section 4).

What is left:

1. The steps between `ModificationApplier` and `PlanService`: that a walk that ends is
   what `Applied` stands for, so that `TypePreservedAssumption` becomes a consequence of
   `TypeCorrect` and the final validation.
2. Operators of the models against reference definitions, for every input:
   `FindListItem` against the code's first match, `Capped` as the largest order that fits.
3. That the heuristics reach `Finish` in a number of steps the request bounds, as an
   invariant on a measure: what can be proved of their termination without fairness.
