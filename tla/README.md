# HopClaw: TLA+ specification of the run core and of audit delivery

HopClaw is an agent server. A user message becomes a *run* of a *session*; the
run is queued, dispatched, executed in rounds of model and tool calls, possibly
parked for an approval, and ends completed, failed or cancelled. This directory
holds TLA+ modules of that core, the TLC configurations that check them on small
instances, and TLAPS proofs of the properties that hold for every instance.

Paths below are relative to the repository; `PROJECT.json` maps every definition
to the lines it stands for.

## 1. The system

### Parts, their state and their operations

| part | state | operations |
|---|---|---|
| run status machine (`internal/domain/runstate`, `agent/run_transition.go`) | a status per run | `Transition`, checked against a table; finalisation |
| run store (`agent/memory.go`, `agent/sqlite_store.go`) | run records | `Create`, `Get`, `Update` (whole record, last writer wins), `ClaimQueuedRun` (the only conditional write) |
| session coordinator (`agent/memory.go`) | per session: active run, waiting list | `EnqueueSessionRun` (four modes), `NextQueuedRun`, `StartRun`, `FinishRun` |
| submission (`agent/submit_pipeline.go`, `runtime/ingress.go`) | a copy of the new record | dedupe, create, preflight, three writes of the copy, enqueue, dispatch decision |
| dispatch (`runtime/service.go`, `runtime/queue_dispatch.go`) | `dispatching`, one slot per run | `dispatchRun`, `dispatchNextQueuedRun`, `MarkBackgroundFailure` |
| release gate (`runtime/release_gate.go`) | a ticket per held run | hold before the first dispatch, bypass after approval |
| execution (`agent/run_execution.go`, `run_turn_execution.go`, `staged_turn_runner.go`, `component_turns.go`) | a copy of the record, the round | claim, rounds (prepare, plan, model, answer, tools, commit), resume of a parked batch, finalisation |
| cancellation (`agent/run_registry.go`, `run_finalizer.go`, `approval_flow.go`) | registered cancel functions | `CancelRun`, interruption, superseding |
| approvals (`approval/store.go`, `agent/approval_flow.go`, `runtime/approval.go`) | tickets, latest ticket per run | create, resolve, resume after approval |
| recovery (`runtime/state_maintenance.go`) | - | `RecoverOrphanedRuns` at start-up |
| approval timeouts (`approval/timeout.go`) | deadlines | sweep that decides overdue tickets |
| governance delivery (`internal/controlplane/governanceadapter`) | outbox entries | handle, attempt, back off, dead-letter, redrive |
| audit delivery (`audit/delivery*.go`, swapped by `bootstrap/controlplane_refresh.go`) | outbox, dispatcher, loop | handle, deliver due entries, redrive, swap |
| event bus (`eventbus`) | replay ring, subscribers | publish, subscribe, snapshot from a cursor |
| wake-up and cron (`wakeup`, `cron`) | triggers, jobs, timers | schedule, fire, update, catch up |
| plan execution (`agent/plan_executor.go`, `agent/workflow_yield.go`, `runtime/workflow_continuation.go`) | plan state in the run | execute ready steps, yield, continue |
| watch, heartbeat, automation | - | periodic submitters |
| channels, gateway, server, nodes, front ends | connections | transport of the operations above |
| model clients, tools, context, knowledge, policy, configuration | data | called by the execution; their outcome is a choice for the core |

### How they interact, and what is hard about it

A submission, the dispatch goroutine of each run, every `CancelRun`, every
`ResolveApproval` and the operator's resume run concurrently. They share the run
store, the coordinator's queue, the approval store and the cancel registry; each
of these is locked per operation, none across operations. A goroutine reads a
record, works on the copy for a while, and writes the whole copy back. So the
questions of this code are questions about interleavings:

- a copy that is older than a cancellation, a claim or an outcome is written back;
- the session's active slot is taken before the claim and given back on every
  way out, while a cancel gives it back too;
- the hand-over from a finished run to the next one relies on a `dispatching`
  slot that the next run may hold for another reason;
- a ticket is visible before its run is parked, and a decision may come from an
  operator, the timeout monitor, a cancel or the recovery;
- a cancel must find an execution that is just starting and never one that is gone;
- a restart finds records in every live status, tickets nobody waits for, and an
  empty queue;
- the execution loop goes round again on conflicts, empty answers and unavailable
  tools, and only its budget ends it.

Audit delivery raises the same questions about its outbox: a loop delivers from a
copy and saves it whole, while a redrive, the loop of another dispatcher or a
cancelled context interferes; the event ids it deduplicates on live in memory while
the outbox is durable; and whether a loop runs at all depends on who starts it.

What "correct" means here: sessions never block on a slot nobody will give back;
runs of a session execute one after the other; a decision and an outcome are
final; a parked batch runs only when approved; every run that was accepted gets
an outcome. `PROJECT.json` lists each hazard with the line where it bites and the
properties aimed at it.

## 2. Modules

| module | what it is |
|---|---|
| `RunState` | statuses, transition table |
| `SessionQueue` | the coordinator's queue as operators on a record; extended by `RunLifecycle` |
| `RunLifecycle` | the composed core: submission, dispatch, execution, cancellation, approvals, gate, restart |
| `MCRunLifecycle` | instance for TLC (symmetry set) |
| `RunLifecycleProofs` | TLAPS proofs about `RunLifecycle` |
| `AuditDelivery` | publishing into the audit outbox, the delivery loops, redrive, refresh, restart |
| `MCAuditDelivery` | instance for TLC |
| `AuditDeliveryProofs` | TLAPS proofs about `AuditDelivery` |

### RunLifecycle

One session, any finite or infinite set of runs. The variables are the stores
(`run`, `tickets`, `byRun`, `issued`), the coordinator (`queue`), the registry
(`cancels`, `ctxDone`), one dispatch goroutine per run (`w`), one `Submit` call
per run (`sub`), the `CancelRun` calls (`can`: one of the operator, one on behalf
of each submission), one `ResolveApproval` call per ticket (`app`), the operator's
resume calls (`res`), and counters of the bounded outside events (`used`).

An action is one access to shared state together with the local work up to the
next one; `pc` names the access that comes next. `w[r].copy` is the goroutine's
copy of the record, so a stale write is a write of `copy`. The path of the pcs:

    idle -> gate (-> hold -> held) -> begin (-> runnable -> ticket) -> start
         -> take -> claim -> announce -> lock -> enter (-> resume) -> loop
    loop -> prepare -> seeded -> plan -> model -> answer -> evaluate
         -> batch -> exec -> tools -> commit -> results -> loop
    park -> unwind;  final -> text;  refresh -> finalize -> unwind -> leave
    leave (-> bgGet -> bgWrite -> bgFinish) -> next -> forward -> handoff -> end -> idle

The pcs from `claim` to `unwind` form `InSlot`: the goroutine is between
`StartRun` and the `FinishRun` it will call. `Registered` adds the steps at which
its cancel function is registered.

What is a choice of the model: the answer of the model and of the tools, the
verdict of the policy, a failing hook, an expired deadline at every point where
the code looks at the context, and whether another writer has moved the session's
revision. What is data and left out: messages, prompts, plans, the phase of a run.

Abstractions a reader should know of:

- the steps of `dispatchRun` before the goroutine starts (the gate) run in the
  caller; they are modelled in the slot of the run that is dispatched, which is
  where their mutual exclusion comes from;
- consecutive `Update`s with the same content, and reads with nothing shared
  between them, are one step;
- the map `executing` adds nothing to `dispatching` and is left out;
- release readiness is constant per run (`Gated`);
- the round counter belongs to the run and bounds it across dispatches; the code
  restarts from `run.ToolRounds`, which has the same effect for a run whose rounds
  are saved;
- one `ResolveApproval` call per ticket at a time; a second caller that loses the
  race to the store is the branch of `ApprovalResolve` that finds the ticket decided;
- a failing approval store is modelled at the ticket bound;
- the sweep of stale cancel functions (`run_registry.go`) keeps those of running
  runs and is left out.

Not modelled in this module: plan mode, watch mode, workflow yields, deduplication
of external events, the block and advisory modes of the gate, pruning.

### AuditDelivery

- `pub[e]` is the goroutine inside `Publish` for event `e`: it has the event's id
  and the sinks `Handle` has still to enqueue for. `Enqueue` is one insert; it keeps
  an entry with the same sink and event id. `EnqueueFails` and `OutputFails` are the
  error returns.
- `loop[g]` is the goroutine of the `g`-th dispatcher since the process began. `Due`
  is one query of `processDue` and takes copies; `Deliver` is `deliverOne` up to its
  `Save`, with the sink's answer a choice (a call that fails may have arrived);
  `Save` writes the copy back, and fails for SQLite when the loop's context is
  cancelled. `Exit` is the return of `loop`.
- `Redrive` is one step in memory; with SQLite it reads, and `RedriveSave` writes.
- `SwapStart` and `SwapReplace` are the two halves of `dynamicAuditSink.Swap`;
  `RequestEnds` is the end of the context that `Start` was given. `targets[g]` and
  `output[g]` are what generation `g` was configured with.
- `Restart` begins the event ids again and keeps only the SQLite outbox.

Time is a clock that stops at `Horizon`; a delay that would go beyond ends there, so
backoff is never longer than in the code's order of events allows and every entry
becomes due. Delivery settings are the same for all dispatchers. Ids, the sink's
case-insensitive name and the record's contents are data. Times are compared as
instants; the SQLite store compares their RFC 3339 text. Not modelled: the rollback
of a failed refresh, which swaps the old dispatcher back in.

## 3. What TLC checks

`StoreHonoursCtx` distinguishes the SQLite store, which fails on a cancelled
context, from the in-memory one. Every run allows the system to come to rest
(`CHECK_DEADLOCK FALSE`): nobody has to submit, decide or cancel anything more.

| run | instance | properties |
|---|---|---|
| `approval` | 1 run, 2 rounds, 2 tickets, 1 cancel, 1 resume, 1 restart, SQLite | `TypeOK`, `CancelReachable`, `QueuedOnce`, `ParkedHasTicket`, `ResumedIsApproved`, `DecisionIsFinal`, `OutcomeIsPermanent` |
| `session` | 2 runs, coalesce mode, one gated, 1 ticket | `SlotOwned`, `BacklogBound`, `OneRunAtATime` |
| `interrupt` | 2 runs, interrupt mode, follow-up, 1 cancel | `SlotOwned`, `OutcomeIsPermanent` |
| `ending` | 2 runs, follow-up, 1 restart, SQLite, fairness | `OneRunAtATime`, `DispatchEnds`, `RunningEnds`, `SubmissionSettles` |
| `audit_memory` | 2 events, 1 sink, 2 attempts, 1 redrive, 1 swap, 1 restart, in memory, cancelled contexts; symmetric | `TypeOK`, `DeliveredIsReceived`, `RetryBudget`, `CallsAreDue`, `DeliveredIsFinal` |
| `audit_sqlite` | 1 event, 2 sinks, 2 attempts, 1 each of redrive, swap and failed write, with and without a local output, fairness | `DeliveredIsReceived`, `DeadIsExhausted`, `HandledIsQueued`, `LoopSettles` |

The bounds are the smallest at which the cases happen: two tickets so that a run
is parked twice, two rounds so that a stale batch meets a newer one, one of each
outside event because each event already races every step, two runs because every
race over the queue is between the run that holds it and the one that wants it, or
between a waiting run and the one that replaces it. For audit delivery: two
attempts so that an entry waits for its retry, one swap so that two loops are alive,
two sinks so that a refresh can drop one that still has entries.

Fairness (`Fairness`): the Go scheduler runs every runnable goroutine and a call
that has begun is carried through, so every goroutine and every call in progress
is weakly fair. Model and tool calls have deadlines, so their steps are fair too.
Nobody is obliged to submit, cancel, resume, decide a ticket or restart. In
`AuditDelivery` time passes and a loop that can move does, because its ticker wakes
it; a swap, a redrive and a publish under way are carried through.

### Where the code and its own words differ

Six runs state what a comment, a document or a test of the repository says and TLC
finds a behaviour of the code that breaks it; `PROJECT.json` quotes the lines.

| run | property | what happens |
|---|---|---|
| `serialized` | `ExecutionIsSerialized` | `Submit` writes its first copy over a cancellation; the run is claimed, the cancel in progress frees its slot, a second run starts beside it |
| `wakeup` | `QueuedRunLeavesQueue` | the hand-over is dropped because the next run's failed attempt still holds its dispatch slot |
| `parked` | `ApprovedRunContinues` | an approval between the ticket's creation and the parking is lost |
| `gate` | `GateHeldBeforeStart` | the next run is dispatched on a context that carries the gate bypass of the previous one |
| `audit_unstarted` | `PendingSettles` | the dispatcher built at bootstrap is subscribed but never started |
| `audit_renumbered` | `HandledIsQueued` | after a restart a new event gets an old id and the outbox ignores it |

`PendingSettles` fails in two more ways that the model has and these runs leave out:
beside a local output (`OutputChoices = {TRUE}`) the dispatcher sits in a `MultiSink`,
which nothing can start, and a dispatcher that a request's refresh started
(`ByRequest`) stops with the request.

These are also the reason for the shape of some properties that hold:
`OutcomeIsPermanent` speaks of runs nobody holds an older copy of, `OneRunAtATime`
of sessions without cancellations, `RunningEnds` of runs without approvals,
`SubmissionSettles` of a run that is alone in its session.
`LoopSettles` speaks of loops that run. `CallsAreDue`, `RetryBudget` and
`DeliveredIsFinal` are checked for the in-memory outbox only: with SQLite two loops
and the two-step redrive may repeat a delivery, which at-least-once delivery permits.

## 4. What is proved

`RunLifecycleProofs` proves, for every set of runs, queue mode, kind of store and
bound, from the assumptions named in `RunLifecycle` (`RunsAssumption`: the empty
run id and the operator are no runs; `ModeAssumption`; `BoundAssumption`: the
bounds are natural numbers and there is at least one round):

| theorem | statement |
|---|---|
| `TypeCorrect` | `Spec => []TypeOK` |
| `SlotIsOwned` | `Spec => []SlotOwned` |
| `RegistryIsExact` | `Spec => []CancelReachable` |
| `DecisionsAreFinal` | `Spec => DecisionIsFinal` |
| `BacklogIsBounded` | `Spec => []BacklogBound` |
| `RunsQueueOnce` | `Spec => []QueuedOnce` |

The argument. `TypeOK` is not inductive. The round counter stays within its
budget only because a turn is prepared when a round is left (`RoundsLeft`), and an
approval reads the record of its ticket's run, so a ticket that is being decided
must belong to a run (`TicketInv`, which also says that ids are handed out in
order). `TypeIInv` is the conjunction. Each shorthand of the model has a lemma that
says where it moves its goroutine (`Moves`); from these `InnerStays` concludes that
a step within an execution keeps the goroutine in its slot and touches neither
queue nor registry, and `OuterStays` the same for the steps outside. `Classes` sums
up: a step of the system moves goroutines within `InSlot` or outside `Registered`,
or it is one of the seven that cross the border. With it `SlotOwned` and
`CancelReachable` are inductive by themselves. `StoreChanges` lists what can happen
to the tickets in one step; `DecisionIsFinal` follows from it, and needs the order
of the ids because a new ticket must not overwrite a decided one. `QueuedOnce` needs
`QueueInv`: a run waits only after its `Submit` has put it there.

`AuditDeliveryProofs` proves, from the assumptions named in `AuditDelivery` (what
`DeliveryConfig.normalized` guarantees, finitely many sinks, natural bounds):

| theorem | statement |
|---|---|
| `TypeCorrect` | `Spec => []TypeOK` |
| `DeliveredMeansReceived` | `Spec => []DeliveredIsReceived` |
| `DeadMeansExhausted` | `Spec => []DeadIsExhausted` |
| `HandledMeansQueued` | `Spec => []HandledIsQueued`, assuming `MaxRestarts = 0` |

The argument. A status is decided on a loop's copy and written later, so `TruthInv`
says of the copy a loop is about to save what the two properties say of the outbox,
and that a redrive in progress holds a pending copy. `HandledIsQueued` needs
`QueueInv`: an id belongs to one event (`IdsUnique`), every entry and every copy is
of the event its id belongs to (`EntriesStand`, `CopiesStand`), and the sinks a
publisher is done with have their slot taken (`PublishersInv`). Writes only put such
entries into the outbox, so a taken slot stays taken by its event. The restart is the
one step that breaks `IdsUnique`, and `audit_renumbered` shows what follows.

Only model-checked: liveness (`DispatchEnds`, `RunningEnds`, `SubmissionSettles`,
`LoopSettles`), which the prover does not support under fairness, and so far
`ParkedHasTicket`, `ResumedIsApproved`, `OutcomeIsPermanent`, `OneRunAtATime`,
`CallsAreDue`, `RetryBudget` and `DeliveredIsFinal`.

## 5. Plan

In order of importance:

1. *Governance delivery*: the outbox of `delivery.go` with attempts, backoff,
   dead letters and redrive; an abstract outbox (an entry is delivered at least
   once or dead-lettered) that it and `AuditDelivery` implement; no entry is lost
   across restarts.
2. *Turn commit*: the session lease and revision check behind the choices of
   `Seeded`, `Plan`, `Answer` and `Results`; an abstract atomic turn.
3. *Event bus*: bounded replay and subscriber cursors; a subscriber either sees
   every event in order or is told that it has lost some.
4. *Wake-up and cron*: a trigger fires once per occurrence, updates win over
   timers that have been stopped too late, catch-up does not double a tick.
5. *Approval timeouts* composed with `RunLifecycle`'s approval calls.
6. *Workflow continuation*: plan steps, yields and their resumption.
7. *Proofs*: `ParkedHasTicket` and `ResumedIsApproved` (a run that waits for
   approval has no execution beyond `unwind`, and copies name tickets of their own
   run), `OutcomeIsPermanent`, `DeliveredIsFinal` for the in-memory outbox, and the
   refinements of the modules above.
