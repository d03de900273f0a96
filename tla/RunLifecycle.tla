---------------------------- MODULE RunLifecycle ----------------------------
(***************************************************************************)
(* The life of the runs of one session: submission, the dispatch           *)
(* goroutines that execute them, operator cancellation, approvals and      *)
(* process restart, interleaved at the accesses to the state they share.   *)
(*                                                                         *)
(*   run      the run store: whole records, the last Update wins           *)
(*   queue    the coordinator's queue of the session (SessionQueue)        *)
(*   tickets, byRun, issued   the approval store                           *)
(*   w        the dispatch goroutine of each run (Service.dispatchRun and  *)
(*            AgentComponent.ExecuteRun / ResumeRun below it); its slot in *)
(*            Service.dispatching is held exactly while pc # "idle"        *)
(*   cancels, ctxDone   the registered cancel functions, and the runs      *)
(*            whose execution context has been cancelled                   *)
(*   sub      the Submit call that creates each run                        *)
(*   can      CancelRun calls: one the operator makes, and the ones an     *)
(*            interrupting or superseding Submit makes on its own behalf   *)
(*   app      the ResolveApproval call on each ticket (an operator, an     *)
(*            external approver or the timeout monitor)                    *)
(*   res      the operator's ResumeRun calls past their status check         *)
(*   used     how often the bounded outside events have happened           *)
(*                                                                         *)
(* A record keeps what control depends on: status, the approval id (0 is   *)
(* none), the pending tool batch (0 is none) and whether StartedAt is set. *)
(* Every goroutine works on a copy and writes the copy back, so each read  *)
(* (Get, refreshRun) and each write (Update) is a step of its own.         *)
(***************************************************************************)
EXTENDS Naturals, RunState, SessionQueue

CONSTANTS
  Runs,             \* run ids the session may see
  Operator,         \* the outside caller of CancelRun
  QueueMode,        \* AgentConfig.QueueMode
  MayClarify,       \* runs whose preflight may block for more input
  Gated,            \* high-risk runs whose release readiness report is not ready
  BindsSnapshot,    \* an effective-config snapshot is installed
  StoreHonoursCtx,  \* the run store fails on a cancelled context (SQLite)
  MaxRounds,        \* bound: rounds of the execution loop per run
  MaxTickets,       \* bound: approval tickets
  MaxCancels,       \* bound: operator CancelRun calls
  MaxResumes,       \* bound: operator ResumeRun calls
  MaxRestarts       \* bound: process restarts

Callers == Runs \cup {Operator}
TicketIds == 1 .. MaxTickets

ASSUME RunsAssumption ==
  /\ NoRun \notin Runs /\ Operator \notin Runs
  /\ MayClarify \subseteq Runs /\ Gated \subseteq Runs

ASSUME ModeAssumption ==
  /\ QueueMode \in QueueModes
  /\ BindsSnapshot \in BOOLEAN /\ StoreHonoursCtx \in BOOLEAN

ASSUME BoundAssumption ==
  /\ MaxRounds \in Nat \ {0} /\ MaxTickets \in Nat /\ MaxCancels \in Nat
  /\ MaxResumes \in Nat /\ MaxRestarts \in Nat

VARIABLES run, queue, tickets, byRun, issued, w, cancels, ctxDone, sub, can, app, res, used

store == <<tickets, byRun, issued>>
vars  == <<run, queue, store, w, cancels, ctxDone, sub, can, app, res, used>>

-----------------------------------------------------------------------------
(* Records, tickets and goroutines. *)

Record == [status : Status \cup {"absent"}, approval : 0 .. MaxTickets,
           pending : 0 .. MaxRounds, started : BOOLEAN]

Absent == [status |-> "absent", approval |-> 0, pending |-> 0, started |-> FALSE]

NewRecord == [Absent EXCEPT !.status = "queued"]

\* transitionRun: an invalid transition leaves the copy as it is, options included.
Transition(rec, st, approval, pending) ==
  IF st = rec.status \/ ValidTransition(rec.status, st)
    THEN [rec EXCEPT !.status = st, !.approval = approval, !.pending = pending]
    ELSE rec

\* finalizeRun's change to the copy; a terminal copy is left alone.
Finalized(rec, st) ==
  IF rec.status \in Terminal THEN rec ELSE Transition(rec, st, 0, 0)

Live(r) == run[r].status # "absent" /\ run[r].status \notin Terminal

NoTicket == [run |-> NoRun, batch |-> 0, status |-> "none"]

LatestStatus(r) == IF byRun[r] = 0 THEN "none" ELSE tickets[byRun[r]].status

\* InMemoryStore.Create: a pending ticket of the run is reused.
CreateTicket(r, batch) ==
  IF LatestStatus(r) = "pending"
    THEN UNCHANGED store
    ELSE /\ issued < MaxTickets
         /\ issued'  = issued + 1
         /\ byRun'   = [byRun EXCEPT ![r] = issued + 1]
         /\ tickets' = [tickets EXCEPT ![issued + 1] =
                          [run |-> r, batch |-> batch, status |-> "pending"]]

\* Mutant of Resolved: a decided ticket is decided again.
ResolvedAgain(t, st) == IF t # 0 THEN [tickets EXCEPT ![t].status = st] ELSE tickets

\* InMemoryStore.Resolve: only a pending ticket changes.
Resolved(t, st) ==
  IF t # 0 /\ tickets[t].status = "pending"
    THEN [tickets EXCEPT ![t].status = st]
    ELSE tickets

\* The goroutine's program counters, in the order of the code.
WorkerPc == {"idle", "gate", "hold", "held", "begin", "runnable", "ticket", "start",
             "take", "claim", "unclaim", "announce", "lock", "enter", "resume", "loop", "final", "text", "prepare",
             "seeded", "plan", "model", "answer", "evaluate", "park", "batch", "exec", "tools", "commit",
             "results", "refresh", "finalize", "unwind", "leave", "bgGet", "bgWrite", "bgFinish",
             "next", "forward", "handoff", "end"}

\* Between StartRun and FinishRun: the goroutine owns the session's active slot.
InSlot == {"claim", "unclaim", "announce", "lock", "enter", "resume", "loop", "final", "text", "prepare",
           "seeded", "plan", "model", "answer", "evaluate", "park", "batch", "exec", "tools", "commit",
           "results", "refresh", "finalize", "unwind"}

\* Between storeRunCancel and deleteRunCancel.
Registered == InSlot \cup {"take", "leave"}

\* Between a successful ClaimQueuedRun and FinishRun.
Executing == InSlot \ {"claim", "unclaim"}

IdleWorker == [pc |-> "idle", copy |-> Absent, resume |-> FALSE, bypass |-> FALSE,
               err |-> FALSE, verdict |-> "failed", batch |-> 0, clear |-> FALSE,
               next |-> NoRun, rounds |-> 0]

IdleCancel == [pc |-> "idle", run |-> NoRun, copy |-> Absent]

IdleApprover == [pc |-> "idle", decision |-> "approved", copy |-> Absent]

Init ==
  /\ run = [r \in Runs |-> Absent]
  /\ queue = EmptyQueue
  /\ tickets = [t \in TicketIds |-> NoTicket]
  /\ byRun = [r \in Runs |-> 0]
  /\ issued = 0
  /\ w = [r \in Runs |-> IdleWorker]
  /\ cancels = {} /\ ctxDone = {}
  /\ sub = [r \in Runs |-> [pc |-> "new", copy |-> Absent, todo |-> {}]]
  /\ can = [c \in Callers |-> IdleCancel]
  /\ app = [t \in TicketIds |-> IdleApprover]
  /\ res = {}
  /\ used = [cancels |-> 0, resumes |-> 0, restarts |-> 0]

-----------------------------------------------------------------------------
(* Shorthands for the steps of a goroutine. *)

At(r, pc) == w[r].pc = pc

Goto(r, pc) == w' = [w EXCEPT ![r].pc = pc]

\* The same, with rec as the goroutine's copy of its run.
Keep(r, rec, pc) == w' = [w EXCEPT ![r].copy = rec, ![r].pc = pc]

\* dispatchRun: a run that already holds its dispatching slot is left alone.
Dispatched(ws, r, resume, bypass) ==
  IF ws[r].pc = "idle"
    THEN [ws EXCEPT ![r].pc = IF bypass THEN "begin" ELSE "gate",
                    ![r].resume = resume, ![r].bypass = bypass]
    ELSE ws

\* A store access on the execution context fails once that context is cancelled.
Aborts(r) == StoreHonoursCtx /\ r \in ctxDone

\* The execution ends with an error that ExecuteRun reports as nil.
Abort(r) ==
  /\ Aborts(r)
  /\ Goto(r, "unwind")
  /\ UNCHANGED run

\* handleRunExecutionError: failRun, or timeoutRun for a deadline.  err is the
\* error ExecuteRun hands to MarkBackgroundFailure afterwards.
Conclude(r, verdict, err) ==
  w' = [w EXCEPT ![r].verdict = verdict, ![r].err = err, ![r].pc = "refresh"]

\* MaxRunDuration has passed: timeoutRun.
Expire(r) ==
  /\ r \notin ctxDone
  /\ Conclude(r, "cancelled", FALSE)
  /\ UNCHANGED run

\* runs.Update(ctx, rec) on the execution context, then on to pc.
Save(r, rec, pc) ==
  \/ /\ ~Aborts(r)
     /\ run' = [run EXCEPT ![r] = rec]
     /\ Keep(r, rec, pc)
  \/ Abort(r)
  \/ StoreHonoursCtx /\ Expire(r)

\* ensureRunnable: refresh the copy, then look for a cancelled run or context.
EnsureRunnable(r, pc) ==
  /\ UNCHANGED run
  /\ \/ Abort(r) \/ Expire(r)
     \/ /\ ~Aborts(r)
        /\ run[r].status = "cancelled" \/ r \in ctxDone
        /\ Conclude(r, "failed", FALSE)
     \/ /\ run[r].status # "cancelled" /\ r \notin ctxDone
        /\ Keep(r, run[r], pc)

\* The copy is written once more and the execution fails with an error of its own.
SaveAndFail(r) ==
  \/ ~Aborts(r) /\ run' = [run EXCEPT ![r] = w[r].copy] /\ Conclude(r, "failed", TRUE)
  \/ Abort(r)

Outside == <<sub, can, app, res, used>>

-----------------------------------------------------------------------------
(* Service.dispatchRun up to the goroutine: the release execution gate. *)

GateApplies(r) == r \in Gated /\ run[r].status = "queued" /\ ~run[r].started

Gate(r) ==
  /\ At(r, "gate")
  /\ Keep(r, run[r], IF GateApplies(r) THEN "hold" ELSE "begin")
  /\ UNCHANGED <<run, queue, store, cancels, ctxDone, Outside>>

\* holdRunForReleaseExecutionApproval: a ticket for no tool call (batch 0).
Hold(r) ==
  /\ At(r, "hold")
  /\ CreateTicket(r, 0)
  /\ Goto(r, "held")
  /\ UNCHANGED <<run, queue, cancels, ctxDone, Outside>>

\* applyExistingReleaseGateHold sets the status without transitionRun; the run
\* stays in the coordinator's queue and no goroutine is started.
Held(r) ==
  /\ At(r, "held")
  /\ run' = [run EXCEPT ![r] = [w[r].copy EXCEPT !.status = "waiting_approval",
                                                 !.approval = byRun[r], !.pending = 0]]
  /\ w' = [w EXCEPT ![r] = [IdleWorker EXCEPT !.rounds = w[r].rounds]]
  /\ UNCHANGED <<queue, store, cancels, ctxDone, Outside>>

\* approvals.Create fails: dispatchRun gives the slot back and returns the error.
HoldFails(r) ==
  /\ At(r, "hold")
  /\ issued = MaxTickets /\ LatestStatus(r) # "pending"
  /\ w' = [w EXCEPT ![r] = [IdleWorker EXCEPT !.rounds = w[r].rounds]]
  /\ UNCHANGED <<run, queue, store, cancels, ctxDone, Outside>>

-----------------------------------------------------------------------------
(* ExecuteRun and ResumeRun up to the claim. *)

\* ExecuteRun's ensureRunnable, or the status switch at the top of ResumeRun.
Begin(r) ==
  /\ At(r, "begin")
  /\ LET st == run[r].status IN
     IF ~w[r].resume
       THEN Goto(r, IF st = "cancelled" THEN "next" ELSE "start")
       ELSE Goto(r, CASE st = "running" -> "next"
                      [] st \in {"completed", "failed"} -> "bgGet"
                      [] OTHER -> "runnable")
  /\ UNCHANGED <<run, queue, store, cancels, ctxDone, Outside>>

\* ResumeRun's ensureRunnable reports a cancelled run as an error.
Runnable(r) ==
  /\ At(r, "runnable")
  /\ Goto(r, IF run[r].status = "cancelled" THEN "bgGet" ELSE "ticket")
  /\ UNCHANGED <<run, queue, store, cancels, ctxDone, Outside>>

\* ResumeRun demands that the run's latest ticket is approved.
CheckTicket(r) ==
  /\ At(r, "ticket")
  /\ Goto(r, IF LatestStatus(r) = "approved" THEN "start" ELSE "bgGet")
  /\ UNCHANGED <<run, queue, store, cancels, ctxDone, Outside>>

\* withRunCancellation registers the cancel function.
Register(r) ==
  /\ At(r, "start")
  /\ cancels' = cancels \cup {r}
  /\ Goto(r, "take")
  /\ UNCHANGED <<run, queue, store, ctxDone, Outside>>

\* A session that is busy with another run ends the attempt without an error.
Take(r) ==
  /\ At(r, "take")
  /\ IF CanStart(queue, r)
       THEN queue' = StartRun(queue, r) /\ Goto(r, "claim")
       ELSE Goto(r, "leave") /\ UNCHANGED queue
  /\ UNCHANGED <<run, store, cancels, ctxDone, Outside>>

\* Mutant of Claim: the status is not compared.
ClaimAnyway(r) ==
  LET claimed == [run[r] EXCEPT !.status = "running", !.started = TRUE] IN
  /\ At(r, "claim")
  /\ run' = [run EXCEPT ![r] = claimed]
  /\ Keep(r, claimed, "announce")
  /\ UNCHANGED <<queue, store, cancels, ctxDone, Outside>>

\* ClaimQueuedRun: the only conditional write of the run store.
Claim(r) ==
  /\ At(r, "claim")
  /\ IF run[r].status = "queued" /\ ~Aborts(r)
       THEN LET claimed == [run[r] EXCEPT !.status = "running", !.started = TRUE] IN
            /\ run' = [run EXCEPT ![r] = claimed]
            /\ Keep(r, claimed, "announce")
       ELSE Goto(r, "unclaim") /\ UNCHANGED run
  /\ UNCHANGED <<queue, store, cancels, ctxDone, Outside>>

\* Mutant of Unclaim: the slot is kept.
UnclaimInSlot(r) ==
  /\ At(r, "unclaim")
  /\ Goto(r, "leave")
  /\ UNCHANGED <<run, queue, store, cancels, ctxDone, Outside>>

Unclaim(r) ==
  /\ At(r, "unclaim")
  /\ queue' = FinishRun(queue, r)
  /\ Goto(r, "leave")
  /\ UNCHANGED <<run, store, cancels, ctxDone, Outside>>

-----------------------------------------------------------------------------
(* dispatchRunExecution and executeLoop.  The data of a turn is left out:    *)
(* what the model answers, what the policy decides and whether the session   *)
(* was written by someone else meanwhile (its revision moved) are choices.   *)

Silent == UNCHANGED <<queue, store, cancels, ctxDone, Outside>>

\* The start hook may fail; otherwise the claimed copy is written back.
Announce(r) ==
  /\ At(r, "announce")
  /\ \/ Save(r, w[r].copy, "lock")
     \/ Conclude(r, "failed", TRUE) /\ UNCHANGED run
  /\ Silent

\* LoadForExecution waits for the session lock and gives up on a cancelled context.
Lock(r) ==
  /\ At(r, "lock")
  /\ \/ Goto(r, IF r \in ctxDone THEN "unwind" ELSE "enter") /\ UNCHANGED run
     \/ Expire(r)
  /\ Silent

Enter(r) ==
  /\ At(r, "enter")
  /\ EnsureRunnable(r, IF run[r].pending # 0 THEN "resume" ELSE "loop")
  /\ Silent

\* The ticket that resumePendingTools looks up covers the pending batch.
TicketAllows(r, batch) ==
  LatestStatus(r) = "approved" /\ tickets[byRun[r]].batch = batch

\* waitApproval's first half; a failing approval store fails the run.
AskApproval(r, batch) ==
  \/ CreateTicket(r, batch) /\ w' = [w EXCEPT ![r].batch = batch, ![r].pc = "park"]
  \/ /\ issued = MaxTickets /\ LatestStatus(r) # "pending"
     /\ Conclude(r, "failed", TRUE) /\ UNCHANGED store

\* resumePendingTools: a moved revision drops the batch, otherwise the policy is
\* asked again with the run's ticket at hand.
ResumeTools(r) ==
  LET batch == w[r].copy.pending IN
  /\ At(r, "resume")
  /\ \/ Save(r, Transition(w[r].copy, "running", 0, 0), "loop") /\ UNCHANGED store
     \/ /\ w' = [w EXCEPT ![r].batch = batch, ![r].clear = TRUE, ![r].pc = "batch"]
        /\ UNCHANGED <<run, store>>
     \/ ~TicketAllows(r, batch) /\ AskApproval(r, batch) /\ UNCHANGED run
     \/ SaveAndFail(r) /\ UNCHANGED store
  /\ UNCHANGED <<queue, cancels, ctxDone, Outside>>

\* Mutant of Loop: no round budget.
LoopUnbounded(r) == At(r, "loop") /\ EnsureRunnable(r, "prepare") /\ Silent

\* The session is compacted and saved, and the copy with it; then the run fails, or
\* gets one last turn without tools if it has gathered anything to answer from.
OverBudget(r) ==
  \/ SaveAndFail(r)
  \/ Save(r, [w[r].copy EXCEPT !.pending = 0], "final")
  \/ Conclude(r, "failed", r \notin ctxDone) /\ UNCHANGED run

\* The top of the round loop.
Loop(r) ==
  /\ At(r, "loop")
  /\ IF w[r].rounds < MaxRounds THEN EnsureRunnable(r, "prepare") ELSE OverBudget(r)
  /\ Silent

\* tryCompleteBestEffortWithoutMoreTools up to the model call; a cancelled run counts
\* as a conflict, and the run fails for its exhausted budget.
Final(r) ==
  /\ At(r, "final")
  /\ IF run[r].status = "cancelled" /\ ~Aborts(r)
       THEN Conclude(r, "failed", TRUE) /\ UNCHANGED run
       ELSE EnsureRunnable(r, "text")
  /\ Silent

\* The last answer is committed, or there is none.
LastText(r) ==
  /\ At(r, "text")
  /\ \/ ~Aborts(r) /\ run' = [run EXCEPT ![r] = w[r].copy] /\ Conclude(r, "completed", FALSE)
     \/ Conclude(r, "failed", r \notin ctxDone) /\ UNCHANGED run
  /\ Silent

\* Mutant of Prepare: the round is not counted.
PrepareUncounted(r) ==
  /\ At(r, "prepare")
  /\ Save(r, w[r].copy, "seeded")
  /\ Silent

\* prepareTurnSeedLocked writes the copy that the top of the loop has read.
Prepare(r) ==
  /\ At(r, "prepare")
  /\ \/ /\ ~Aborts(r)
        /\ run' = [run EXCEPT ![r] = w[r].copy]
        /\ w' = [w EXCEPT ![r].rounds = @ + 1, ![r].pc = "seeded"]
     \/ Abort(r)
     \/ StoreHonoursCtx /\ Expire(r)
  /\ Silent

\* resolvePreparedTurnConflict and resolveToolCommitConflict read the run again and
\* take a cancelled one for a conflict, which goes round the loop once more.
CheckConflict(r, pc) ==
  IF run[r].status = "cancelled" /\ ~Aborts(r)
    THEN Keep(r, run[r], "loop") /\ UNCHANGED run
    ELSE EnsureRunnable(r, pc)

Seeded(r) ==
  /\ At(r, "seeded")
  /\ CheckConflict(r, "plan")
  /\ Silent

\* commitPreparedTurnCandidate: the session has moved (or was compacted), the turn
\* cannot be built, or the copy is written and the model is called.
Plan(r) ==
  LET c == w[r].copy IN
  /\ At(r, "plan")
  /\ \/ Save(r, Transition(c, "running", c.approval, c.pending), "loop")
     \/ Save(r, c, "model")
     \/ Conclude(r, "failed", r \notin ctxDone) /\ UNCHANGED run
  /\ Silent

\* The model call, and the ensureRunnable that follows it.
Model(r) ==
  /\ At(r, "model")
  /\ \/ EnsureRunnable(r, "answer")
     \/ UNCHANGED run /\ Conclude(r, "failed", r \notin ctxDone)
  /\ Silent

\* finishStagedPreparedTurn: the turn conflicts with another writer, answers with
\* text, says nothing, commits tool calls (the batch is named after its round), or
\* repeats itself until the loop is broken.
Answer(r) ==
  LET c == w[r].copy IN
  /\ At(r, "answer")
  /\ \/ Save(r, Transition(c, "running", c.approval, c.pending), "loop")
     \/ /\ ~Aborts(r)
        /\ run' = [run EXCEPT ![r] = c]
        /\ Conclude(r, "completed", FALSE)
     \/ Goto(r, "loop") /\ UNCHANGED run
     \/ /\ ~Aborts(r)
        /\ LET rec == Transition(c, "running", c.approval, w[r].rounds) IN
           /\ run' = [run EXCEPT ![r] = rec]
           /\ w' = [w EXCEPT ![r].copy = rec, ![r].batch = w[r].rounds, ![r].pc = "evaluate"]
     \/ Conclude(r, "failed", r \notin ctxDone) /\ UNCHANGED run
  /\ Silent

\* evaluateToolCalls on a fresh batch: allowed, held for approval, or denied; calls of
\* unavailable tools are answered without executing anything.
Evaluate(r) ==
  /\ At(r, "evaluate")
  /\ \/ /\ \E pc \in {"batch", "commit"} : w' = [w EXCEPT ![r].clear = FALSE, ![r].pc = pc]
        /\ UNCHANGED <<run, store>>
     \/ AskApproval(r, w[r].batch) /\ UNCHANGED run
     \/ SaveAndFail(r) /\ UNCHANGED store
  /\ UNCHANGED <<queue, cancels, ctxDone, Outside>>

\* Mutant of Park: the ticket is not recorded.
ParkUnticketed(r) ==
  /\ At(r, "park")
  /\ Save(r, Transition(w[r].copy, "waiting_approval", 0, w[r].batch), "unwind")
  /\ Silent

\* waitApproval's second half: the run is parked under the ticket created before.
Park(r) ==
  /\ At(r, "park")
  /\ Save(r, Transition(w[r].copy, "waiting_approval", byRun[r], w[r].batch), "unwind")
  /\ Silent

\* executeToolBatchDetached: check, write "running", execute, write again.
Batch(r) ==
  /\ At(r, "batch")
  /\ EnsureRunnable(r, "exec")
  /\ Silent

Exec(r) ==
  LET c == w[r].copy IN
  /\ At(r, "exec")
  /\ Save(r, Transition(c, "running", c.approval, c.pending), "tools")
  /\ Silent

\* The batch ends: a resumed one clears its approval, a fresh one writes at most
\* a counter, a recoverable error writes one too; an error or a deadline ends the run.
Tools(r) ==
  LET c == w[r].copy IN
  /\ At(r, "tools")
  /\ \/ ~w[r].clear /\ Goto(r, "commit") /\ UNCHANGED run
     \/ Save(r, c, "commit")
     \/ w[r].clear /\ Save(r, [c EXCEPT !.approval = 0, !.pending = 0], "commit")
     \/ UNCHANGED run /\ Conclude(r, "failed", r \notin ctxDone)
     \/ Expire(r)
  /\ Silent

Commit(r) ==
  /\ At(r, "commit")
  /\ CheckConflict(r, "results")
  /\ Silent

\* The results are dropped (moved revision) or committed; both clear the batch.  Without
\* progress for too long the run fails.
Results(r) ==
  LET c == w[r].copy
      cleared == [c EXCEPT !.approval = 0, !.pending = 0] IN
  /\ At(r, "results")
  /\ \/ Save(r, Transition(c, "running", 0, 0), "loop")
     \/ Save(r, cleared, "loop")
     \/ ~Aborts(r) /\ run' = [run EXCEPT ![r] = cleared] /\ Conclude(r, "failed", TRUE)
  /\ Silent

-----------------------------------------------------------------------------
(* completeRun, failRun and timeoutRun; then the way out of the goroutine. *)

\* Only timeoutRun works on a context of its own.
Refresh(r) ==
  /\ At(r, "refresh")
  /\ IF (Aborts(r) /\ w[r].verdict # "cancelled") \/ run[r].status = "cancelled"
       THEN w' = [w EXCEPT ![r].err = FALSE, ![r].pc = "unwind"]
       ELSE Keep(r, run[r], "finalize")
  /\ UNCHANGED run /\ Silent

\* Mutant of Finalize: the outcome is not written.
FinalizeUnsaved(r) == At(r, "finalize") /\ Goto(r, "unwind") /\ UNCHANGED run /\ Silent

Finalize(r) ==
  /\ At(r, "finalize")
  /\ IF Aborts(r) /\ w[r].verdict # "cancelled"
       THEN w' = [w EXCEPT ![r].err = FALSE, ![r].pc = "unwind"] /\ UNCHANGED run
       ELSE /\ run' = IF w[r].copy.status \in Terminal THEN run
                      ELSE [run EXCEPT ![r] = Finalized(w[r].copy, w[r].verdict)]
            /\ Goto(r, "unwind")
  /\ Silent

\* Mutant of Unwind: the slot is kept.
UnwindInSlot(r) ==
  /\ At(r, "unwind")
  /\ Goto(r, "leave")
  /\ UNCHANGED <<run, queue, store, cancels, ctxDone, Outside>>

\* The deferred finishQueue, then deleteRunCancel and release.
Unwind(r) ==
  /\ At(r, "unwind")
  /\ queue' = FinishRun(queue, r)
  /\ Goto(r, "leave")
  /\ UNCHANGED <<run, store, cancels, ctxDone, Outside>>

\* Mutant of Leave: the cancel function stays registered.
LeaveRegistered(r) ==
  /\ At(r, "leave")
  /\ Keep(r, Absent, IF w[r].err THEN "bgGet" ELSE "next")
  /\ UNCHANGED <<run, queue, store, cancels, ctxDone, Outside>>

Leave(r) ==
  /\ At(r, "leave")
  /\ cancels' = cancels \ {r} /\ ctxDone' = ctxDone \ {r}
  /\ w' = [w EXCEPT ![r].copy = Absent, ![r].batch = 0, ![r].clear = FALSE,
                    ![r].pc = IF w[r].err THEN "bgGet" ELSE "next"]
  /\ UNCHANGED <<run, queue, store, Outside>>

\* MarkBackgroundFailure: read, write "failed", leave the queue.
BgGet(r) ==
  /\ At(r, "bgGet")
  /\ IF run[r].status \in Terminal \cup {"waiting_approval"}
       THEN Goto(r, "next")
       ELSE Keep(r, run[r], "bgWrite")
  /\ UNCHANGED run /\ Silent

BgWrite(r) ==
  /\ At(r, "bgWrite")
  /\ run' = [run EXCEPT ![r] = Finalized(w[r].copy, "failed")]
  /\ Goto(r, "bgFinish")
  /\ Silent

BgFinish(r) ==
  /\ At(r, "bgFinish")
  /\ queue' = FinishRun(queue, r)
  /\ Goto(r, "next")
  /\ UNCHANGED <<run, store, cancels, ctxDone, Outside>>

\* dispatchNextQueuedRun does nothing while the run is still active.
NextRun(r) ==
  /\ At(r, "next")
  /\ Goto(r, IF run[r].status \in Active THEN "end" ELSE "forward")
  /\ UNCHANGED run /\ Silent

Forward(r) ==
  LET head == NextQueuedRun(queue) IN
  /\ At(r, "forward")
  /\ w' = [w EXCEPT ![r].next = head, ![r].pc = IF head \in {NoRun, r} THEN "end" ELSE "handoff"]
  /\ UNCHANGED run /\ Silent

\* The head of the queue is dispatched on this goroutine's context, with
\* whatever gate bypass that context carries.
Handoff(r) ==
  /\ At(r, "handoff")
  /\ w' = Dispatched([w EXCEPT ![r].pc = "end"], w[r].next, FALSE, w[r].bypass)
  /\ UNCHANGED run /\ Silent

\* dispatching.Delete, the last deferred call.
End(r) ==
  /\ At(r, "end")
  /\ w' = [w EXCEPT ![r] = [IdleWorker EXCEPT !.rounds = w[r].rounds]]
  /\ UNCHANGED run /\ Silent

Work(r) ==
  \/ Gate(r) \/ Hold(r) \/ Held(r) \/ HoldFails(r) \/ Begin(r) \/ Runnable(r)
  \/ CheckTicket(r) \/ Register(r) \/ Take(r) \/ Claim(r) \/ Unclaim(r) \/ Announce(r) \/ Lock(r)
  \/ Enter(r) \/ ResumeTools(r) \/ Loop(r) \/ Final(r) \/ LastText(r) \/ Prepare(r)
  \/ Seeded(r) \/ Plan(r) \/ Model(r) \/ Answer(r) \/ Evaluate(r) \/ Park(r) \/ Batch(r) \/ Exec(r) \/ Tools(r) \/ Commit(r)
  \/ Results(r) \/ Refresh(r) \/ Finalize(r) \/ Unwind(r) \/ Leave(r) \/ BgGet(r) \/ BgWrite(r)
  \/ BgFinish(r) \/ NextRun(r) \/ Forward(r) \/ Handoff(r) \/ End(r)

-----------------------------------------------------------------------------
(* Service.Submit and AgentComponent.Submit, one call per run. *)

Submitting(r, pc) == sub[r].pc = pc /\ can[r].pc = "idle"

SubGoto(r, pc) == sub' = [sub EXCEPT ![r].pc = pc]

Others == <<app, res, used>>

\* A follow-up to a run that waits for input supersedes it before submitting.
FollowUp(r) ==
  /\ Submitting(r, "new")
  /\ \E x \in Runs :
       /\ run[x].status = "waiting_input"
       /\ can' = [can EXCEPT ![r] = [pc |-> "write", run |-> x, copy |-> run[x]]]
  /\ SubGoto(r, "create")
  /\ UNCHANGED <<run, queue, store, w, cancels, ctxDone, Others>>

\* findOrCreateSubmitRun.
Create(r) ==
  /\ Submitting(r, "new") \/ Submitting(r, "create")
  /\ run' = [run EXCEPT ![r] = NewRecord]
  /\ sub' = [sub EXCEPT ![r].copy = NewRecord, ![r].pc = "persist"]
  /\ UNCHANGED <<queue, store, w, cancels, ctxDone, can, Others>>

\* analyzeSubmitRun and persistPreparedSubmitRun: a blocking preflight waits for input.
Persist(r) ==
  /\ Submitting(r, "persist")
  /\ \E st \in {"queued"} \cup IF r \in MayClarify THEN {"waiting_input"} ELSE {} :
       LET rec == Transition(sub[r].copy, st, 0, 0) IN
       /\ run' = [run EXCEPT ![r] = rec]
       /\ sub' = [sub EXCEPT ![r].copy = rec, ![r].pc = "record"]
  /\ UNCHANGED <<queue, store, w, cancels, ctxDone, can, Others>>

\* recordSubmitSession writes the record again; an interrupting run lists the
\* live runs of the session (interruptSessionRuns).
RecordSession(r) ==
  /\ Submitting(r, "record")
  /\ run' = [run EXCEPT ![r] = sub[r].copy]
  /\ SubGoto(r, IF sub[r].copy.status # "queued" THEN "bind"
                ELSE IF QueueMode = "interrupt" THEN "list" ELSE "enqueue")
  /\ UNCHANGED <<queue, store, w, cancels, ctxDone, can, Others>>

ListRuns(r) ==
  /\ Submitting(r, "list")
  /\ sub' = [sub EXCEPT ![r].todo = {x \in Runs \ {r} : Live(x)}, ![r].pc = "interrupt"]
  /\ UNCHANGED <<run, queue, store, w, cancels, ctxDone, can, Others>>

\* CancelRun on each; one that has ended meanwhile is an error that ends Submit.
Interrupt(r) ==
  /\ Submitting(r, "interrupt")
  /\ \/ /\ sub[r].todo = {}
        /\ SubGoto(r, "enqueue") /\ UNCHANGED can
     \/ \E x \in sub[r].todo :
          IF Live(x)
            THEN /\ sub' = [sub EXCEPT ![r].todo = @ \ {x}]
                 /\ can' = [can EXCEPT ![r] = [pc |-> "ticket", run |-> x, copy |-> run[x]]]
            ELSE /\ sub' = [sub EXCEPT ![r].todo = {}, ![r].pc = "done"]
                 /\ UNCHANGED can
  /\ UNCHANGED <<run, queue, store, w, cancels, ctxDone, Others>>

\* A rejected run is left behind as a queued record.
Enqueue(r) ==
  /\ Submitting(r, "enqueue")
  /\ queue' = EnqueueSessionRun(queue, r, QueueMode)
  /\ SubGoto(r, IF Rejects(queue, QueueMode) THEN "done" ELSE "bind")
  /\ UNCHANGED <<run, store, w, cancels, ctxDone, can, Others>>

\* bindEffectiveConfigSnapshot writes the submitted copy a third time.
Bind(r) ==
  /\ Submitting(r, "bind")
  /\ run' = IF BindsSnapshot THEN [run EXCEPT ![r] = sub[r].copy] ELSE run
  /\ SubGoto(r, IF sub[r].copy.status = "queued" THEN "decide" ELSE "done")
  /\ UNCHANGED <<queue, store, w, cancels, ctxDone, can, Others>>

OccupiesQueueSlot(st) == st \in {"running", "streaming", "waiting_input", "waiting_approval"}

\* shouldDispatchQueuedRunNow: no other run occupies the session, and this run is
\* the head of the queue or the queue is empty.
Decide(r) ==
  /\ Submitting(r, "decide")
  /\ SubGoto(r, IF \E x \in Runs \ {r} : OccupiesQueueSlot(run[x].status) THEN "done" ELSE "head")
  /\ UNCHANGED <<run, queue, store, w, cancels, ctxDone, can, Others>>

\* Mutant of CheckHead: only an empty queue lets the run go.
CheckEmpty(r) ==
  /\ Submitting(r, "head")
  /\ SubGoto(r, IF NextQueuedRun(queue) = NoRun THEN "send" ELSE "done")
  /\ UNCHANGED <<run, queue, store, w, cancels, ctxDone, can, Others>>

CheckHead(r) ==
  /\ Submitting(r, "head")
  /\ SubGoto(r, IF NextQueuedRun(queue) \in {NoRun, r} THEN "send" ELSE "done")
  /\ UNCHANGED <<run, queue, store, w, cancels, ctxDone, can, Others>>

Send(r) ==
  /\ Submitting(r, "send")
  /\ w' = Dispatched(w, r, FALSE, FALSE)
  /\ SubGoto(r, "done")
  /\ UNCHANGED <<run, queue, store, cancels, ctxDone, can, Others>>

Submit(r) ==
  \/ FollowUp(r) \/ Create(r) \/ Persist(r) \/ RecordSession(r) \/ ListRuns(r)
  \/ Interrupt(r) \/ Enqueue(r) \/ Bind(r) \/ Decide(r) \/ CheckHead(r) \/ Send(r)

-----------------------------------------------------------------------------
(* AgentComponent.CancelRun: read, cancel the ticket, write, cancel the      *)
(* context, leave the queue.  No step dispatches another run.                *)

OperatorCancel(r) ==
  /\ can[Operator].pc = "idle" /\ used.cancels < MaxCancels
  /\ Live(r)
  /\ can' = [can EXCEPT ![Operator] = [pc |-> "ticket", run |-> r, copy |-> run[r]]]
  /\ used' = [used EXCEPT !.cancels = @ + 1]
  /\ UNCHANGED <<run, queue, store, w, cancels, ctxDone, sub, app, res>>

CancelTicket(c) ==
  /\ can[c].pc = "ticket"
  /\ tickets' = Resolved(can[c].copy.approval, "cancelled")
  /\ can' = [can EXCEPT ![c].pc = "write"]
  /\ UNCHANGED <<run, queue, byRun, issued, w, cancels, ctxDone, sub, Others>>

CancelWrite(c) ==
  /\ can[c].pc = "write"
  /\ run' = [run EXCEPT ![can[c].run] = Finalized(can[c].copy, "cancelled")]
  /\ can' = [can EXCEPT ![c].pc = "context"]
  /\ UNCHANGED <<queue, store, w, cancels, ctxDone, sub, Others>>

CancelContext(c) ==
  /\ can[c].pc = "context"
  /\ ctxDone' = ctxDone \cup (cancels \cap {can[c].run})
  /\ cancels' = cancels \ {can[c].run}
  /\ can' = [can EXCEPT ![c].pc = "finish"]
  /\ UNCHANGED <<run, queue, store, w, sub, Others>>

CancelFinish(c) ==
  /\ can[c].pc = "finish"
  /\ queue' = FinishRun(queue, can[c].run)
  /\ can' = [can EXCEPT ![c] = IdleCancel]
  /\ UNCHANGED <<run, store, w, cancels, ctxDone, sub, Others>>

Cancel(c) == CancelTicket(c) \/ CancelWrite(c) \/ CancelContext(c) \/ CancelFinish(c)

-----------------------------------------------------------------------------
(* Service.ResolveApproval and AgentComponent.ResolveApproval. *)

Approving(t, pc) == app[t].pc = pc

\* The call goes on to pc, or returns.
AppGoto(t, pc) ==
  app' = [app EXCEPT ![t] = IF pc = "idle" THEN IdleApprover ELSE [@ EXCEPT !.pc = pc]]

\* The ticket of a run that is cancelled by now is cancelled too.
ApprovalGet(t, decision) ==
  /\ Approving(t, "idle") /\ tickets[t].status = "pending"
  /\ IF run[tickets[t].run].status = "cancelled"
       THEN tickets' = Resolved(t, "cancelled") /\ UNCHANGED app
       ELSE /\ app' = [app EXCEPT ![t].decision = decision, ![t].pc = "resolve"]
            /\ UNCHANGED tickets
  /\ UNCHANGED <<run, queue, byRun, issued, w, cancels, ctxDone, sub, can, res, used>>

ApprovalResolve(t) ==
  /\ Approving(t, "resolve")
  /\ tickets' = Resolved(t, app[t].decision)
  /\ AppGoto(t, IF tickets[t].status = "pending" THEN "reget" ELSE "idle")
  /\ UNCHANGED <<run, queue, byRun, issued, w, cancels, ctxDone, sub, can, res, used>>

ApprovalReget(t) ==
  /\ Approving(t, "reget")
  /\ LET rec == run[tickets[t].run] IN
     app' = IF rec.status = "cancelled" THEN [app EXCEPT ![t] = IdleApprover]
            ELSE [app EXCEPT ![t].copy = rec, ![t].pc = "write"]
  /\ UNCHANGED <<run, queue, store, w, cancels, ctxDone, sub, can, res, used>>

\* Approved: back to queued.  Denied or cancelled: finalized, but neither the
\* context nor the queue is told, and a terminal copy is not written.
ApprovalWrite(t) ==
  LET c == app[t].copy
      r == tickets[t].run
      approved == app[t].decision = "approved" IN
  /\ Approving(t, "write")
  /\ run' = CASE approved -> [run EXCEPT ![r] = Transition(c, "queued", c.approval, c.pending)]
              [] ~approved /\ c.status \notin Terminal ->
                   [run EXCEPT ![r] = Finalized(c, "cancelled")]
              [] OTHER -> run
  /\ app' = [app EXCEPT ![t] = IF approved THEN [@ EXCEPT !.copy = Absent, !.pc = "check"]
                               ELSE IdleApprover]
  /\ UNCHANGED <<queue, store, w, cancels, ctxDone, sub, can, res, used>>

\* Mutant of ApprovalCheck: the approved run queues up again.
ApprovalRequeues(t) ==
  /\ Approving(t, "check")
  /\ queue' = EnqueueSessionRun(queue, tickets[t].run, QueueMode)
  /\ AppGoto(t, "slot")
  /\ UNCHANGED <<run, store, w, cancels, ctxDone, sub, can, res, used>>

\* Only a run that is queued by now is dispatched.
ApprovalCheck(t) ==
  /\ Approving(t, "check")
  /\ AppGoto(t, IF run[tickets[t].run].status = "queued" THEN "slot" ELSE "idle")
  /\ UNCHANGED <<run, queue, store, w, cancels, ctxDone, sub, can, res, used>>

\* waitDispatchSlot, then dispatchRun.  After two seconds of waiting for a busy
\* slot dispatchRun finds it taken and drops the dispatch.
ApprovalDispatch(t) ==
  /\ Approving(t, "slot")
  /\ w' = Dispatched(w, tickets[t].run, TRUE, tickets[t].batch = 0)
  /\ AppGoto(t, "idle")
  /\ UNCHANGED <<run, queue, store, cancels, ctxDone, sub, can, res, used>>

Approve(t) ==
  \/ ApprovalResolve(t) \/ ApprovalReget(t) \/ ApprovalWrite(t)
  \/ ApprovalCheck(t) \/ ApprovalDispatch(t)

-----------------------------------------------------------------------------
(* POST /runtime/runs/{id}/resume, and a process restart. *)

OperatorResume(r) ==
  /\ used.resumes < MaxResumes
  /\ Live(r)
  /\ res' = res \cup {r}
  /\ used' = [used EXCEPT !.resumes = @ + 1]
  /\ UNCHANGED <<run, queue, store, w, cancels, ctxDone, sub, can, app>>

ResumeDispatch(r) ==
  /\ r \in res
  /\ res' = res \ {r}
  /\ w' = Dispatched(w, r, TRUE, FALSE)
  /\ UNCHANGED <<run, queue, store, cancels, ctxDone, sub, can, app, used>>

\* cancelOrphanedApproval looks at the record's ticket, else at the latest one.
OrphanTicket(r) == IF run[r].approval # 0 THEN run[r].approval ELSE byRun[r]

\* The process dies: goroutines, queue and calls are gone, the stores remain.
\* RecoverOrphanedRuns runs before the new process serves anything.
Restart ==
  /\ used.restarts < MaxRestarts
  /\ used' = [used EXCEPT !.restarts = @ + 1]
  /\ tickets' = [t \in TicketIds |->
                   IF tickets[t].status = "pending" /\ \E r \in Runs : Live(r) /\ OrphanTicket(r) = t
                     THEN [tickets[t] EXCEPT !.status = "cancelled"] ELSE tickets[t]]
  /\ run' = [r \in Runs |-> IF Live(r)
                THEN [run[r] EXCEPT !.status = "failed", !.approval = 0, !.pending = 0] ELSE run[r]]
  /\ queue' = EmptyQueue /\ cancels' = {} /\ ctxDone' = {}
  /\ w' = [r \in Runs |-> [IdleWorker EXCEPT !.rounds = w[r].rounds]]
  /\ sub' = [r \in Runs |-> [pc |-> IF run[r] = Absent THEN "new" ELSE "done",
                            copy |-> Absent, todo |-> {}]]
  /\ can' = [c \in Callers |-> IdleCancel]
  /\ app' = [t \in TicketIds |-> IdleApprover] /\ res' = {}
  /\ UNCHANGED <<byRun, issued>>

Decisions == {"approved", "denied", "cancelled"}

Next ==
  \/ \E r \in Runs : Work(r) \/ Submit(r) \/ OperatorCancel(r)
                     \/ OperatorResume(r) \/ ResumeDispatch(r)
  \/ \E c \in Callers : Cancel(c)
  \/ \E t \in TicketIds : Approve(t) \/ \E d \in Decisions : ApprovalGet(t, d)
  \/ Restart

Spec == Init /\ [][Next]_vars

\* Go schedules every runnable goroutine, model calls and tools end (they have
\* deadlines), and a call that has begun is carried through.  Nobody is obliged
\* to submit, to cancel, to resume, to decide a ticket or to restart.
Fairness ==
  /\ \A r \in Runs : WF_vars(Work(r)) /\ WF_vars(Submit(r) /\ sub[r].pc # "new")
  /\ \A c \in Callers : WF_vars(Cancel(c))
  /\ \A t \in TicketIds : WF_vars(Approve(t))
  /\ \A r \in Runs : WF_vars(ResumeDispatch(r))

FairSpec == Spec /\ Fairness

-----------------------------------------------------------------------------
(* Properties. *)

Worker == [pc : WorkerPc, copy : Record, resume : BOOLEAN, bypass : BOOLEAN,
           err : BOOLEAN, verdict : Terminal, batch : 0 .. MaxRounds, clear : BOOLEAN,
           next : Runs \cup {NoRun}, rounds : 0 .. MaxRounds]

SubmitPc == {"new", "create", "persist", "record", "list", "interrupt", "enqueue",
             "bind", "decide", "head", "send", "done"}

CancelPc == {"idle", "ticket", "write", "context", "finish"}

ApproverPc == {"idle", "resolve", "reget", "write", "check", "slot"}

TicketStatus == {"none", "pending"} \cup Decisions

\* Type correctness of the stores, the queue and every goroutine's local state.
TypeOK ==
  /\ run \in [Runs -> Record]
  /\ queue \in [active : Runs \cup {NoRun}, queued : Seq(Runs)]
  /\ tickets \in [TicketIds -> [run : Runs \cup {NoRun}, batch : 0 .. MaxRounds, status : TicketStatus]]
  /\ byRun \in [Runs -> 0 .. MaxTickets] /\ issued \in 0 .. MaxTickets
  /\ w \in [Runs -> Worker]
  /\ cancels \subseteq Runs /\ ctxDone \subseteq Runs
  /\ sub \in [Runs -> [pc : SubmitPc, copy : Record, todo : SUBSET Runs]]
  /\ can \in [Callers -> [pc : CancelPc, run : Runs \cup {NoRun}, copy : Record]]
  /\ app \in [TicketIds -> [pc : ApproverPc, decision : Decisions, copy : Record]]
  /\ res \subseteq Runs
  /\ used \in [cancels : 0 .. MaxCancels, resumes : 0 .. MaxResumes, restarts : 0 .. MaxRestarts]

\* The session's active slot never leaks: the run that holds it has a goroutine
\* between StartRun and the FinishRun it will call, so a session cannot stay busy
\* with a run nobody executes, whatever cancels, claims or restarts did meanwhile.
SlotOwned == \A r \in Runs : queue.active = r => w[r].pc \in InSlot

\* A run waits at most once in its session's queue, however its submission, approvals,
\* resumes and hand-overs interleave: EnqueueSessionRun is called by its Submit alone.
QueuedOnce ==
  \A i, j \in 1 .. Len(queue.queued) : queue.queued[i] = queue.queued[j] => i = j

\* The cancel registry is exact: an execution that may hold the slot is reachable by
\* CancelRun or has been told to stop, and no cancel function outlives its execution.
CancelReachable ==
  /\ cancels \cup ctxDone = {r \in Runs : w[r].pc \in Registered}
  /\ cancels \cap ctxDone = {}

\* A run that is parked for approval names a ticket of its own that somebody can decide
\* or has decided: waitApproval and the release gate create it before they park the run.
ParkedHasTicket ==
  \A r \in Runs : run[r].status = "waiting_approval" =>
    run[r].approval # 0 /\ tickets[run[r].approval].run = r

\* A parked tool batch is executed again only after the run's latest ticket was
\* approved, whoever wrote the record or dispatched the run in between.
ResumedIsApproved ==
  \A r \in Runs : w[r].clear /\ w[r].pc \in {"batch", "exec", "tools"} =>
    LatestStatus(r) = "approved"

\* A decision on a ticket is final: neither a later decision, nor a cancellation of its
\* run, nor the recovery after a restart changes it.
DecisionIsFinal ==
  [][\A t \in TicketIds : tickets[t].status \in Decisions => tickets'[t] = tickets[t]]_vars

\* Without a CancelRun call an execution keeps the session's slot until it gives it
\* back, so the runs of a session execute one after the other.
OneRunAtATime ==
  used.cancels = 0 /\ QueueMode # "interrupt" =>
    \A r \in Runs : w[r].pc \in InSlot => queue.active = r

\* In every mode but enqueue at most one run waits behind the active one.
BacklogBound == QueueMode # "enqueue" => Len(queue.queued) <= 1

\* A run has an outcome and nobody holds a copy of it with another status.
Settled(r) ==
  /\ run[r].status \in Terminal
  /\ w[r].copy.status \in {"absent", run[r].status}
  /\ sub[r].pc \in {"head", "send", "done"}
  /\ \A c \in Callers : can[c].run = r => can[c].pc \notin {"ticket", "write"}
  /\ \A t \in TicketIds : tickets[t].run = r /\ app[t].pc = "write" =>
       app[t].copy.status = run[r].status

\* Once the last older copy of a finished run is gone, its outcome is permanent:
\* late approvals, resumes, dispatches, cancels and restarts leave it alone.
OutcomeIsPermanent ==
  [][\A r \in Runs : Settled(r) => Settled(r)' /\ run'[r].status = run[r].status]_vars

\* A dispatch goroutine ends: the round budget and the checks between the turns
\* bound the execution loop, whatever the model and the tools answer.
DispatchEnds == \A r \in Runs : w[r].pc # "idle" ~> w[r].pc = "idle"

\* In a session without cancellations and approvals no run is left behind as
\* "running": its goroutine writes an outcome even if Submit is still writing too.
RunningEnds == \A r \in Runs : run[r].status = "running" ~> run[r].status # "running"

\* A run that is the only one its session is ever sent is executed to an outcome or
\* waits for input, also across a restart: no other run's dispatch can swallow its own.
SubmissionSettles ==
  \A r \in Runs :
    [](\A q \in Runs \ {r} : run[q].status = "absent") =>
      (run[r].status # "absent" ~> run[r].status \in Terminal \cup {"waiting_input"})

-----------------------------------------------------------------------------
(* What the comments and tests of the code say and the code does not keep. *)

\* types.go: "Coordinator serializes run execution within a session queue": of two
\* executions of a session one at least has been told to stop.
ExecutionIsSerialized ==
  \A r, s \in Runs : r # s /\ w[r].pc \in Executing /\ w[s].pc \in Executing =>
    {r, s} \cap ctxDone # {}

\* queue_dispatch_test.go waits for a run that was queued behind an active one.
QueuedRunLeavesQueue ==
  \A r \in Runs : run[r].status = "queued" ~> run[r].status # "queued"

\* ResumeRun "continues a run that is waiting on approval": an approved ticket does
\* not leave its run waiting for ever.
ApprovedRunContinues ==
  \A r \in Runs : run[r].status = "waiting_approval" /\ tickets[run[r].approval].status = "approved"
    ~> run[r].status # "waiting_approval"

\* WithReleaseExecutionGate "applies before the first high-risk dispatch for a run":
\* such a run has started only if its release gate ticket was approved.
GateHeldBeforeStart ==
  \A r \in Gated : run[r].started =>
    \E t \in TicketIds : tickets[t] = [run |-> r, batch |-> 0, status |-> "approved"]
=============================================================================
