------------------------- MODULE RunLifecycleProofs -------------------------
(***************************************************************************)
(* Proofs about RunLifecycle for every set of runs, queue mode and bound.  *)
(***************************************************************************)
EXTENDS RunLifecycle, TLAPS

QueueType == [active : Runs \cup {NoRun}, queued : Seq(Runs)]

\* Filtering the waiting list leaves a list of runs that is no longer.
LEMMA WithoutType ==
  ASSUME NEW list \in Seq(Runs), NEW r
  PROVE  Without(list, r) \in Seq(Runs) /\ Len(Without(list, r)) <= Len(list)
<1> DEFINE place == CHOOSE p \in 1 .. Len(list) : list[p] = r
           rest == [j \in 1 .. Len(list) - 1 |-> IF j < place THEN list[j] ELSE list[j + 1]]
<1>1. CASE \A i \in 1 .. Len(list) : list[i] # r
  BY <1>1 DEF Without
<1>2. CASE \E i \in 1 .. Len(list) : list[i] = r
  <2>1. Len(list) \in Nat \ {0}
    BY <1>2
  <2>2. \A j \in 1 .. Len(list) - 1 : list[j] \in Runs /\ list[j + 1] \in Runs
    BY <2>1
  <2>3. rest \in [1 .. Len(list) - 1 -> Runs]
    BY <2>2
  <2>4. Len(list) - 1 \in Nat
    BY <2>1
  <2>5. rest \in Seq(Runs) /\ Len(rest) = Len(list) - 1
    BY <2>3, <2>4
  <2>6. Without(list, r) = rest
    BY <1>2 DEF Without
  <2> QED BY <2>5, <2>6, <2>1
<1> QED BY <1>1, <1>2

\* Every operation of the coordinator keeps the type of the queue.
LEMMA QueueOps ==
  ASSUME NEW q \in QueueType, NEW r \in Runs, NEW mode
  PROVE  /\ EnqueueSessionRun(q, r, mode) \in QueueType
         /\ StartRun(q, r) \in QueueType
         /\ NextQueuedRun(q) \in Runs \cup {NoRun}
<1>1. q.active \in Runs \cup {NoRun} /\ q.queued \in Seq(Runs)
  BY DEF QueueType
<1>2. EnqueueSessionRun(q, r, mode) \in QueueType
  <2>1. Append(q.queued, r) \in Seq(Runs) /\ <<r>> \in Seq(Runs)
    BY <1>1
  <2>2. q.queued # <<>> => [q.queued EXCEPT ![Len(q.queued)] = r] \in Seq(Runs)
    BY <1>1
  <2> QED BY Zenon, <1>1, <2>1, <2>2 DEF EnqueueSessionRun, QueueType
<1>3. q.queued # <<>> => Head(q.queued) \in Runs /\ Tail(q.queued) \in Seq(Runs)
  BY <1>1
<1>4. StartRun(q, r) \in QueueType
  BY <1>1, <1>3, RunsAssumption DEF StartRun, QueueType, NextQueuedRun
<1>5. NextQueuedRun(q) \in Runs \cup {NoRun}
  BY <1>1, <1>3 DEF NextQueuedRun
<1> QED BY <1>2, <1>4, <1>5

LEMMA FinishType ==
  ASSUME NEW q \in QueueType, NEW r
  PROVE  FinishRun(q, r) \in QueueType
<1>1. q.active \in Runs \cup {NoRun} /\ q.queued \in Seq(Runs)
  BY DEF QueueType
<1> QED BY <1>1, WithoutType DEF FinishRun, QueueType

-----------------------------------------------------------------------------
(* Records, tickets and program counters. *)

LEMMA RecordFacts ==
  ASSUME NEW rec \in Record
  PROVE  /\ rec.status \in Status \cup {"absent"} /\ rec.approval \in 0 .. MaxTickets
         /\ rec.pending \in 0 .. MaxRounds /\ rec.started \in BOOLEAN
BY DEF Record

LEMMA ZeroBounds == 0 \in 0 .. MaxTickets /\ 0 \in 0 .. MaxRounds
BY BoundAssumption

\* Whatever a step does to a copy of a record yields a record.
LEMMA RecordOps ==
  ASSUME NEW rec \in Record, NEW st \in Status,
         NEW a \in 0 .. MaxTickets, NEW p \in 0 .. MaxRounds
  PROVE  /\ Transition(rec, st, a, p) \in Record
         /\ Finalized(rec, st) \in Record
         /\ [rec EXCEPT !.status = st, !.approval = a, !.pending = p] \in Record
         /\ [rec EXCEPT !.approval = a, !.pending = p] \in Record
         /\ [rec EXCEPT !.pending = p] \in Record
         /\ [rec EXCEPT !.status = st, !.started = TRUE] \in Record
<1>1. \A x \in 0 .. MaxTickets, y \in 0 .. MaxRounds : Transition(rec, st, x, y) \in Record
  BY Zenon DEF Transition, Record
<1>2. 0 \in 0 .. MaxTickets /\ 0 \in 0 .. MaxRounds
  BY BoundAssumption
<1>3. Finalized(rec, st) \in Record
  BY <1>1, <1>2 DEF Finalized
<1>4. /\ [rec EXCEPT !.status = st, !.approval = a, !.pending = p] \in Record
      /\ [rec EXCEPT !.approval = a, !.pending = p] \in Record
      /\ [rec EXCEPT !.pending = p] \in Record
      /\ [rec EXCEPT !.status = st, !.started = TRUE] \in Record
  BY Zenon DEF Record
<1> QED BY <1>1, <1>3, <1>4

LEMMA NewRecords == Absent \in Record /\ NewRecord \in Record
<1>1. 0 \in 0 .. MaxTickets /\ 0 \in 0 .. MaxRounds
  BY BoundAssumption
<1>2. Absent \in Record
  BY <1>1 DEF Absent, Record
<1>3. "queued" \in Status
  BY DEF Status
<1>4. [Absent EXCEPT !.status = "queued"] \in Record
  BY <1>2, <1>3 DEF Record
<1> QED BY <1>2, <1>4 DEF NewRecord

\* Where the program counters of the dispatch goroutine lie.
LEMMA PcFacts ==
  /\ InSlot \subseteq Registered /\ Registered \subseteq WorkerPc
  /\ {"idle", "gate", "hold", "held", "begin", "runnable", "ticket", "start", "bgGet", "bgWrite",
      "bgFinish", "next", "forward", "handoff", "end"} \subseteq WorkerPc \ Registered
  /\ {"claim", "unclaim", "announce", "lock", "enter", "resume", "loop", "final", "text",
      "prepare", "seeded", "plan", "model", "answer", "evaluate", "park", "batch", "exec",
      "tools", "commit", "results", "refresh", "finalize", "unwind"} \subseteq InSlot
  /\ {"take", "leave"} \subseteq Registered \ InSlot
BY DEF InSlot, Registered, WorkerPc

-----------------------------------------------------------------------------
(* The shorthands for the steps of a goroutine. *)

\* Only the goroutine of r moves, and its round is not counted.
Steps(r) ==
  /\ w' \in [Runs -> Worker]
  /\ \A x \in Runs \ {r} : w'[x] = w[x]
  /\ w'[r].rounds = w[r].rounds

\* The same, to one of Q.
Moves(r, Q) == Steps(r) /\ w'[r].pc \in Q

LEMMA WorkerFacts ==
  ASSUME NEW v \in Worker
  PROVE  /\ v.pc \in WorkerPc /\ v.copy \in Record /\ v.resume \in BOOLEAN /\ v.bypass \in BOOLEAN
         /\ v.err \in BOOLEAN /\ v.verdict \in Terminal /\ v.batch \in 0 .. MaxRounds
         /\ v.clear \in BOOLEAN /\ v.next \in Runs \cup {NoRun} /\ v.rounds \in 0 .. MaxRounds
BY DEF Worker

LEMMA GotoMoves ==
  ASSUME w \in [Runs -> Worker], NEW r \in Runs, NEW pc \in WorkerPc, Goto(r, pc)
  PROVE  Moves(r, {pc})
BY DEF Goto, Moves, Steps, Worker

LEMMA ConcludeMoves ==
  ASSUME w \in [Runs -> Worker], NEW r \in Runs, NEW v \in Terminal, NEW e \in BOOLEAN,
         Conclude(r, v, e)
  PROVE  Moves(r, {"refresh"})
<1> DEFINE nw == [w[r] EXCEPT !.verdict = v, !.err = e, !.pc = "refresh"]
<1>1. "refresh" \in WorkerPc
  BY PcFacts
<1>2. nw \in Worker /\ nw.pc = "refresh" /\ nw.rounds = w[r].rounds
  BY Zenon, <1>1 DEF Worker
<1>3. w' = [w EXCEPT ![r] = nw]
  BY Zenon DEF Conclude
<1> HIDE DEF nw
<1> QED BY <1>2, <1>3 DEF Moves, Steps

LEMMA CopyMoves ==
  ASSUME w \in [Runs -> Worker], NEW r \in Runs, NEW rec \in Record, NEW pc \in WorkerPc,
         Keep(r, rec, pc)
  PROVE  Moves(r, {pc})
<1> DEFINE nw == [w[r] EXCEPT !.copy = rec, !.pc = pc]
<1>2. nw \in Worker /\ nw.pc = pc /\ nw.rounds = w[r].rounds
  BY Zenon DEF Worker
<1>3. w' = [w EXCEPT ![r] = nw]
  BY Zenon DEF Keep
<1> HIDE DEF nw
<1> QED BY <1>2, <1>3 DEF Moves, Steps

\* The goroutine of r is replaced by nw.
LEMMA SetMoves ==
  ASSUME w \in [Runs -> Worker], NEW r \in Runs, NEW nw \in Worker,
         nw.rounds = w[r].rounds, w' = [w EXCEPT ![r] = nw]
  PROVE  Moves(r, {nw.pc})
BY DEF Moves, Steps

\* The steps that read or write the run store on the execution context.
LEMMA StoreMoves ==
  ASSUME TypeOK, NEW r \in Runs, NEW pc \in WorkerPc, NEW rec \in Record
  PROVE  /\ Abort(r) => run' = run /\ Moves(r, {"unwind"})
         /\ Expire(r) => run' = run /\ Moves(r, {"refresh"})
         /\ Save(r, rec, pc) => run' \in [Runs -> Record] /\ Moves(r, {pc, "unwind", "refresh"})
         /\ EnsureRunnable(r, pc) => run' = run /\ Moves(r, {pc, "unwind", "refresh"})
         /\ CheckConflict(r, pc) => run' = run /\ Moves(r, {pc, "loop", "unwind", "refresh"})
         /\ SaveAndFail(r) => run' \in [Runs -> Record] /\ Moves(r, {"unwind", "refresh"})
<1>1. w \in [Runs -> Worker] /\ run \in [Runs -> Record] /\ w[r].copy \in Record /\ run[r] \in Record
  BY WorkerFacts DEF TypeOK
<1>2. {"unwind", "refresh", "loop"} \subseteq WorkerPc /\ {"failed", "cancelled"} \subseteq Terminal
  BY PcFacts DEF Terminal
<1>3. Abort(r) => run' = run /\ Moves(r, {"unwind"})
  BY <1>1, <1>2, GotoMoves DEF Abort
<1>4. Expire(r) => run' = run /\ Moves(r, {"refresh"})
  BY Zenon, <1>1, <1>2, ConcludeMoves DEF Expire
<1>5. \A x \in Record : run' = [run EXCEPT ![r] = x] => run' \in [Runs -> Record]
  BY <1>1
<1>6. Save(r, rec, pc) => run' \in [Runs -> Record] /\ Moves(r, {pc, "unwind", "refresh"})
  BY <1>1, <1>3, <1>4, <1>5, CopyMoves DEF Save, Moves
<1>7. EnsureRunnable(r, pc) => run' = run /\ Moves(r, {pc, "unwind", "refresh"})
  <2> SUFFICES ASSUME EnsureRunnable(r, pc)  PROVE run' = run /\ Moves(r, {pc, "unwind", "refresh"})
    OBVIOUS
  <2>1. CASE Abort(r)
    BY <2>1, <1>3 DEF Moves
  <2>2. CASE Expire(r)
    BY <2>2, <1>4 DEF Moves
  <2>3. CASE Conclude(r, "failed", FALSE) /\ UNCHANGED run
    BY Zenon, <2>3, <1>1, <1>2, ConcludeMoves DEF Moves
  <2>4. CASE Keep(r, run[r], pc) /\ UNCHANGED run
    <3>1. Moves(r, {pc})
      BY <2>4, <1>1, CopyMoves
    <3> QED BY <3>1, <2>4 DEF Moves
  <2> QED BY Zenon, <2>1, <2>2, <2>3, <2>4 DEF EnsureRunnable
<1>8. CheckConflict(r, pc) => run' = run /\ Moves(r, {pc, "loop", "unwind", "refresh"})
  BY <1>1, <1>2, <1>7, CopyMoves DEF CheckConflict, Moves
<1>9. SaveAndFail(r) => run' \in [Runs -> Record] /\ Moves(r, {"unwind", "refresh"})
  BY Zenon, <1>1, <1>2, <1>3, <1>5, ConcludeMoves DEF SaveAndFail, Moves
<1> QED BY <1>3, <1>4, <1>6, <1>7, <1>8, <1>9

-----------------------------------------------------------------------------
(* Type correctness.  A turn is prepared only while its round is within the  *)
(* budget: without that the round counter is not bounded by induction.       *)

StoreType ==
  /\ tickets \in [TicketIds -> [run : Runs \cup {NoRun}, batch : 0 .. MaxRounds, status : TicketStatus]]
  /\ byRun \in [Runs -> 0 .. MaxTickets] /\ issued \in 0 .. MaxTickets

CallType ==
  /\ sub \in [Runs -> [pc : SubmitPc, copy : Record, todo : SUBSET Runs]]
  /\ can \in [Callers -> [pc : CancelPc, run : Runs \cup {NoRun}, copy : Record]]
  /\ app \in [TicketIds -> [pc : ApproverPc, decision : Decisions, copy : Record]]
  /\ res \subseteq Runs
  /\ used \in [cancels : 0 .. MaxCancels, resumes : 0 .. MaxResumes, restarts : 0 .. MaxRestarts]

RoundsLeft == \A r \in Runs : w[r].pc = "prepare" => w[r].rounds < MaxRounds

TypeInv == TypeOK /\ RoundsLeft

LEMMA TypeParts ==
  TypeOK <=> /\ run \in [Runs -> Record] /\ queue \in QueueType /\ StoreType
             /\ w \in [Runs -> Worker] /\ cancels \subseteq Runs /\ ctxDone \subseteq Runs
             /\ CallType
BY DEF TypeOK, QueueType, StoreType, CallType

\* Every goroutine that moves stays within S, and none exceeds its rounds.
Stays(S) ==
  /\ w' \in [Runs -> Worker]
  /\ \A x \in Runs : w'[x] = w[x] \/ (w[x].pc \in S /\ w'[x].pc \in S)
  /\ RoundsLeft'

LEMMA MovesStay ==
  ASSUME TypeInv, NEW r \in Runs, NEW S, NEW Q, w[r].pc \in S,
         Q \subseteq S, "prepare" \notin Q, Moves(r, Q)
  PROVE  Stays(S)
BY DEF TypeInv, RoundsLeft, Moves, Steps, Stays

LEMMA StoreFacts ==
  ASSUME TypeOK
  PROVE  /\ \A r \in Runs : byRun[r] \in 0 .. MaxTickets
         /\ \A t \in TicketIds : /\ tickets[t].run \in Runs \cup {NoRun}
                                 /\ tickets[t].batch \in 0 .. MaxRounds
                                 /\ tickets[t].status \in TicketStatus
BY DEF TypeOK

LEMMA TicketTypes ==
  ASSUME TypeOK, NEW r \in Runs, NEW b \in 0 .. MaxRounds, NEW t \in 0 .. MaxTickets,
         NEW st \in Decisions
  PROVE  /\ CreateTicket(r, b) => StoreType'
         /\ tickets' = Resolved(t, st) /\ UNCHANGED <<byRun, issued>> => StoreType'
<1> DEFINE Ticket == [run : Runs \cup {NoRun}, batch : 0 .. MaxRounds, status : TicketStatus]
<1>1. /\ tickets \in [TicketIds -> Ticket] /\ byRun \in [Runs -> 0 .. MaxTickets]
      /\ issued \in 0 .. MaxTickets /\ MaxTickets \in Nat
  BY BoundAssumption DEF TypeOK
<1>2. st \in TicketStatus /\ "pending" \in TicketStatus
  BY DEF TicketStatus
<1>3. CreateTicket(r, b) => StoreType'
  <2>1. CASE UNCHANGED store
    BY <2>1, <1>1 DEF StoreType, store
  <2>2. CASE /\ issued < MaxTickets /\ issued' = issued + 1
             /\ byRun' = [byRun EXCEPT ![r] = issued + 1]
             /\ tickets' = [tickets EXCEPT ![issued + 1] =
                              [run |-> r, batch |-> b, status |-> "pending"]]
    <3>1. issued + 1 \in 0 .. MaxTickets
      BY <1>1, <2>2
    <3>2. [run |-> r, batch |-> b, status |-> "pending"] \in Ticket
      BY <1>2
    <3> HIDE DEF Ticket
    <3>3. tickets' \in [TicketIds -> Ticket]
      BY Zenon, <1>1, <2>2, <3>2
    <3> QED BY <1>1, <2>2, <3>1, <3>3 DEF StoreType, Ticket
  <2> QED BY <2>1, <2>2 DEF CreateTicket
<1>4. tickets' = Resolved(t, st) /\ UNCHANGED <<byRun, issued>> => StoreType'
  <2> SUFFICES ASSUME tickets' = Resolved(t, st) /\ UNCHANGED <<byRun, issued>>
               PROVE  tickets' \in [TicketIds -> Ticket]
    BY Zenon, <1>1 DEF StoreType
  <2>1. tickets' = tickets \/ tickets' = [tickets EXCEPT ![t].status = st]
    BY Zenon DEF Resolved
  <2> QED BY <1>1, <1>2, <2>1
<1> QED BY <1>3, <1>4

\* The steps of an execution between StartRun and FinishRun.
Inner(r) ==
  \/ Claim(r) \/ Announce(r) \/ Lock(r) \/ Enter(r) \/ ResumeTools(r) \/ Loop(r) \/ Final(r)
  \/ LastText(r) \/ Prepare(r) \/ Seeded(r) \/ Plan(r) \/ Model(r) \/ Answer(r) \/ Evaluate(r)
  \/ Park(r) \/ Batch(r) \/ Exec(r) \/ Tools(r) \/ Commit(r) \/ Results(r) \/ Refresh(r) \/ Finalize(r)

\* A step of r's goroutine to one of Q leaves the run store typed.
Typed(r, Q) == run' \in [Runs -> Record] /\ Moves(r, Q)

LEMMA AskMoves ==
  ASSUME TypeOK, NEW r \in Runs, NEW b \in 0 .. MaxRounds, AskApproval(r, b)
  PROVE  StoreType' /\ Moves(r, {"park", "refresh"})
<1>1. w \in [Runs -> Worker] /\ StoreType /\ "park" \in WorkerPc /\ "failed" \in Terminal
  BY TypeParts, PcFacts DEF Terminal
<1>2. CASE CreateTicket(r, b) /\ w' = [w EXCEPT ![r].batch = b, ![r].pc = "park"]
  <2> DEFINE nw == [w[r] EXCEPT !.batch = b, !.pc = "park"]
  <2>1. nw \in Worker /\ nw.pc = "park" /\ nw.rounds = w[r].rounds
    BY Zenon, <1>1 DEF Worker
  <2>2. w' = [w EXCEPT ![r] = nw]
    BY Zenon, <1>2
  <2>3. StoreType'
    <3>1. 1 \in 0 .. MaxTickets \/ 0 \in 0 .. MaxTickets
      BY BoundAssumption
    <3> QED BY <1>2, <3>1, TicketTypes DEF Decisions
  <2> HIDE DEF nw
  <2>4. Moves(r, {"park"})
    BY Zenon, <1>1, <2>1, <2>2, SetMoves
  <2> QED BY <2>3, <2>4 DEF Moves
<1>3. CASE Conclude(r, "failed", TRUE) /\ UNCHANGED store
  <2>1. Moves(r, {"refresh"})
    BY Zenon, <1>1, <1>3, ConcludeMoves
  <2>2. StoreType'
    BY <1>1, <1>3 DEF StoreType, store
  <2> QED BY <2>1, <2>2 DEF Moves
<1> QED BY Zenon, <1>2, <1>3 DEF AskApproval

LEMMA InnerSimple ==
  ASSUME TypeOK, NEW r \in Runs
  PROVE  /\ Announce(r) => Typed(r, {"lock", "unwind", "refresh"})
         /\ Lock(r) => Typed(r, {"enter", "unwind", "refresh"})
         /\ Enter(r) => Typed(r, {"resume", "loop", "unwind", "refresh"})
         /\ Final(r) => Typed(r, {"text", "unwind", "refresh"})
         /\ LastText(r) => Typed(r, {"refresh"})
         /\ Seeded(r) => Typed(r, {"plan", "loop", "unwind", "refresh"})
         /\ Commit(r) => Typed(r, {"results", "loop", "unwind", "refresh"})
         /\ Batch(r) => Typed(r, {"exec", "unwind", "refresh"})
<1>1. /\ w \in [Runs -> Worker] /\ run \in [Runs -> Record]
      /\ w[r].copy \in Record /\ run[r] \in Record
  BY WorkerFacts DEF TypeOK
<1>2. /\ {"unwind", "refresh", "loop", "lock", "enter", "resume", "text", "plan", "results", "exec"}
           \subseteq WorkerPc
      /\ {"failed", "cancelled", "completed"} \subseteq Terminal
  BY PcFacts DEF Terminal
<1>3. \A x \in Record : run' = [run EXCEPT ![r] = x] => run' \in [Runs -> Record]
  BY <1>1
<1>4. \A v \in Terminal, e \in BOOLEAN : Conclude(r, v, e) => Moves(r, {"refresh"})
  BY <1>1, ConcludeMoves
<1>5. Announce(r) => Typed(r, {"lock", "unwind", "refresh"})
  BY Zenon, <1>1, <1>2, <1>4, StoreMoves DEF Moves, Announce, Typed
<1>6. Lock(r) => Typed(r, {"enter", "unwind", "refresh"})
  <2>1. Goto(r, IF r \in ctxDone THEN "unwind" ELSE "enter") => Moves(r, {"enter", "unwind", "refresh"})
    BY <1>1, <1>2, GotoMoves DEF Moves
  <2>2. Expire(r) => run' = run /\ Moves(r, {"enter", "unwind", "refresh"})
    BY <1>1, <1>2, StoreMoves DEF Moves
  <2> QED BY <1>1, <2>1, <2>2 DEF Lock, Typed
<1>7. Enter(r) => Typed(r, {"resume", "loop", "unwind", "refresh"})
  <2>1. \A pc \in {"resume", "loop"} : EnsureRunnable(r, pc) => run' = run /\ Moves(r, {pc, "unwind", "refresh"})
    BY Zenon, <1>1, <1>2, StoreMoves
  <2>2. \A pc \in {"resume", "loop"} : Moves(r, {pc, "unwind", "refresh"}) => Moves(r, {"resume", "loop", "unwind", "refresh"})
    BY DEF Moves
  <2> QED BY <1>1, <2>1, <2>2 DEF Enter, Typed
<1>8. Final(r) => Typed(r, {"text", "unwind", "refresh"})
  <2>1. EnsureRunnable(r, "text") => run' = run /\ Moves(r, {"text", "unwind", "refresh"})
    BY Zenon, <1>1, <1>2, StoreMoves
  <2>2. Conclude(r, "failed", TRUE) => Moves(r, {"text", "unwind", "refresh"})
    BY Zenon, <1>2, <1>4 DEF Moves
  <2> QED BY Zenon, <1>1, <2>1, <2>2 DEF Final, Typed
<1>9. LastText(r) => Typed(r, {"refresh"})
  BY Zenon, <1>1, <1>2, <1>3, <1>4 DEF LastText, Typed
<1>10. Seeded(r) => Typed(r, {"plan", "loop", "unwind", "refresh"})
  BY Zenon, <1>1, <1>2, StoreMoves DEF Seeded, Typed
<1>11. Commit(r) => Typed(r, {"results", "loop", "unwind", "refresh"})
  BY Zenon, <1>1, <1>2, StoreMoves DEF Commit, Typed
<1>12. Batch(r) => Typed(r, {"exec", "unwind", "refresh"})
  BY Zenon, <1>1, <1>2, StoreMoves DEF Batch, Typed
<1> QED BY <1>5, <1>6, <1>7, <1>8, <1>9, <1>10, <1>11, <1>12

LEMMA InnerWrites ==
  ASSUME TypeOK, NEW r \in Runs
  PROVE  /\ Plan(r) => Typed(r, {"loop", "model", "unwind", "refresh"})
         /\ Model(r) => Typed(r, {"answer", "unwind", "refresh"})
         /\ Park(r) => Typed(r, {"unwind", "refresh"})
         /\ Exec(r) => Typed(r, {"tools", "unwind", "refresh"})
         /\ Tools(r) => Typed(r, {"commit", "unwind", "refresh"})
         /\ Results(r) => Typed(r, {"loop", "unwind", "refresh"})
         /\ OverBudget(r) => Typed(r, {"final", "unwind", "refresh"})
<1> DEFINE c == w[r].copy
<1>1. /\ w \in [Runs -> Worker] /\ run \in [Runs -> Record]
      /\ c \in Record /\ run[r] \in Record /\ w[r].batch \in 0 .. MaxRounds
      /\ byRun[r] \in 0 .. MaxTickets
  BY WorkerFacts DEF TypeOK
<1>2. /\ {"unwind", "refresh", "loop", "model", "answer", "tools", "commit", "final"} \subseteq WorkerPc
      /\ {"failed", "cancelled", "completed"} \subseteq Terminal
  BY PcFacts DEF Terminal
<1>3. \A x \in Record : run' = [run EXCEPT ![r] = x] => run' \in [Runs -> Record]
  BY <1>1
<1>4. \A v \in Terminal, e \in BOOLEAN : Conclude(r, v, e) => Moves(r, {"refresh"})
  BY <1>1, ConcludeMoves
<1>5. c.approval \in 0 .. MaxTickets /\ c.pending \in 0 .. MaxRounds
  BY <1>1, RecordFacts
<1>6. 0 \in 0 .. MaxTickets /\ 0 \in 0 .. MaxRounds /\ {"running", "waiting_approval"} \subseteq Status
  BY BoundAssumption DEF Status
<1>7. /\ Transition(c, "running", c.approval, c.pending) \in Record
      /\ Transition(c, "running", 0, 0) \in Record
      /\ Transition(c, "waiting_approval", byRun[r], w[r].batch) \in Record
      /\ [c EXCEPT !.approval = 0, !.pending = 0] \in Record
      /\ [c EXCEPT !.pending = 0] \in Record
  BY Zenon, <1>1, <1>5, <1>6, RecordOps
<1>8. \A rec \in Record, pc \in WorkerPc :
        Save(r, rec, pc) => Typed(r, {pc, "unwind", "refresh"})
  BY Zenon, StoreMoves DEF Typed
<1>9. \A pc \in WorkerPc : EnsureRunnable(r, pc) => Typed(r, {pc, "unwind", "refresh"})
  BY Zenon, <1>1, StoreMoves DEF Typed
<1>10. SaveAndFail(r) => Typed(r, {"unwind", "refresh"})
  BY Zenon, <1>1, <1>2, StoreMoves DEF Typed
<1> HIDE DEF c
<1>11. Plan(r) => Typed(r, {"loop", "model", "unwind", "refresh"})
  BY Zenon, <1>1, <1>2, <1>4, <1>7, <1>8 DEF Plan, Typed, Moves, c
<1>12. Model(r) => Typed(r, {"answer", "unwind", "refresh"})
  BY Zenon, <1>1, <1>2, <1>4, <1>9 DEF Model, Typed, Moves
<1>13. Park(r) => Typed(r, {"unwind", "refresh"})
  BY <1>2, <1>7, <1>8 DEF Park, Typed, Moves, c
<1>14. Exec(r) => Typed(r, {"tools", "unwind", "refresh"})
  BY <1>2, <1>7, <1>8 DEF Exec, c
<1>15. Tools(r) => Typed(r, {"commit", "unwind", "refresh"})
  <2>1. Goto(r, "commit") => Moves(r, {"commit"})
    BY <1>1, <1>2, GotoMoves
  <2>2. Expire(r) => run' = run /\ Moves(r, {"refresh"})
    BY Zenon, <1>1, <1>2, StoreMoves
  <2> QED BY Zenon, <1>1, <1>2, <1>4, <1>7, <1>8, <2>1, <2>2 DEF Tools, Typed, Moves, c
<1>16. Results(r) => Typed(r, {"loop", "unwind", "refresh"})
  BY Zenon, <1>2, <1>3, <1>4, <1>7, <1>8 DEF Results, Typed, Moves, c
<1>17. OverBudget(r) => Typed(r, {"final", "unwind", "refresh"})
  BY Zenon, <1>1, <1>2, <1>4, <1>7, <1>8, <1>10 DEF OverBudget, Typed, Moves, c
<1> QED BY <1>11, <1>12, <1>13, <1>14, <1>15, <1>16, <1>17

\* The steps that set other fields of the goroutine, or the store.
LEMMA InnerFields ==
  ASSUME TypeOK, NEW r \in Runs
  PROVE  /\ Claim(r) => Typed(r, {"announce", "unclaim"})
         /\ Answer(r) => Typed(r, {"loop", "evaluate", "unwind", "refresh"})
         /\ Refresh(r) => Typed(r, {"unwind", "finalize"})
         /\ Finalize(r) => Typed(r, {"unwind"})
<1> DEFINE c == w[r].copy
<1>1. /\ w \in [Runs -> Worker] /\ run \in [Runs -> Record]
      /\ c \in Record /\ run[r] \in Record /\ w[r].rounds \in 0 .. MaxRounds
      /\ w[r].verdict \in Terminal /\ w[r] \in Worker
  BY WorkerFacts DEF TypeOK
<1>2. /\ {"unwind", "refresh", "loop", "announce", "unclaim", "evaluate", "finalize"} \subseteq WorkerPc
      /\ {"failed", "cancelled", "completed"} \subseteq Terminal /\ Terminal \subseteq Status
  BY PcFacts DEF Terminal, Status
<1>3. \A x \in Record : run' = [run EXCEPT ![r] = x] => run' \in [Runs -> Record]
  BY <1>1
<1>4. \A v \in Terminal, e \in BOOLEAN : Conclude(r, v, e) => Moves(r, {"refresh"})
  BY <1>1, ConcludeMoves
<1>5. c.approval \in 0 .. MaxTickets /\ c.pending \in 0 .. MaxRounds
  BY <1>1, RecordFacts
<1>6. 0 \in 0 .. MaxTickets /\ 0 \in 0 .. MaxRounds /\ "running" \in Status
  BY BoundAssumption DEF Status
<1>7. /\ Transition(c, "running", c.approval, c.pending) \in Record
      /\ Transition(c, "running", c.approval, w[r].rounds) \in Record
      /\ Finalized(c, w[r].verdict) \in Record
      /\ [run[r] EXCEPT !.status = "running", !.started = TRUE] \in Record
  BY Zenon, <1>1, <1>2, <1>5, <1>6, RecordOps
<1>8. \A rec \in Record, pc \in WorkerPc :
        /\ Save(r, rec, pc) => Typed(r, {pc, "unwind", "refresh"})
        /\ Keep(r, rec, pc) => Moves(r, {pc})
        /\ Goto(r, pc) => Moves(r, {pc})
  BY Zenon, <1>1, StoreMoves, CopyMoves, GotoMoves DEF Typed
<1>9. w' = [w EXCEPT ![r].err = FALSE, ![r].pc = "unwind"] => Moves(r, {"unwind"})
  <2> DEFINE nw == [w[r] EXCEPT !.err = FALSE, !.pc = "unwind"]
  <2> SUFFICES ASSUME w' = [w EXCEPT ![r].err = FALSE, ![r].pc = "unwind"]  PROVE Moves(r, {"unwind"})
    OBVIOUS
  <2>1. nw \in Worker /\ nw.pc = "unwind" /\ nw.rounds = w[r].rounds
    BY Zenon, <1>1, <1>2 DEF Worker
  <2>2. w' = [w EXCEPT ![r] = nw]
    BY Zenon
  <2> HIDE DEF nw
  <2> QED BY Zenon, <1>1, <2>1, <2>2, SetMoves
<1>10. ASSUME NEW rec \in Record,
              w' = [w EXCEPT ![r].copy = rec, ![r].batch = w[r].rounds, ![r].pc = "evaluate"]
       PROVE  Moves(r, {"evaluate"})
  <2> DEFINE nw == [w[r] EXCEPT !.copy = rec, !.batch = w[r].rounds, !.pc = "evaluate"]
  <2>1. nw \in Worker /\ nw.pc = "evaluate" /\ nw.rounds = w[r].rounds
    BY Zenon, <1>1, <1>2 DEF Worker
  <2>2. w' = [w EXCEPT ![r] = nw]
    BY Zenon, <1>10
  <2> HIDE DEF nw
  <2> QED BY Zenon, <1>1, <2>1, <2>2, SetMoves
<1> HIDE DEF c
<1>11. Claim(r) => Typed(r, {"announce", "unclaim"})
  BY <1>1, <1>2, <1>3, <1>7, <1>8 DEF Claim, Typed, Moves
<1>12. Answer(r) => Typed(r, {"loop", "evaluate", "unwind", "refresh"})
  <2> SUFFICES ASSUME Answer(r)  PROVE Typed(r, {"loop", "evaluate", "unwind", "refresh"})
    OBVIOUS
  <2>1. CASE Save(r, Transition(c, "running", c.approval, c.pending), "loop")
    BY <2>1, <1>2, <1>7, <1>8 DEF Typed, Moves
  <2>2. CASE run' = [run EXCEPT ![r] = c] /\ Conclude(r, "completed", FALSE)
    BY Zenon, <2>2, <1>1, <1>2, <1>3, <1>4 DEF Typed, Moves
  <2>3. CASE Goto(r, "loop") /\ UNCHANGED run
    BY <2>3, <1>1, <1>2, <1>8 DEF Typed, Moves
  <2>4. CASE LET rec == Transition(c, "running", c.approval, w[r].rounds) IN
             /\ run' = [run EXCEPT ![r] = rec]
             /\ w' = [w EXCEPT ![r].copy = rec, ![r].batch = w[r].rounds, ![r].pc = "evaluate"]
    <3>1. Moves(r, {"evaluate"})
      BY Zenon, <2>4, <1>7, <1>10
    <3> QED BY Zenon, <2>4, <3>1, <1>3, <1>7 DEF Typed, Moves
  <2>5. CASE Conclude(r, "failed", r \notin ctxDone) /\ UNCHANGED run
    BY Zenon, <2>5, <1>1, <1>2, <1>4 DEF Typed, Moves
  <2> QED BY Zenon, <2>1, <2>2, <2>3, <2>4, <2>5 DEF Answer, c
<1>13. Refresh(r) => Typed(r, {"unwind", "finalize"})
  BY Zenon, <1>1, <1>2, <1>8, <1>9 DEF Refresh, Typed, Moves
<1>14. Finalize(r) => Typed(r, {"unwind"})
  BY Zenon, <1>1, <1>2, <1>3, <1>7, <1>8, <1>9 DEF Finalize, Typed, Moves, c
<1> QED BY <1>11, <1>12, <1>13, <1>14

LEMMA InnerTickets ==
  ASSUME TypeOK, NEW r \in Runs
  PROVE  /\ ResumeTools(r) => StoreType' /\ Typed(r, {"loop", "batch", "park", "unwind", "refresh"})
         /\ Evaluate(r) => StoreType' /\ Typed(r, {"batch", "commit", "park", "unwind", "refresh"})
<1> DEFINE c == w[r].copy
<1>1. /\ w \in [Runs -> Worker] /\ run \in [Runs -> Record] /\ StoreType
      /\ c \in Record /\ w[r] \in Worker /\ w[r].batch \in 0 .. MaxRounds /\ c.pending \in 0 .. MaxRounds
  BY WorkerFacts, RecordFacts, TypeParts
<1>2. {"unwind", "refresh", "loop", "batch", "park", "commit"} \subseteq WorkerPc
  BY PcFacts
<1>3. Transition(c, "running", 0, 0) \in Record
  <2>1. 0 \in 0 .. MaxTickets /\ 0 \in 0 .. MaxRounds /\ "running" \in Status
    BY BoundAssumption DEF Status
  <2> QED BY Zenon, <1>1, <2>1, RecordOps
<1>4. UNCHANGED store => StoreType'
  BY <1>1 DEF StoreType, store
<1>5. SaveAndFail(r) => Typed(r, {"unwind", "refresh"})
  BY Zenon, <1>1, <1>2, StoreMoves DEF Typed
<1>6. \A b \in 0 .. MaxRounds : AskApproval(r, b) => StoreType' /\ Moves(r, {"park", "refresh"})
  BY AskMoves
<1>7. ResumeTools(r) => StoreType' /\ Typed(r, {"loop", "batch", "park", "unwind", "refresh"})
  <2> SUFFICES ASSUME ResumeTools(r)
               PROVE  StoreType' /\ Typed(r, {"loop", "batch", "park", "unwind", "refresh"})
    OBVIOUS
  <2>1. CASE Save(r, Transition(c, "running", 0, 0), "loop") /\ UNCHANGED store
    BY <2>1, <1>2, <1>3, <1>4, StoreMoves DEF Typed, Moves
  <2>2. CASE /\ w' = [w EXCEPT ![r].batch = c.pending, ![r].clear = TRUE, ![r].pc = "batch"]
             /\ UNCHANGED <<run, store>>
    <3> DEFINE nw == [w[r] EXCEPT !.batch = c.pending, !.clear = TRUE, !.pc = "batch"]
    <3>1. nw \in Worker /\ nw.pc = "batch" /\ nw.rounds = w[r].rounds
      BY Zenon, <1>1, <1>2 DEF Worker
    <3>2. w' = [w EXCEPT ![r] = nw]
      BY Zenon, <2>2
    <3> HIDE DEF nw
    <3>3. Moves(r, {"batch"})
      BY Zenon, <1>1, <3>1, <3>2, SetMoves
    <3> QED BY <2>2, <3>3, <1>1, <1>4 DEF Typed, Moves
  <2>3. CASE AskApproval(r, c.pending) /\ UNCHANGED run
    BY <2>3, <1>1, <1>6 DEF Typed, Moves
  <2>4. CASE SaveAndFail(r) /\ UNCHANGED store
    BY <2>4, <1>4, <1>5 DEF Typed, Moves
  <2> QED BY <2>1, <2>2, <2>3, <2>4 DEF ResumeTools
<1>8. Evaluate(r) => StoreType' /\ Typed(r, {"batch", "commit", "park", "unwind", "refresh"})
  <2> SUFFICES ASSUME Evaluate(r)
               PROVE  StoreType' /\ Typed(r, {"batch", "commit", "park", "unwind", "refresh"})
    OBVIOUS
  <2>1. ASSUME NEW pc \in {"batch", "commit"}, w' = [w EXCEPT ![r].clear = FALSE, ![r].pc = pc]
        PROVE  Moves(r, {pc})
    <3> DEFINE nw == [w[r] EXCEPT !.clear = FALSE, !.pc = pc]
    <3>1. nw \in Worker /\ nw.pc = pc /\ nw.rounds = w[r].rounds
      BY Zenon, <1>1, <1>2 DEF Worker
    <3>2. w' = [w EXCEPT ![r] = nw]
      BY Zenon, <2>1
    <3> HIDE DEF nw
    <3> QED BY Zenon, <1>1, <3>1, <3>2, SetMoves
  <2>2. CASE /\ \E pc \in {"batch", "commit"} : w' = [w EXCEPT ![r].clear = FALSE, ![r].pc = pc]
             /\ UNCHANGED <<run, store>>
    BY Zenon, <2>1, <2>2, <1>1, <1>4 DEF Typed, Moves
  <2>3. CASE AskApproval(r, w[r].batch) /\ UNCHANGED run
    BY <2>3, <1>1, <1>6 DEF Typed, Moves
  <2>4. CASE SaveAndFail(r) /\ UNCHANGED store
    BY <2>4, <1>4, <1>5 DEF Typed, Moves
  <2> QED BY Zenon, <2>2, <2>3, <2>4 DEF Evaluate
<1> QED BY <1>7, <1>8

\* The round budget: the top of the loop checks it, Prepare uses it up.
LEMMA InnerRounds ==
  ASSUME TypeInv, NEW r \in Runs
  PROVE  /\ Loop(r) => run' \in [Runs -> Record] /\ Stays(InSlot)
         /\ Prepare(r) => run' \in [Runs -> Record] /\ Stays(InSlot)
<1>1. /\ w \in [Runs -> Worker] /\ run \in [Runs -> Record] /\ TypeOK /\ RoundsLeft
      /\ w[r].copy \in Record /\ w[r] \in Worker /\ w[r].rounds \in 0 .. MaxRounds
  BY WorkerFacts, RecordFacts DEF TypeInv, TypeOK
<1>2. {"loop", "prepare", "seeded", "final", "unwind", "refresh"} \subseteq WorkerPc \cap InSlot
  BY PcFacts
<1>3. Loop(r) => run' \in [Runs -> Record] /\ Stays(InSlot)
  <2> SUFFICES ASSUME Loop(r)  PROVE run' \in [Runs -> Record] /\ Stays(InSlot)
    OBVIOUS
  <2>1. CASE w[r].rounds < MaxRounds /\ EnsureRunnable(r, "prepare")
    <3>1. run' = run /\ Moves(r, {"prepare", "unwind", "refresh"})
      BY Zenon, <2>1, <1>1, <1>2, StoreMoves
    <3> QED BY <2>1, <3>1, <1>1, <1>2 DEF Moves, Steps, Stays, RoundsLeft, Loop, At
  <2>2. CASE OverBudget(r)
    <3>1. Typed(r, {"final", "unwind", "refresh"})
      BY <2>2, <1>1, InnerWrites
    <3> QED BY <3>1, <1>2, MovesStay DEF Typed, Loop, At
  <2> QED BY <2>1, <2>2 DEF Loop
<1>4. Prepare(r) => run' \in [Runs -> Record] /\ Stays(InSlot)
  <2> SUFFICES ASSUME Prepare(r)  PROVE run' \in [Runs -> Record] /\ Stays(InSlot)
    OBVIOUS
  <2>1. CASE /\ run' = [run EXCEPT ![r] = w[r].copy]
             /\ w' = [w EXCEPT ![r].rounds = @ + 1, ![r].pc = "seeded"]
    <3> DEFINE nw == [w[r] EXCEPT !.rounds = @ + 1, !.pc = "seeded"]
    <3>0. w[r].rounds + 1 \in 0 .. MaxRounds
      BY <1>1, BoundAssumption DEF RoundsLeft, Prepare, At
    <3>1. nw \in Worker /\ nw.pc = "seeded"
      BY Zenon, <1>1, <1>2, <3>0 DEF Worker
    <3>2. w' = [w EXCEPT ![r] = nw]
      BY Zenon, <2>1
    <3> HIDE DEF nw
    <3> QED BY Zenon, <2>1, <1>1, <1>2, <3>1, <3>2 DEF Stays, RoundsLeft, Prepare, At
  <2>2. CASE Abort(r) \/ Expire(r)
    <3>1. run' = run /\ Moves(r, {"unwind", "refresh"})
      BY <2>2, <1>1, <1>2, StoreMoves DEF Moves
    <3> QED BY <3>1, <1>1, <1>2, MovesStay DEF Prepare, At
  <2> QED BY <2>1, <2>2 DEF Prepare
<1> QED BY <1>3, <1>4

\* An execution in its slot stays there; queue, cancel registry and calls are untouched.
LEMMA InnerStays ==
  ASSUME TypeInv, NEW r \in Runs, Inner(r)
  PROVE  /\ run' \in [Runs -> Record] /\ StoreType' /\ Stays(InSlot)
         /\ UNCHANGED <<queue, cancels, ctxDone, Outside>>
<1>1. TypeOK /\ StoreType /\ (UNCHANGED store => StoreType')
  BY TypeParts DEF TypeInv, StoreType, store
<1>2. ASSUME NEW Q, Q \subseteq InSlot, "prepare" \notin Q, Typed(r, Q), w[r].pc \in InSlot
      PROVE  run' \in [Runs -> Record] /\ Stays(InSlot)
  BY <1>2, MovesStay DEF Typed
<1>3. CASE Claim(r)
  BY Zenon, <1>1, <1>2, <1>3, InnerFields, PcFacts DEF Claim, At
<1>4. CASE Announce(r)
  BY Zenon, <1>1, <1>2, <1>4, InnerSimple, PcFacts DEF Announce, At, Silent
<1>5. CASE Lock(r)
  BY <1>1, <1>2, <1>5, InnerSimple, PcFacts DEF Lock, At, Silent
<1>6. CASE Enter(r)
  BY <1>1, <1>2, <1>6, InnerSimple, PcFacts DEF Enter, At, Silent
<1>7. CASE ResumeTools(r)
  BY Zenon, <1>1, <1>2, <1>7, InnerTickets, PcFacts DEF ResumeTools, At
<1>8. CASE Loop(r)
  BY <1>1, <1>8, InnerRounds DEF Loop, Silent
<1>9. CASE Final(r)
  BY Zenon, <1>1, <1>2, <1>9, InnerSimple, PcFacts DEF Final, At, Silent
<1>10. CASE LastText(r)
  BY Zenon, <1>1, <1>2, <1>10, InnerSimple, PcFacts DEF LastText, At, Silent
<1>11. CASE Prepare(r)
  BY <1>1, <1>11, InnerRounds DEF Prepare, Silent
<1>12. CASE Seeded(r)
  BY <1>1, <1>2, <1>12, InnerSimple, PcFacts DEF Seeded, At, Silent
<1>13. CASE Plan(r)
  BY Zenon, <1>1, <1>2, <1>13, InnerWrites, PcFacts DEF Plan, At, Silent
<1>14. CASE Model(r)
  BY <1>1, <1>2, <1>14, InnerWrites, PcFacts DEF Model, At, Silent
<1>15. CASE Answer(r)
  BY Zenon, <1>1, <1>2, <1>15, InnerFields, PcFacts DEF Answer, At, Silent
<1>16. CASE Evaluate(r)
  BY <1>1, <1>2, <1>16, InnerTickets, PcFacts DEF Evaluate, At
<1>17. CASE Park(r)
  BY <1>1, <1>2, <1>17, InnerWrites, PcFacts DEF Park, At, Silent
<1>18. CASE Batch(r)
  BY Zenon, <1>1, <1>2, <1>18, InnerSimple, PcFacts DEF Batch, At, Silent
<1>19. CASE Exec(r)
  BY <1>1, <1>2, <1>19, InnerWrites, PcFacts DEF Exec, At, Silent
<1>20. CASE Tools(r)
  BY Zenon, <1>1, <1>2, <1>20, InnerWrites, PcFacts DEF Tools, At, Silent
<1>21. CASE Commit(r)
  BY <1>1, <1>2, <1>21, InnerSimple, PcFacts DEF Commit, At, Silent
<1>22. CASE Results(r)
  BY Zenon, <1>1, <1>2, <1>22, InnerWrites, PcFacts DEF Results, At, Silent
<1>23. CASE Refresh(r)
  BY <1>1, <1>2, <1>23, InnerFields, PcFacts DEF Refresh, At, Silent
<1>24. CASE Finalize(r)
  BY <1>1, <1>2, <1>24, InnerFields, PcFacts DEF Finalize, At, Silent
<1> QED BY <1>3, <1>4, <1>5, <1>6, <1>7, <1>8, <1>9, <1>10, <1>11, <1>12, <1>13, <1>14,
           <1>15, <1>16, <1>17, <1>18, <1>19, <1>20, <1>21, <1>22, <1>23, <1>24 DEF Inner

-----------------------------------------------------------------------------
(* The steps of a goroutine outside its registered execution, and the calls  *)
(* that dispatch one.                                                        *)

Off == WorkerPc \ Registered

Outer(r) ==
  \/ Gate(r) \/ Hold(r) \/ Held(r) \/ HoldFails(r) \/ Begin(r) \/ Runnable(r) \/ CheckTicket(r)
  \/ BgGet(r) \/ BgWrite(r) \/ NextRun(r) \/ Forward(r) \/ Handoff(r) \/ End(r)

LEMMA IdleType == IdleWorker \in Worker /\ IdleWorker.pc = "idle" /\ IdleWorker.rounds = 0
<1>1. 0 \in 0 .. MaxRounds /\ "idle" \in WorkerPc /\ "failed" \in Terminal
  BY BoundAssumption, PcFacts DEF Terminal
<1> QED BY <1>1, NewRecords DEF IdleWorker, Worker

\* A goroutine is left alone, or launched from the idle one.
Launched(old, new) == new = old \/ (old.pc = "idle" /\ new.pc \in {"begin", "gate"})

\* A run that is dispatched has been idle; a run id that is no run changes nothing.
LEMMA DispatchedType ==
  ASSUME NEW ws \in [Runs -> Worker], NEW r \in Runs \cup {NoRun}, NEW a \in BOOLEAN, NEW b \in BOOLEAN
  PROVE  /\ Dispatched(ws, r, a, b) \in [Runs -> Worker]
         /\ \A x \in Runs : Launched(ws[x], Dispatched(ws, r, a, b)[x])
<1> DEFINE D == Dispatched(ws, r, a, b)
<1>1. CASE r \in Runs
  <2> DEFINE pc == IF b THEN "begin" ELSE "gate"
             nw == [ws[r] EXCEPT !.pc = pc, !.resume = a, !.bypass = b]
  <2>1. pc \in WorkerPc
    BY PcFacts
  <2>2. nw \in Worker /\ nw.pc \in {"begin", "gate"}
    BY Zenon, <1>1, <2>1 DEF Worker
  <2>3. D = IF ws[r].pc = "idle" THEN [ws EXCEPT ![r] = nw] ELSE ws
    <3>1. CASE ws[r].pc = "idle"
      BY <3>1, <1>1, Zenon DEF Dispatched
    <3>2. CASE ws[r].pc # "idle"
      BY <3>2, Zenon DEF Dispatched
    <3> QED BY <3>1, <3>2
  <2> HIDE DEF nw, D
  <2>4. D \in [Runs -> Worker] /\ \A x \in Runs : Launched(ws[x], D[x])
    <3>1. CASE ws[r].pc = "idle"
      BY <3>1, <1>1, <2>2, <2>3 DEF Launched
    <3>2. CASE ws[r].pc # "idle"
      BY <3>2, <2>3 DEF Launched
    <3> QED BY <3>1, <3>2
  <2> QED BY <2>4 DEF D
<1>2. CASE r = NoRun
  <2>1. r \notin Runs
    BY <1>2, RunsAssumption
  <2>2. D = ws
    BY <2>1 DEF Dispatched
  <2> QED BY <2>2 DEF Launched
<1> QED BY <1>1, <1>2

LEMMA DispatchStays ==
  ASSUME TypeInv, NEW r \in Runs \cup {NoRun}, NEW a \in BOOLEAN, NEW b \in BOOLEAN,
         w' = Dispatched(w, r, a, b)
  PROVE  Stays(Off)
<1>1. w \in [Runs -> Worker] /\ RoundsLeft
  BY DEF TypeInv, TypeOK
<1>2. {"idle", "begin", "gate"} \subseteq Off
  BY PcFacts DEF Off
<1>3. /\ w' \in [Runs -> Worker]
      /\ \A x \in Runs : Launched(w[x], w'[x])
  <2> DEFINE D == Dispatched(w, r, a, b)
  <2>1. D \in [Runs -> Worker]
    BY Zenon, <1>1, DispatchedType
  <2>2. \A x \in Runs : Launched(w[x], D[x])
    BY Zenon, <1>1, DispatchedType
  <2>3. w' = D
    OBVIOUS
  <2> HIDE DEF D
  <2> QED BY <2>1, <2>2, <2>3
<1> QED BY <1>1, <1>2, <1>3 DEF Stays, RoundsLeft, Launched

LEMMA OuterStays ==
  ASSUME TypeInv, NEW r \in Runs, Outer(r)
  PROVE  /\ run' \in [Runs -> Record] /\ StoreType' /\ Stays(Off)
         /\ UNCHANGED <<queue, cancels, ctxDone, Outside>>
<1> DEFINE Goal == /\ run' \in [Runs -> Record] /\ StoreType' /\ Stays(Off)
                   /\ UNCHANGED <<queue, cancels, ctxDone, Outside>>
<1>1. /\ w \in [Runs -> Worker] /\ run \in [Runs -> Record] /\ TypeOK /\ StoreType /\ queue \in QueueType
      /\ w[r].copy \in Record /\ w[r] \in Worker /\ run[r] \in Record /\ RoundsLeft
      /\ byRun[r] \in 0 .. MaxTickets
  BY Zenon, WorkerFacts, TypeParts, StoreFacts DEF TypeInv
<1>2. UNCHANGED store => StoreType'
  BY <1>1 DEF StoreType, store
<1>3. ASSUME NEW Q, Q \subseteq Off, w[r].pc \in Off, Moves(r, Q)
      PROVE  Stays(Off)
  BY <1>3, MovesStay, PcFacts DEF Off
<1>4. \A pc \in WorkerPc, rec \in Record : /\ Goto(r, pc) => Moves(r, {pc})
                                           /\ Keep(r, rec, pc) => Moves(r, {pc})
  BY <1>1, GotoMoves, CopyMoves
<1>5. {"idle", "gate", "hold", "held", "begin", "runnable", "ticket", "start", "bgGet", "bgWrite",
       "bgFinish", "next", "forward", "handoff", "end"} \subseteq Off \cap WorkerPc
  BY PcFacts DEF Off
<1>6. w' = [w EXCEPT ![r] = [IdleWorker EXCEPT !.rounds = w[r].rounds]] => Moves(r, {"idle"})
  <2> SUFFICES ASSUME w' = [w EXCEPT ![r] = [IdleWorker EXCEPT !.rounds = w[r].rounds]]
               PROVE  Moves(r, {"idle"})
    OBVIOUS
  <2> DEFINE nw == [IdleWorker EXCEPT !.rounds = w[r].rounds]
  <2>1. nw \in Worker /\ nw.pc = "idle" /\ nw.rounds = w[r].rounds
    BY <1>1, IdleType DEF Worker
  <2>2. w' = [w EXCEPT ![r] = nw]
    OBVIOUS
  <2> HIDE DEF nw
  <2> QED BY Zenon, <1>1, <2>1, <2>2, SetMoves
<1>7. Gate(r) => Goal
  <2> SUFFICES ASSUME Gate(r)  PROVE Goal
    OBVIOUS
  <2>1. Moves(r, {"hold", "begin"})
    <3>1. CASE GateApplies(r)
      BY Zenon, <3>1, <1>1, <1>4, <1>5 DEF Gate, Moves
    <3>2. CASE ~GateApplies(r)
      BY <3>2, <1>1, <1>4, <1>5 DEF Gate, Moves
    <3> QED BY <3>1, <3>2
  <2> QED BY <2>1, <1>1, <1>2, <1>3, <1>5 DEF Gate, At
<1>8. Hold(r) => Goal
  <2> SUFFICES ASSUME Hold(r)  PROVE Goal
    OBVIOUS
  <2>1. StoreType'
    <3>1. 0 \in 0 .. MaxRounds /\ 0 \in 0 .. MaxTickets
      BY BoundAssumption
    <3> QED BY <1>1, <3>1, TicketTypes DEF Hold, Decisions
  <2> QED BY Zenon, <2>1, <1>1, <1>3, <1>4, <1>5 DEF Hold, At
<1>9. Held(r) => Goal
  <2> SUFFICES ASSUME Held(r)  PROVE Goal
    OBVIOUS
  <2> DEFINE rec == [w[r].copy EXCEPT !.status = "waiting_approval", !.approval = byRun[r], !.pending = 0]
  <2>1. rec \in Record
    <3>1. 0 \in 0 .. MaxRounds /\ "waiting_approval" \in Status
      BY BoundAssumption DEF Status
    <3> QED BY Zenon, <1>1, <3>1, RecordOps
  <2>2. run' = [run EXCEPT ![r] = rec]
    BY DEF Held
  <2> HIDE DEF rec
  <2>3. run' \in [Runs -> Record]
    BY <1>1, <2>1, <2>2
  <2> QED BY <2>3, <1>2, <1>3, <1>5, <1>6 DEF Held, At
<1>10. HoldFails(r) \/ End(r) => Goal
  BY <1>1, <1>2, <1>3, <1>5, <1>6 DEF HoldFails, End, At, Silent
<1>11. Begin(r) => Goal
  <2> SUFFICES ASSUME Begin(r)  PROVE Goal
    OBVIOUS
  <2>1. Moves(r, {"next", "start", "bgGet", "runnable"})
    BY <1>1, <1>4, <1>5 DEF Begin, Moves
  <2> QED BY <2>1, <1>1, <1>2, <1>3, <1>5 DEF Begin, At
<1>12. Runnable(r) => Goal
  <2> SUFFICES ASSUME Runnable(r)  PROVE Goal
    OBVIOUS
  <2>1. Moves(r, {"ticket", "bgGet"})
    BY <1>1, <1>4, <1>5 DEF Runnable, Moves
  <2> QED BY <2>1, <1>1, <1>2, <1>3, <1>5 DEF Runnable, At
<1>13. CheckTicket(r) => Goal
  <2> SUFFICES ASSUME CheckTicket(r)  PROVE Goal
    OBVIOUS
  <2>1. Moves(r, {"start", "bgGet"})
    BY <1>1, <1>4, <1>5 DEF CheckTicket, Moves
  <2> QED BY <2>1, <1>1, <1>2, <1>3, <1>5 DEF CheckTicket, At
<1>14. BgGet(r) => Goal
  <2> SUFFICES ASSUME BgGet(r)  PROVE Goal
    OBVIOUS
  <2>1. Moves(r, {"next", "bgWrite"})
    BY <1>1, <1>4, <1>5 DEF BgGet, Moves
  <2> QED BY <2>1, <1>1, <1>2, <1>3, <1>5 DEF BgGet, At, Silent
<1>15. BgWrite(r) => Goal
  <2>1. 0 \in 0 .. MaxRounds /\ 0 \in 0 .. MaxTickets /\ "failed" \in Status
    BY BoundAssumption DEF Status
  <2>2. Finalized(w[r].copy, "failed") \in Record
    BY Zenon, <1>1, <2>1, RecordOps
  <2> QED BY Zenon, <2>2, <1>1, <1>2, <1>3, <1>4, <1>5 DEF BgWrite, At, Silent
<1>16. NextRun(r) => Goal
  <2> SUFFICES ASSUME NextRun(r)  PROVE Goal
    OBVIOUS
  <2>1. Moves(r, {"end", "forward"})
    BY Zenon, <1>1, <1>4, <1>5 DEF NextRun, Moves
  <2> QED BY <2>1, <1>1, <1>2, <1>3, <1>5 DEF NextRun, At, Silent
<1>17. Forward(r) => Goal
  <2> SUFFICES ASSUME Forward(r)  PROVE Goal
    OBVIOUS
  <2> DEFINE head == NextQueuedRun(queue)
             pc == IF head \in {NoRun, r} THEN "end" ELSE "handoff"
             nw == [w[r] EXCEPT !.next = head, !.pc = pc]
  <2>1. head \in Runs \cup {NoRun} /\ pc \in WorkerPc /\ pc \in {"end", "handoff"}
    BY <1>1, <1>5, QueueOps
  <2>2. w' = [w EXCEPT ![r] = nw]
    BY Zenon DEF Forward
  <2> HIDE DEF head, pc
  <2>3. nw \in Worker /\ nw.pc = pc /\ nw.rounds = w[r].rounds
    BY Zenon, <1>1, <2>1 DEF Worker
  <2> HIDE DEF nw
  <2>4. Moves(r, {"end", "handoff"})
    BY Zenon, <1>1, <2>1, <2>2, <2>3, SetMoves DEF Moves
  <2> QED BY <2>4, <1>1, <1>2, <1>3, <1>5 DEF Forward, At, Silent
<1>18. Handoff(r) => Goal
  <2> SUFFICES ASSUME Handoff(r)  PROVE Goal
    OBVIOUS
  <2> DEFINE ws == [w EXCEPT ![r].pc = "end"]
             D == Dispatched(ws, w[r].next, FALSE, w[r].bypass)
  <2>1. ws \in [Runs -> Worker] /\ ws[r].pc = "end" /\ \A x \in Runs \ {r} : ws[x] = w[x]
    BY <1>1, <1>5 DEF Worker
  <2>2. w[r].next \in Runs \cup {NoRun} /\ w[r].bypass \in BOOLEAN
    BY <1>1, WorkerFacts
  <2>3. w' = D
    BY DEF Handoff
  <2> HIDE DEF ws
  <2>4. D \in [Runs -> Worker]
    BY Zenon, <2>1, <2>2, DispatchedType
  <2>5. \A x \in Runs : Launched(ws[x], D[x])
    BY Zenon, <2>1, <2>2, DispatchedType
  <2> HIDE DEF D
  <2>6. Stays(Off)
    BY Zenon, <1>1, <1>5, <2>1, <2>3, <2>4, <2>5 DEF Stays, RoundsLeft, Launched, Handoff, At
  <2> QED BY <2>6, <1>1, <1>2 DEF Handoff, Silent
<1> QED BY <1>7, <1>8, <1>9, <1>10, <1>11, <1>12, <1>13, <1>14, <1>15, <1>16, <1>17, <1>18 DEF Outer

-----------------------------------------------------------------------------
(* The remaining steps of a goroutine: into and out of its slot.             *)

LEMMA EdgeMoves ==
  ASSUME TypeOK, NEW r \in Runs
  PROVE  /\ Register(r) => Moves(r, {"take"})
         /\ Take(r) => Moves(r, {"claim", "leave"})
         /\ Unclaim(r) \/ Unwind(r) => Moves(r, {"leave"})
         /\ Leave(r) => Moves(r, {"bgGet", "next"})
         /\ BgFinish(r) => Moves(r, {"next"})
<1>1. w \in [Runs -> Worker] /\ w[r] \in Worker
  BY DEF TypeOK
<1>2. {"take", "claim", "leave", "bgGet", "next"} \subseteq WorkerPc
  BY PcFacts
<1>3. \A pc \in WorkerPc : Goto(r, pc) => Moves(r, {pc})
  BY <1>1, GotoMoves
<1>4. Register(r) => Moves(r, {"take"})
  BY <1>2, <1>3 DEF Register
<1>5. Take(r) => Moves(r, {"claim", "leave"})
  BY <1>2, <1>3 DEF Take, Moves
<1>6. Unclaim(r) \/ Unwind(r) => Moves(r, {"leave"})
  BY <1>2, <1>3 DEF Unclaim, Unwind
<1>7. Leave(r) => Moves(r, {"bgGet", "next"})
  <2> SUFFICES ASSUME Leave(r)  PROVE Moves(r, {"bgGet", "next"})
    OBVIOUS
  <2> DEFINE pc == IF w[r].err THEN "bgGet" ELSE "next"
             nw == [w[r] EXCEPT !.copy = Absent, !.batch = 0, !.clear = FALSE, !.pc = pc]
  <2>1. pc \in WorkerPc /\ pc \in {"bgGet", "next"} /\ 0 \in 0 .. MaxRounds
    BY <1>2, BoundAssumption
  <2>2. w' = [w EXCEPT ![r] = nw]
    BY Zenon DEF Leave
  <2> HIDE DEF pc
  <2>3. nw \in Worker /\ nw.pc = pc /\ nw.rounds = w[r].rounds
    BY Zenon, <1>1, <2>1, NewRecords DEF Worker
  <2> HIDE DEF nw
  <2> QED BY Zenon, <1>1, <2>1, <2>2, <2>3, SetMoves DEF Moves
<1>8. BgFinish(r) => Moves(r, {"next"})
  BY <1>2, <1>3 DEF BgFinish
<1> QED BY <1>4, <1>5, <1>6, <1>7, <1>8

LEMMA MovesRounds ==
  ASSUME TypeInv, NEW r \in Runs, NEW Q, "prepare" \notin Q, Moves(r, Q)
  PROVE  w' \in [Runs -> Worker] /\ RoundsLeft'
BY DEF TypeInv, RoundsLeft, Moves, Steps

LEMMA TypeStep ==
  ASSUME run' \in [Runs -> Record], queue' \in QueueType, StoreType', w' \in [Runs -> Worker],
         cancels' \subseteq Runs, ctxDone' \subseteq Runs, CallType', RoundsLeft'
  PROVE  TypeInv'
BY Zenon DEF TypeInv, TypeOK, QueueType, StoreType, CallType

LEMMA WorkTypes ==
  ASSUME TypeInv, NEW r \in Runs, Work(r)
  PROVE  TypeInv'
<1>1. /\ TypeOK /\ run \in [Runs -> Record] /\ queue \in QueueType /\ StoreType
      /\ cancels \subseteq Runs /\ ctxDone \subseteq Runs /\ CallType
  BY TypeParts DEF TypeInv
<1>2. (UNCHANGED Outside => CallType') /\ (UNCHANGED store => StoreType')
  BY <1>1 DEF CallType, Outside, StoreType, store
<1>4. CASE Inner(r)
  BY <1>1, <1>2, <1>4, TypeStep, InnerStays DEF Stays
<1>5. CASE Outer(r)
  BY <1>1, <1>2, <1>5, TypeStep, OuterStays DEF Stays
<1>6. CASE Register(r)
  <2>1. Moves(r, {"take"})
    BY <1>1, <1>6, EdgeMoves
  <2> QED BY <1>1, <1>2, <1>6, <2>1, TypeStep, MovesRounds DEF Register
<1>7. CASE Take(r)
  <2>1. Moves(r, {"claim", "leave"})
    BY <1>1, <1>7, EdgeMoves
  <2>2. queue' \in QueueType
    BY <1>1, <1>7, QueueOps DEF Take
  <2> QED BY <1>1, <1>2, <1>7, <2>1, <2>2, TypeStep, MovesRounds DEF Take
<1>8. CASE Unclaim(r) \/ Unwind(r)
  <2>1. Moves(r, {"leave"})
    BY <1>1, <1>8, EdgeMoves
  <2>2. queue' \in QueueType
    BY <1>1, <1>8, FinishType DEF Unclaim, Unwind
  <2> QED BY <1>1, <1>2, <1>8, <2>1, <2>2, TypeStep, MovesRounds DEF Unclaim, Unwind
<1>9. CASE Leave(r)
  <2>1. Moves(r, {"bgGet", "next"})
    BY <1>1, <1>9, EdgeMoves
  <2> QED BY Zenon, <1>1, <1>2, <1>9, <2>1, TypeStep, MovesRounds DEF Leave
<1>10. CASE BgFinish(r)
  <2>1. Moves(r, {"next"})
    BY <1>1, <1>10, EdgeMoves
  <2>2. queue' \in QueueType
    BY <1>1, <1>10, FinishType DEF BgFinish
  <2> QED BY <1>1, <1>2, <1>10, <2>1, <2>2, TypeStep, MovesRounds DEF BgFinish
<1> QED BY <1>4, <1>5, <1>6, <1>7, <1>8, <1>9, <1>10 DEF Work, Inner, Outer

-----------------------------------------------------------------------------
(* The types of the calls: Submit, CancelRun, ResolveApproval, resume, restart. *)

SubCall == [pc : SubmitPc, copy : Record, todo : SUBSET Runs]
CanCall == [pc : CancelPc, run : Runs \cup {NoRun}, copy : Record]
AppCall == [pc : ApproverPc, decision : Decisions, copy : Record]

LEMMA IdleCalls == IdleCancel \in CanCall /\ IdleApprover \in AppCall
BY NewRecords DEF IdleCancel, IdleApprover, CanCall, AppCall, CancelPc, ApproverPc, Decisions

LEMMA SubTypes ==
  ASSUME sub \in [Runs -> SubCall], NEW r \in Runs, NEW pc \in SubmitPc, NEW rec \in Record,
         NEW todo \in SUBSET Runs
  PROVE  /\ SubGoto(r, pc) => sub' \in [Runs -> SubCall]
         /\ sub' = [sub EXCEPT ![r].copy = rec, ![r].pc = pc] => sub' \in [Runs -> SubCall]
         /\ sub' = [sub EXCEPT ![r].todo = todo] => sub' \in [Runs -> SubCall]
         /\ sub' = [sub EXCEPT ![r].todo = todo, ![r].pc = pc] => sub' \in [Runs -> SubCall]
<1>1. SubGoto(r, pc) => sub' \in [Runs -> SubCall]
  BY DEF SubGoto, SubCall
<1>2. ASSUME sub' = [sub EXCEPT ![r].copy = rec, ![r].pc = pc]  PROVE sub' \in [Runs -> SubCall]
  <2> DEFINE ns == [sub[r] EXCEPT !.copy = rec, !.pc = pc]
  <2>1. ns \in SubCall /\ sub' = [sub EXCEPT ![r] = ns]
    BY Zenon, <1>2 DEF SubCall
  <2> HIDE DEF ns
  <2> QED BY <2>1
<1>3. sub' = [sub EXCEPT ![r].todo = todo] => sub' \in [Runs -> SubCall]
  BY DEF SubCall
<1>4. ASSUME sub' = [sub EXCEPT ![r].todo = todo, ![r].pc = pc]  PROVE sub' \in [Runs -> SubCall]
  <2> DEFINE ns == [sub[r] EXCEPT !.todo = todo, !.pc = pc]
  <2>1. ns \in SubCall /\ sub' = [sub EXCEPT ![r] = ns]
    BY Zenon, <1>4 DEF SubCall
  <2> HIDE DEF ns
  <2> QED BY <2>1
<1> QED BY <1>1, <1>2, <1>3, <1>4

LEMMA CanTypes ==
  ASSUME can \in [Callers -> CanCall], NEW c \in Callers, NEW pc \in CancelPc, NEW x \in Runs,
         NEW rec \in Record
  PROVE  /\ can' = [can EXCEPT ![c].pc = pc] => can' \in [Callers -> CanCall]
         /\ can' = [can EXCEPT ![c] = [pc |-> pc, run |-> x, copy |-> rec]] => can' \in [Callers -> CanCall]
         /\ can' = [can EXCEPT ![c] = IdleCancel] => can' \in [Callers -> CanCall]
<1>1. can' = [can EXCEPT ![c].pc = pc] => can' \in [Callers -> CanCall]
  BY DEF CanCall
<1>2. [pc |-> pc, run |-> x, copy |-> rec] \in CanCall
  BY DEF CanCall
<1> QED BY <1>1, <1>2, IdleCalls

LEMMA AppTypes ==
  ASSUME app \in [TicketIds -> AppCall], NEW t \in TicketIds, NEW pc \in ApproverPc, NEW d \in Decisions,
         NEW rec \in Record
  PROVE  /\ AppGoto(t, pc) => app' \in [TicketIds -> AppCall]
         /\ app' = [app EXCEPT ![t] = IdleApprover] => app' \in [TicketIds -> AppCall]
         /\ app' = [app EXCEPT ![t].decision = d, ![t].pc = pc] => app' \in [TicketIds -> AppCall]
         /\ app' = [app EXCEPT ![t].copy = rec, ![t].pc = pc] => app' \in [TicketIds -> AppCall]
         /\ app' = [app EXCEPT ![t] = [@ EXCEPT !.copy = rec, !.pc = pc]] => app' \in [TicketIds -> AppCall]
<1>1. /\ [app[t] EXCEPT !.pc = pc] \in AppCall
      /\ [app[t] EXCEPT !.decision = d, !.pc = pc] \in AppCall
      /\ [app[t] EXCEPT !.copy = rec, !.pc = pc] \in AppCall
  BY Zenon DEF AppCall
<1>2. AppGoto(t, pc) => app' \in [TicketIds -> AppCall]
  BY <1>1, IdleCalls DEF AppGoto
<1>3. app' = [app EXCEPT ![t] = IdleApprover] => app' \in [TicketIds -> AppCall]
  BY IdleCalls
<1>4. ASSUME app' = [app EXCEPT ![t].decision = d, ![t].pc = pc]  PROVE app' \in [TicketIds -> AppCall]
  <2> DEFINE na == [app[t] EXCEPT !.decision = d, !.pc = pc]
  <2>1. na \in AppCall /\ app' = [app EXCEPT ![t] = na]
    BY Zenon, <1>1, <1>4
  <2> HIDE DEF na
  <2> QED BY <2>1
<1>5. ASSUME \/ app' = [app EXCEPT ![t].copy = rec, ![t].pc = pc]
             \/ app' = [app EXCEPT ![t] = [@ EXCEPT !.copy = rec, !.pc = pc]]
      PROVE  app' \in [TicketIds -> AppCall]
  <2> DEFINE na == [app[t] EXCEPT !.copy = rec, !.pc = pc]
  <2>1. na \in AppCall /\ app' = [app EXCEPT ![t] = na]
    BY Zenon, <1>1, <1>5
  <2> HIDE DEF na
  <2> QED BY <2>1
<1> QED BY <1>2, <1>3, <1>4, <1>5

\* What a call leaves alone, and the type of the rest.
LEMMA CallStep ==
  ASSUME TypeInv, UNCHANGED <<cancels, ctxDone>>, run' \in [Runs -> Record], queue' \in QueueType,
         StoreType', \/ UNCHANGED w
                     \/ Stays(Off),
         sub' \in [Runs -> SubCall], can' \in [Callers -> CanCall], app' \in [TicketIds -> AppCall],
         res' \subseteq Runs,
         used' \in [cancels : 0 .. MaxCancels, resumes : 0 .. MaxResumes, restarts : 0 .. MaxRestarts]
  PROVE  TypeInv'
<1>1. w' \in [Runs -> Worker] /\ RoundsLeft'
  BY DEF TypeInv, TypeOK, RoundsLeft, Stays
<1>2. cancels' \subseteq Runs /\ ctxDone' \subseteq Runs
  BY DEF TypeInv, TypeOK
<1>3. CallType'
  BY DEF CallType, SubCall, CanCall, AppCall
<1> QED BY <1>1, <1>2, <1>3, TypeStep

LEMMA CallFacts ==
  ASSUME TypeInv
  PROVE  /\ run \in [Runs -> Record] /\ queue \in QueueType /\ StoreType /\ TypeOK
         /\ sub \in [Runs -> SubCall] /\ can \in [Callers -> CanCall]
         /\ app \in [TicketIds -> AppCall] /\ res \subseteq Runs
         /\ used \in [cancels : 0 .. MaxCancels, resumes : 0 .. MaxResumes, restarts : 0 .. MaxRestarts]
         /\ (UNCHANGED store => StoreType')
         /\ \A r \in Runs : sub[r].copy \in Record /\ sub[r].todo \subseteq Runs /\ run[r] \in Record
         /\ \A c \in Callers : can[c].copy \in Record /\ can[c].run \in Runs \cup {NoRun}
         /\ \A t \in TicketIds : app[t].copy \in Record /\ app[t].decision \in Decisions
         /\ Runs \subseteq Callers
BY TypeParts DEF TypeInv, CallType, SubCall, CanCall, AppCall, StoreType, store, Callers

LEMMA SubmitTypes ==
  ASSUME TypeInv, NEW r \in Runs, Submit(r)
  PROVE  TypeInv'
<1> USE CallFacts
<1>1. {"new", "create", "persist", "record", "list", "interrupt", "enqueue", "bind", "decide",
       "head", "send", "done"} \subseteq SubmitPc /\ {"ticket", "write"} \subseteq CancelPc
  BY DEF SubmitPc, CancelPc
<1>2. \A pc \in SubmitPc : SubGoto(r, pc) => sub' \in [Runs -> SubCall]
  BY Zenon, NewRecords, SubTypes
<1>3. \A rec \in Record : run' = [run EXCEPT ![r] = rec] => run' \in [Runs -> Record]
  OBVIOUS
<1>4. CASE FollowUp(r)
  <2>1. can' \in [Callers -> CanCall]
    <3>1. PICK x \in Runs : can' = [can EXCEPT ![r] = [pc |-> "write", run |-> x, copy |-> run[x]]]
      BY Zenon, <1>4 DEF FollowUp
    <3> QED BY Zenon, <1>1, <3>1, CanTypes
  <2> QED BY Zenon, <1>1, <1>2, <1>4, <2>1, CallStep DEF FollowUp, Others
<1>5. CASE Create(r)
  <2>1. sub' \in [Runs -> SubCall]
    BY Zenon, <1>1, <1>5, NewRecords, SubTypes DEF Create
  <2> QED BY <1>3, <1>5, <2>1, NewRecords, CallStep DEF Create, Others
<1>6. CASE Persist(r)
  <2>1. PICK st \in {"queued", "waiting_input"} :
           LET rec == Transition(sub[r].copy, st, 0, 0) IN
           /\ run' = [run EXCEPT ![r] = rec]
           /\ sub' = [sub EXCEPT ![r].copy = rec, ![r].pc = "record"]
    BY Zenon, <1>6 DEF Persist
  <2> DEFINE rec == Transition(sub[r].copy, st, 0, 0)
  <2>2. rec \in Record
    <3>1. st \in Status
      BY Zenon DEF Status
    <3> QED BY Zenon, <3>1, ZeroBounds, RecordOps
  <2>3. run' = [run EXCEPT ![r] = rec] /\ sub' = [sub EXCEPT ![r].copy = rec, ![r].pc = "record"]
    BY <2>1
  <2> HIDE DEF rec
  <2>4. sub' \in [Runs -> SubCall] /\ run' \in [Runs -> Record]
    BY Zenon, <1>1, <1>3, <2>2, <2>3, SubTypes
  <2> QED BY <1>6, <2>4, CallStep DEF Persist, Others
<1>7. CASE RecordSession(r)
  <2>1. sub' \in [Runs -> SubCall] /\ run' \in [Runs -> Record]
    BY Zenon, <1>1, <1>2, <1>3, <1>7 DEF RecordSession
  <2> QED BY Zenon, <1>7, <2>1, CallStep DEF RecordSession, Others
<1>8. CASE ListRuns(r)
  <2>1. sub' \in [Runs -> SubCall]
    <3> DEFINE live == {x \in Runs \ {r} : Live(x)}
    <3>1. live \in SUBSET Runs /\ sub' = [sub EXCEPT ![r].todo = live, ![r].pc = "interrupt"]
      BY <1>8 DEF ListRuns
    <3> HIDE DEF live
    <3> QED BY Zenon, <1>1, <3>1, NewRecords, SubTypes
  <2> QED BY <1>8, <2>1, CallStep DEF ListRuns, Others
<1>9. CASE Interrupt(r)
  <2>1. sub' \in [Runs -> SubCall] /\ can' \in [Callers -> CanCall]
    <3>1. CASE SubGoto(r, "enqueue") /\ UNCHANGED can
      BY Zenon, <1>1, <1>2, <3>1
    <3>2. ASSUME NEW x \in sub[r].todo, sub' = [sub EXCEPT ![r].todo = @ \ {x}],
                 can' = [can EXCEPT ![r] = [pc |-> "ticket", run |-> x, copy |-> run[x]]]
          PROVE  sub' \in [Runs -> SubCall] /\ can' \in [Callers -> CanCall]
      <4> DEFINE rest == sub[r].todo \ {x}
      <4>1. rest \in SUBSET Runs /\ sub' = [sub EXCEPT ![r].todo = rest] /\ x \in Runs
        BY <3>2
      <4> HIDE DEF rest
      <4>2. sub' \in [Runs -> SubCall]
        BY Zenon, <1>1, <4>1, NewRecords, SubTypes
      <4> QED BY Zenon, <1>1, <3>2, <4>1, <4>2, CanTypes
    <3>3. CASE sub' = [sub EXCEPT ![r].todo = {}, ![r].pc = "done"] /\ UNCHANGED can
      BY Zenon, <1>1, <3>3, NewRecords, SubTypes
    <3> QED BY Zenon, <1>9, <3>1, <3>2, <3>3 DEF Interrupt
  <2> QED BY <1>9, <2>1, CallStep DEF Interrupt, Others
<1>10. CASE Enqueue(r)
  <2>1. sub' \in [Runs -> SubCall] /\ queue' \in QueueType
    BY Zenon, <1>1, <1>2, <1>10, QueueOps DEF Enqueue
  <2> QED BY Zenon, <1>10, <2>1, CallStep DEF Enqueue, Others
<1>11. CASE Bind(r)
  <2>1. sub' \in [Runs -> SubCall] /\ run' \in [Runs -> Record]
    BY Zenon, <1>1, <1>2, <1>3, <1>11 DEF Bind
  <2> QED BY Zenon, <1>11, <2>1, CallStep DEF Bind, Others
<1>12. CASE Decide(r) \/ CheckHead(r)
  <2>1. sub' \in [Runs -> SubCall]
    BY Zenon, <1>1, <1>2, <1>12 DEF Decide, CheckHead
  <2> QED BY Zenon, <1>12, <2>1, CallStep DEF Decide, CheckHead, Others
<1>13. CASE Send(r)
  <2>1. sub' \in [Runs -> SubCall]
    BY Zenon, <1>1, <1>2, <1>13 DEF Send
  <2>2. Stays(Off)
    BY Zenon, <1>13, DispatchStays DEF Send
  <2> QED BY Zenon, <1>13, <2>1, <2>2, CallStep DEF Send, Others
<1> QED BY Zenon, <1>4, <1>5, <1>6, <1>7, <1>8, <1>9, <1>10, <1>11, <1>12, <1>13 DEF Submit

LEMMA CancelTypes ==
  ASSUME TypeInv, NEW c \in Callers, Cancel(c)
  PROVE  TypeInv'
<1> USE CallFacts
<1>1. {"write", "context", "finish"} \subseteq CancelPc /\ "cancelled" \in Decisions /\ "cancelled" \in Status
  BY DEF CancelPc, Decisions, Status
<1>2. \A pc \in CancelPc : can' = [can EXCEPT ![c].pc = pc] => can' \in [Callers -> CanCall]
  BY DEF CanCall
<1>3. 0 \in 0 .. MaxTickets /\ 0 \in 0 .. MaxRounds
  BY BoundAssumption
<1>4. CASE CancelTicket(c)
  <2>1. StoreType'
    <3>1. can[c].copy.approval \in 0 .. MaxTickets
      BY RecordFacts
    <3>2. tickets' = Resolved(can[c].copy.approval, "cancelled") /\ UNCHANGED <<byRun, issued>>
      BY <1>4 DEF CancelTicket
    <3>3. PICK t \in 0 .. MaxTickets : t = can[c].copy.approval
      BY <3>1
    <3>4. CASE Runs = {}
      BY <1>1, <3>1, <3>2, <3>4 DEF Resolved, StoreType, TicketIds, TicketStatus
    <3>5. CASE Runs # {}
      BY <1>1, <1>3, <3>2, <3>3, <3>5, TicketTypes
    <3> QED BY <3>4, <3>5
  <2> QED BY Zenon, <1>1, <1>2, <1>4, <2>1, CallStep DEF CancelTicket, Others
<1>5. CASE CancelWrite(c)
  <2>1. Finalized(can[c].copy, "cancelled") \in Record
    BY Zenon, <1>1, <1>3, RecordOps
  <2>2. run' \in [Runs -> Record]
    BY Zenon, <1>5, <2>1 DEF CancelWrite
  <2> QED BY Zenon, <1>1, <1>2, <1>5, <2>2, CallStep DEF CancelWrite, Others
<1>6. CASE CancelContext(c)
  <2>1. can' \in [Callers -> CanCall]
    BY Zenon, <1>1, <1>2, <1>6 DEF CancelContext
  <2>2. CallType'
    BY <1>6, <2>1 DEF CancelContext, CallType, SubCall, CanCall, AppCall, Others
  <2>3. StoreType' /\ queue' \in QueueType
    BY <1>6 DEF CancelContext
  <2>4. w' \in [Runs -> Worker] /\ RoundsLeft' /\ cancels' \subseteq Runs /\ ctxDone' \subseteq Runs
    BY <1>6 DEF CancelContext, TypeInv, TypeOK, RoundsLeft
  <2> QED BY <1>6, <2>2, <2>3, <2>4, TypeStep DEF CancelContext
<1>7. CASE CancelFinish(c)
  <2>1. queue' \in QueueType /\ can' \in [Callers -> CanCall]
    BY <1>7, FinishType, IdleCalls DEF CancelFinish
  <2> QED BY <1>7, <2>1, CallStep DEF CancelFinish, Others
<1> QED BY Zenon, <1>4, <1>5, <1>6, <1>7 DEF Cancel

\* A ticket that exists belongs to a run; ids are handed out in order; only a ticket
\* that exists is being decided.
TicketInv ==
  /\ \A t \in TicketIds : tickets[t].status # "none" => tickets[t].run \in Runs
  /\ \A t \in TicketIds : t > issued => tickets[t] = NoTicket
  /\ \A t \in TicketIds : app[t].pc # "idle" => tickets[t].run \in Runs

LEMMA ApproveTypes ==
  ASSUME TypeInv, TicketInv, NEW t \in TicketIds, \/ Approve(t)
                                                  \/ \E d \in Decisions : ApprovalGet(t, d)
  PROVE  TypeInv'
<1> USE CallFacts
<1>1. {"idle", "resolve", "reget", "write", "check", "slot"} \subseteq ApproverPc
      /\ {"cancelled", "queued"} \subseteq Status /\ "cancelled" \in Decisions
  BY DEF ApproverPc, Status, Decisions
<1>2. \A pc \in ApproverPc : AppGoto(t, pc) => app' \in [TicketIds -> AppCall]
  BY Zenon, NewRecords, AppTypes
<1>3. t \in 0 .. MaxTickets /\ tickets[t].run \in Runs \cup {NoRun} /\ tickets \in [TicketIds -> [run : Runs \cup {NoRun}, batch : 0 .. MaxRounds, status : TicketStatus]]
  BY StoreFacts, BoundAssumption DEF TicketIds, StoreType
<1>4. \A st \in Decisions : tickets' = Resolved(t, st) /\ UNCHANGED <<byRun, issued>> => StoreType'
  BY <1>3 DEF Resolved, StoreType, TicketStatus
<1>5. ASSUME NEW d \in Decisions, ApprovalGet(t, d)
      PROVE  TypeInv'
  <2>1. StoreType'
    BY <1>1, <1>4, <1>5 DEF ApprovalGet, StoreType
  <2>2. app' \in [TicketIds -> AppCall]
    BY Zenon, <1>1, <1>5, NewRecords, AppTypes DEF ApprovalGet
  <2> QED BY <1>5, <2>1, <2>2, CallStep DEF ApprovalGet
<1>6. CASE ApprovalResolve(t)
  <2>1. StoreType' /\ app' \in [TicketIds -> AppCall]
    BY Zenon, <1>1, <1>2, <1>4, <1>6 DEF ApprovalResolve
  <2> QED BY Zenon, <1>6, <2>1, CallStep DEF ApprovalResolve
<1>7. CASE ApprovalReget(t)
  <2>1. tickets[t].run \in Runs
    BY <1>7 DEF ApprovalReget, Approving, TicketInv
  <2>2. app' \in [TicketIds -> AppCall]
    BY Zenon, <1>1, <1>7, <2>1, AppTypes DEF ApprovalReget
  <2> QED BY <1>7, <2>2, CallStep DEF ApprovalReget
<1>8. CASE ApprovalWrite(t)
  <2> DEFINE c == app[t].copy
  <2>1. c \in Record /\ c.approval \in 0 .. MaxTickets /\ c.pending \in 0 .. MaxRounds
    BY RecordFacts
  <2>2. Transition(c, "queued", c.approval, c.pending) \in Record /\ Finalized(c, "cancelled") \in Record
    BY Zenon, <1>1, <2>1, RecordOps
  <2>3. run' \in [Runs -> Record]
    BY Zenon, <1>8, <2>2 DEF ApprovalWrite
  <2>4. app' \in [TicketIds -> AppCall]
    <3>1. CASE app' = [app EXCEPT ![t] = IdleApprover]
      BY <3>1, IdleCalls
    <3>2. CASE app' = [app EXCEPT ![t] = [@ EXCEPT !.copy = Absent, !.pc = "check"]]
      BY Zenon, <1>1, <3>2, NewRecords, AppTypes
    <3> QED BY Zenon, <1>8, <3>1, <3>2 DEF ApprovalWrite
  <2> QED BY <1>8, <2>3, <2>4, CallStep DEF ApprovalWrite
<1>9. CASE ApprovalCheck(t)
  <2>1. app' \in [TicketIds -> AppCall]
    BY Zenon, <1>1, <1>2, <1>9 DEF ApprovalCheck
  <2> QED BY Zenon, <1>9, <2>1, CallStep DEF ApprovalCheck
<1>10. CASE ApprovalDispatch(t)
  <2>1. app' \in [TicketIds -> AppCall]
    BY Zenon, <1>1, <1>2, <1>10 DEF ApprovalDispatch
  <2>2. Stays(Off)
    BY Zenon, <1>3, <1>10, DispatchStays DEF ApprovalDispatch
  <2> QED BY Zenon, <1>10, <2>1, <2>2, CallStep DEF ApprovalDispatch
<1> QED BY <1>5, <1>6, <1>7, <1>8, <1>9, <1>10 DEF Approve

LEMMA OperatorTypes ==
  ASSUME TypeInv, NEW r \in Runs, OperatorCancel(r) \/ OperatorResume(r) \/ ResumeDispatch(r)
  PROVE  TypeInv'
<1> USE CallFacts
<1>1. "ticket" \in CancelPc /\ Operator \in Callers
  BY DEF CancelPc, Callers
<1>2. CASE OperatorCancel(r)
  <2>1. can' \in [Callers -> CanCall]
    BY Zenon, <1>1, <1>2, CanTypes DEF OperatorCancel
  <2>2. used' \in [cancels : 0 .. MaxCancels, resumes : 0 .. MaxResumes, restarts : 0 .. MaxRestarts]
    BY <1>2, BoundAssumption DEF OperatorCancel
  <2> QED BY <1>2, <2>1, <2>2, CallStep DEF OperatorCancel
<1>3. CASE OperatorResume(r)
  <2>1. used' \in [cancels : 0 .. MaxCancels, resumes : 0 .. MaxResumes, restarts : 0 .. MaxRestarts]
    BY <1>3, BoundAssumption DEF OperatorResume
  <2> QED BY <1>3, <2>1, CallStep DEF OperatorResume
<1>4. CASE ResumeDispatch(r)
  <2>1. Stays(Off)
    BY Zenon, <1>4, DispatchStays DEF ResumeDispatch
  <2> QED BY Zenon, <1>4, <2>1, CallStep DEF ResumeDispatch
<1> QED BY <1>2, <1>3, <1>4

LEMMA EmptyType == EmptyQueue \in QueueType
BY DEF EmptyQueue, QueueType

LEMMA RestartTypes ==
  ASSUME TypeInv, Restart
  PROVE  TypeInv'
<1> USE CallFacts
<1>1. run' \in [Runs -> Record]
  <2>1. 0 \in 0 .. MaxTickets /\ 0 \in 0 .. MaxRounds /\ "failed" \in Status
    BY BoundAssumption DEF Status
  <2>2. \A r \in Runs : [run[r] EXCEPT !.status = "failed", !.approval = 0, !.pending = 0] \in Record
    BY Zenon, <2>1, RecordOps
  <2> QED BY Zenon, <2>2 DEF Restart
<1>2. StoreType'
  <2> DEFINE Ticket == [run : Runs \cup {NoRun}, batch : 0 .. MaxRounds, status : TicketStatus]
  <2>1. \A t \in TicketIds : tickets[t] \in Ticket /\ [tickets[t] EXCEPT !.status = "cancelled"] \in Ticket
    BY DEF StoreType, TicketStatus, Decisions
  <2> HIDE DEF Ticket
  <2>2. tickets' \in [TicketIds -> Ticket]
    BY Zenon, <2>1 DEF Restart
  <2> QED BY Zenon, <2>2 DEF StoreType, Restart, Ticket
<1>3. w' \in [Runs -> Worker] /\ RoundsLeft'
  <2>1. \A r \in Runs : /\ [IdleWorker EXCEPT !.rounds = w[r].rounds] \in Worker
                        /\ [IdleWorker EXCEPT !.rounds = w[r].rounds].pc = "idle"
    BY Zenon, IdleType DEF Worker, TypeOK
  <2> QED BY Zenon, <2>1 DEF Restart, RoundsLeft
<1>4. sub' \in [Runs -> SubCall]
  <2>1. \A pc \in {"new", "done"} : [pc |-> pc, copy |-> Absent, todo |-> {}] \in SubCall
    BY NewRecords DEF SubCall, SubmitPc
  <2> QED BY Zenon, <2>1 DEF Restart
<1>5. can' \in [Callers -> CanCall] /\ app' \in [TicketIds -> AppCall] /\ res' \subseteq Runs
  BY Zenon, IdleCalls DEF Restart
<1>6. used' \in [cancels : 0 .. MaxCancels, resumes : 0 .. MaxResumes, restarts : 0 .. MaxRestarts]
  <2>1. used.restarts < MaxRestarts /\ used' = [used EXCEPT !.restarts = @ + 1]
    BY Zenon DEF Restart
  <2>2. used.restarts + 1 \in 0 .. MaxRestarts
    BY <2>1, BoundAssumption
  <2> QED BY <2>1, <2>2
<1>7. CallType'
  BY <1>4, <1>5, <1>6 DEF CallType, SubCall, CanCall, AppCall
<1>8. queue' \in QueueType /\ cancels' \subseteq Runs /\ ctxDone' \subseteq Runs
  BY Zenon, EmptyType DEF Restart
<1> QED BY <1>1, <1>2, <1>3, <1>7, <1>8, TypeStep

-----------------------------------------------------------------------------
(* What can happen to the approval store in one step. *)

LEMMA StoreChanges ==
  ASSUME TypeInv, Next
  PROVE  \/ UNCHANGED store
         \/ \E r \in Runs, b \in 0 .. MaxRounds : CreateTicket(r, b)
         \/ \E t \in 0 .. MaxTickets, st \in Decisions :
              tickets' = Resolved(t, st) /\ UNCHANGED <<byRun, issued>>
         \/ Restart
<1> USE CallFacts
<1>1. ASSUME NEW r \in Runs, Work(r)
      PROVE  UNCHANGED store \/ \E b \in 0 .. MaxRounds : CreateTicket(r, b)
  <2>1. CASE Inner(r)
    <3>1. CASE ResumeTools(r)
      <4>1. w[r].copy.pending \in 0 .. MaxRounds
        BY Zenon, WorkerFacts, RecordFacts DEF TypeOK
      <4> QED BY Zenon, <3>1, <4>1 DEF ResumeTools, AskApproval
    <3>2. CASE Evaluate(r)
      <4>1. w[r].batch \in 0 .. MaxRounds
        BY Zenon, WorkerFacts DEF TypeOK
      <4> QED BY Zenon, <3>2, <4>1 DEF Evaluate, AskApproval
    <3> QED BY Zenon, <2>1, <3>1, <3>2 DEF Inner, Claim, Announce, Lock, Enter, Loop, Final, LastText, Prepare,
              Seeded, Plan, Model, Answer, Park, Batch, Exec, Tools, Commit, Results, Refresh, Finalize, Silent
  <2>2. CASE Hold(r)
    <3>1. 0 \in 0 .. MaxRounds
      BY BoundAssumption
    <3> QED BY <2>2, <3>1 DEF Hold
  <2> QED BY Zenon, <1>1, <2>1, <2>2 DEF Work, Inner, Gate, Held, HoldFails, Begin, Runnable, CheckTicket,
            Register, Take, Unclaim, Unwind, Leave, BgGet, BgWrite, BgFinish, NextRun, Forward, Handoff, End, Silent
<1>2. ASSUME NEW r \in Runs, Submit(r) \/ OperatorCancel(r) \/ OperatorResume(r) \/ ResumeDispatch(r)
      PROVE  UNCHANGED store
  BY Zenon, <1>2 DEF Submit, FollowUp, Create, Persist, RecordSession, ListRuns, Interrupt, Enqueue, Bind,
              Decide, CheckHead, Send, OperatorCancel, OperatorResume, ResumeDispatch
<1>3. ASSUME NEW c \in Callers, Cancel(c)
      PROVE  \/ UNCHANGED store
             \/ \E t \in 0 .. MaxTickets, st \in Decisions :
                  tickets' = Resolved(t, st) /\ UNCHANGED <<byRun, issued>>
  <2>1. can[c].copy.approval \in 0 .. MaxTickets /\ "cancelled" \in Decisions
    BY RecordFacts DEF Decisions
  <2> QED BY <1>3, <2>1 DEF Cancel, CancelTicket, CancelWrite, CancelContext, CancelFinish
<1>4. ASSUME NEW t \in TicketIds, \/ Approve(t)
                                  \/ \E d \in Decisions : ApprovalGet(t, d)
      PROVE  \/ UNCHANGED store
             \/ \E st \in Decisions : tickets' = Resolved(t, st) /\ UNCHANGED <<byRun, issued>>
  <2>1. "cancelled" \in Decisions /\ app[t].decision \in Decisions
    BY DEF Decisions
  <2> QED BY Zenon, <1>4, <2>1 DEF Approve, ApprovalGet, ApprovalResolve, ApprovalReget, ApprovalWrite,
                            ApprovalCheck, ApprovalDispatch, store
<1>5. TicketIds \subseteq 0 .. MaxTickets
  BY BoundAssumption DEF TicketIds
<1> QED BY Zenon, <1>1, <1>2, <1>3, <1>4, <1>5 DEF Next

LEMMA TicketInvStep ==
  ASSUME TypeInv, TicketInv, Next
  PROVE  TicketInv'
<1> USE CallFacts
<1>1. /\ tickets \in [TicketIds -> [run : Runs \cup {NoRun}, batch : 0 .. MaxRounds, status : TicketStatus]]
      /\ issued \in 0 .. MaxTickets /\ MaxTickets \in Nat
  BY Zenon, BoundAssumption DEF StoreType
<1>2. /\ \A t \in TicketIds : tickets'[t].status # "none" => tickets'[t].run \in Runs
      /\ \A t \in TicketIds : t > issued' => tickets'[t] = NoTicket
      /\ \A t \in TicketIds : tickets[t].run \in Runs => tickets'[t].run \in Runs
  <2>1. CASE UNCHANGED store
    BY Zenon, <2>1 DEF TicketInv, store
  <2>2. ASSUME NEW r \in Runs, NEW b \in 0 .. MaxRounds, CreateTicket(r, b), ~ UNCHANGED store
        PROVE  <1>2!:
    <3> DEFINE new == [run |-> r, batch |-> b, status |-> "pending"]
    <3>1. /\ issued' = issued + 1
          /\ tickets' = [tickets EXCEPT ![issued + 1] = new]
      BY Zenon, <2>2 DEF CreateTicket
    <3>2. new.run \in Runs
      BY Zenon
    <3> HIDE DEF new
    <3>3. \A t \in TicketIds : tickets'[t] = IF t = issued + 1 THEN new ELSE tickets[t]
      BY <1>1, <3>1 DEF TicketIds
    <3>4. \A t \in TicketIds : t > issued' => t > issued /\ t # issued + 1
      BY <1>1, <3>1 DEF TicketIds
    <3> QED BY Zenon, <3>1, <3>2, <3>3, <3>4 DEF TicketInv
  <2>3. ASSUME NEW t \in 0 .. MaxTickets, NEW st \in Decisions,
               tickets' = Resolved(t, st) /\ UNCHANGED <<byRun, issued>>
        PROVE  <1>2!:
    BY <1>1, <2>3 DEF TicketInv, Resolved, TicketIds, NoTicket
  <2>4. CASE Restart
    <3>1. issued' = issued /\ \A t \in TicketIds :
            tickets'[t] = tickets[t] \/ (tickets[t].status = "pending" /\ tickets'[t].run = tickets[t].run)
      BY Zenon, <1>1, <2>4 DEF Restart
    <3>2. ASSUME NEW t \in TicketIds, t > issued'
          PROVE  tickets'[t] = NoTicket
      <4>1. tickets[t] = NoTicket
        BY Zenon, <3>1, <3>2 DEF TicketInv
      <4>2. NoTicket.status # "pending"
        BY DEF NoTicket
      <4> QED BY Zenon, <3>1, <4>1, <4>2
    <3>3. ASSUME NEW t \in TicketIds, tickets'[t].status # "none"
          PROVE  tickets'[t].run \in Runs
      <4>1. tickets[t].status # "none" => tickets[t].run \in Runs
        BY Zenon DEF TicketInv
      <4> QED BY <3>1, <3>3, <4>1
    <3>4. \A t \in TicketIds : tickets[t].run \in Runs => tickets'[t].run \in Runs
      BY <3>1
    <3> QED BY <3>2, <3>3, <3>4
  <2> QED BY Zenon, <2>1, <2>2, <2>3, <2>4, StoreChanges
<1>3. \A t \in TicketIds : app'[t].pc # "idle" => app[t].pc # "idle" \/ tickets[t].status = "pending"
  <2>1. CASE UNCHANGED app
    BY <2>1
  <2>2. ASSUME NEW t \in TicketIds, Approve(t)
        PROVE  app[t].pc # "idle" /\ \A x \in TicketIds \ {t} : app'[x] = app[x]
    BY Zenon, <2>2 DEF Approve, ApprovalResolve, ApprovalReget, ApprovalWrite, ApprovalCheck, ApprovalDispatch,
                Approving, AppGoto
  <2>3. ASSUME NEW t \in TicketIds, NEW d \in Decisions, ApprovalGet(t, d)
        PROVE  tickets[t].status = "pending" /\ \A x \in TicketIds \ {t} : app'[x] = app[x]
    BY <2>3 DEF ApprovalGet
  <2>4. CASE Restart
    BY Zenon, <2>4 DEF Restart, IdleApprover
  <2>5. ASSUME NEW r \in Runs, Work(r)
        PROVE  UNCHANGED app
    <3>1. CASE Inner(r)
      BY Zenon, <3>1, InnerStays DEF Outside
    <3>2. CASE Outer(r)
      BY Zenon, <3>2, OuterStays DEF Outside
    <3> QED BY <2>5, <3>1, <3>2 DEF Work, Inner, Outer, Register, Take, Unclaim, Unwind, Leave, BgFinish, Outside
  <2>6. ASSUME NEW r \in Runs, Submit(r) \/ OperatorCancel(r) \/ OperatorResume(r) \/ ResumeDispatch(r)
        PROVE  UNCHANGED app
    BY Zenon, <2>6 DEF Submit, FollowUp, Create, Persist, RecordSession, ListRuns, Interrupt, Enqueue, Bind,
                Decide, CheckHead, Send, OperatorCancel, OperatorResume, ResumeDispatch, Others
  <2>7. ASSUME NEW c \in Callers, Cancel(c)
        PROVE  UNCHANGED app
    BY <2>7 DEF Cancel, CancelTicket, CancelWrite, CancelContext, CancelFinish, Others
  <2> QED BY Zenon, <2>1, <2>2, <2>3, <2>4, <2>5, <2>6, <2>7 DEF Next
<1> QED BY Zenon, <1>2, <1>3 DEF TicketInv

-----------------------------------------------------------------------------
(* Type correctness. *)

TypeIInv == TypeInv /\ TicketInv

LEMMA InitTypes == Init => TypeIInv
<1> SUFFICES ASSUME Init  PROVE TypeIInv
  OBVIOUS
<1>1. run \in [Runs -> Record] /\ queue \in QueueType
  BY NewRecords, EmptyType DEF Init
<1>2. 0 \in 0 .. MaxTickets /\ 0 \in 0 .. MaxRounds /\ 0 \in 0 .. MaxCancels /\ 0 \in 0 .. MaxResumes
      /\ 0 \in 0 .. MaxRestarts
  BY BoundAssumption
<1>3. NoTicket \in [run : Runs \cup {NoRun}, batch : 0 .. MaxRounds, status : TicketStatus]
      /\ NoTicket.status = "none"
  BY <1>2 DEF NoTicket, TicketStatus
<1>4. StoreType
  BY <1>2, <1>3 DEF Init, StoreType
<1>5. w \in [Runs -> Worker] /\ RoundsLeft
  BY IdleType DEF Init, RoundsLeft
<1>6. sub \in [Runs -> SubCall]
  <2>1. [pc |-> "new", copy |-> Absent, todo |-> {}] \in SubCall
    BY NewRecords DEF SubCall, SubmitPc
  <2> QED BY Zenon, <2>1 DEF Init
<1>7. CallType
  BY Zenon, <1>2, <1>6, IdleCalls DEF Init, CallType, SubCall, CanCall, AppCall
<1>8. TypeOK
  BY <1>1, <1>4, <1>5, <1>7, TypeParts DEF Init
<1>9. TicketInv
  BY Zenon, <1>3 DEF Init, TicketInv, IdleApprover
<1> QED BY <1>5, <1>8, <1>9 DEF TypeIInv, TypeInv

LEMMA NextTypes == TypeIInv /\ [Next]_vars => TypeIInv'
<1> SUFFICES ASSUME TypeIInv, [Next]_vars  PROVE TypeIInv'
  OBVIOUS
<1>1. CASE UNCHANGED vars
  BY Zenon, <1>1 DEF TypeIInv, TypeInv, TypeOK, RoundsLeft, TicketInv, vars, store
<1>2. CASE Next
  BY <1>2, WorkTypes, SubmitTypes, CancelTypes, ApproveTypes, OperatorTypes, RestartTypes, TicketInvStep
     DEF TypeIInv, Next
<1> QED BY <1>1, <1>2

\* Every reachable state is well typed: records, queue, tickets and the local state of
\* every goroutine and call, the round counter within its budget included.
THEOREM TypeCorrect == Spec => []TypeOK
<1>1. TypeIInv => TypeOK
  BY DEF TypeIInv, TypeInv
<1> QED BY <1>1, InitTypes, NextTypes, PTL DEF Spec

-----------------------------------------------------------------------------
(* The session's slot and the cancel registry. *)

\* What one step does to the goroutines' places, the queue and the cancel registry.
LEMMA Classes ==
  ASSUME TypeInv, TicketInv, Next
  PROVE  \/ Stays(InSlot) /\ UNCHANGED <<queue, cancels, ctxDone>>
         \/ /\ Stays(Off) /\ UNCHANGED <<cancels, ctxDone>>
            /\ \/ UNCHANGED queue
               \/ \E x : queue' = FinishRun(queue, x)
               \/ \E x \in Runs : Enqueue(x)
         \/ \E r \in Runs : Register(r) \/ Take(r) \/ Unclaim(r) \/ Unwind(r) \/ Leave(r)
         \/ \E c \in Callers : CancelContext(c)
         \/ Restart
<1>1. UNCHANGED w => Stays(Off)
  BY DEF TypeInv, TypeOK, Stays, RoundsLeft
<1>2. ASSUME NEW r \in Runs, Work(r)
      PROVE  \/ Stays(InSlot) /\ UNCHANGED <<queue, cancels, ctxDone>>
             \/ /\ Stays(Off) /\ UNCHANGED <<cancels, ctxDone>>
                /\ \/ UNCHANGED queue
                   \/ \E x : queue' = FinishRun(queue, x)
             \/ Register(r) \/ Take(r) \/ Unclaim(r) \/ Unwind(r) \/ Leave(r)
  <2>1. CASE Inner(r)
    BY <2>1, InnerStays
  <2>2. CASE Outer(r)
    BY <2>2, OuterStays
  <2>3. CASE BgFinish(r)
    <3>1. Moves(r, {"next"}) /\ {"next", "bgFinish"} \subseteq Off
      BY <2>3, EdgeMoves, PcFacts DEF TypeInv, Off
    <3>2. Stays(Off)
      BY Zenon, <2>3, <3>1, MovesStay DEF BgFinish, At
    <3> QED BY <2>3, <3>2 DEF BgFinish
  <2> QED BY Zenon, <1>2, <2>1, <2>2, <2>3 DEF Work, Inner, Outer
<1>3. ASSUME NEW r \in Runs, Submit(r)
      PROVE  /\ Stays(Off) /\ UNCHANGED <<cancels, ctxDone>>
             /\ UNCHANGED queue \/ Enqueue(r)
  <2>1. CASE Send(r)
    BY Zenon, <2>1, DispatchStays DEF Send
  <2> QED BY <1>1, <1>3, <2>1 DEF Submit, FollowUp, Create, Persist, RecordSession, ListRuns, Interrupt,
                                  Enqueue, Bind, Decide, CheckHead
<1>4. ASSUME NEW r \in Runs, OperatorCancel(r) \/ OperatorResume(r) \/ ResumeDispatch(r)
      PROVE  Stays(Off) /\ UNCHANGED <<queue, cancels, ctxDone>>
  <2>1. CASE ResumeDispatch(r)
    BY Zenon, <2>1, DispatchStays DEF ResumeDispatch
  <2> QED BY <1>1, <1>4, <2>1 DEF OperatorCancel, OperatorResume
<1>5. ASSUME NEW c \in Callers, Cancel(c), ~CancelContext(c)
      PROVE  /\ Stays(Off) /\ UNCHANGED <<cancels, ctxDone>>
             /\ \/ UNCHANGED queue
                \/ \E x : queue' = FinishRun(queue, x)
  BY <1>1, <1>5 DEF Cancel, CancelTicket, CancelWrite, CancelFinish
<1>6. ASSUME NEW t \in TicketIds, \/ Approve(t)
                                  \/ \E d \in Decisions : ApprovalGet(t, d)
      PROVE  Stays(Off) /\ UNCHANGED <<queue, cancels, ctxDone>>
  <2>1. CASE ApprovalDispatch(t)
    <3>1. tickets[t].run \in Runs \cup {NoRun}
      BY StoreFacts DEF TypeInv
    <3> QED BY Zenon, <2>1, <3>1, DispatchStays DEF ApprovalDispatch
  <2> QED BY Zenon, <1>1, <1>6, <2>1 DEF Approve, ApprovalGet, ApprovalResolve, ApprovalReget, ApprovalWrite, ApprovalCheck
<1> QED BY Zenon, <1>2, <1>3, <1>4, <1>5, <1>6 DEF Next

LEMMA SlotStep ==
  ASSUME TypeInv, TicketInv, SlotOwned, Next
  PROVE  SlotOwned'
<1>1. w \in [Runs -> Worker] /\ queue \in QueueType /\ TypeOK /\ NoRun \notin Runs
  BY TypeParts, RunsAssumption DEF TypeInv
<1>2. InSlot \cap Off = {}
  BY PcFacts DEF Off
<1>3. CASE Stays(InSlot) /\ UNCHANGED queue
  BY <1>3 DEF SlotOwned, Stays
<1>4. CASE Stays(Off) /\ queue'.active \in {queue.active, NoRun}
  BY <1>1, <1>2, <1>4 DEF SlotOwned, Stays
<1>5. ASSUME NEW x, queue' = FinishRun(queue, x)
      PROVE  queue'.active \in {queue.active, NoRun}
  BY <1>5 DEF FinishRun
<1>6. ASSUME NEW x \in Runs, Enqueue(x)
      PROVE  queue'.active \in {queue.active, NoRun}
  BY <1>1, <1>6 DEF Enqueue, EnqueueSessionRun, QueueType
<1>7. ASSUME NEW r \in Runs, Register(r) \/ Take(r) \/ Unclaim(r) \/ Unwind(r) \/ Leave(r)
      PROVE  SlotOwned'
  <2>1. CASE Register(r) \/ Leave(r)
    <3>1. Steps(r) /\ UNCHANGED queue /\ w[r].pc \notin InSlot
      BY Zenon, <1>1, <2>1, EdgeMoves, PcFacts DEF Register, Leave, At, Moves
    <3> QED BY <3>1 DEF SlotOwned, Steps
  <2>2. CASE Take(r)
    <3>1. Steps(r) /\ w[r].pc = "take" /\ "claim" \in InSlot /\ "take" \notin InSlot
      BY Zenon, <1>1, <2>2, EdgeMoves, PcFacts DEF Take, At, Moves
    <3>2. CASE CanStart(queue, r)
      <4>1. queue'.active = r
        BY <1>1, <2>2, <3>2 DEF Take, StartRun, CanStart, QueueType
      <4>2. w'[r].pc = "claim"
        BY <1>1, <2>2, <3>2 DEF Take, Goto, Worker
      <4> QED BY <3>1, <4>1, <4>2 DEF SlotOwned
    <3>3. CASE ~CanStart(queue, r)
      <4>1. queue' = queue
        BY <2>2, <3>3 DEF Take
      <4> QED BY <3>1, <4>1 DEF SlotOwned, Steps
    <3> QED BY <3>2, <3>3
  <2>3. CASE Unclaim(r) \/ Unwind(r)
    <3>1. Steps(r) /\ queue' = FinishRun(queue, r)
      BY Zenon, <1>1, <2>3, EdgeMoves DEF Unclaim, Unwind, Moves
    <3>2. queue'.active # r /\ queue'.active \in {queue.active, NoRun}
      BY <1>1, <3>1 DEF FinishRun
    <3> QED BY Zenon, <1>1, <3>1, <3>2 DEF SlotOwned, Steps
  <2> QED BY <1>7, <2>1, <2>2, <2>3
<1>8. ASSUME NEW c \in Callers, CancelContext(c)
      PROVE  SlotOwned'
  BY <1>8 DEF CancelContext, SlotOwned
<1>9. CASE Restart
  BY Zenon, <1>1, <1>9 DEF Restart, SlotOwned, EmptyQueue
<1> QED BY <1>3, <1>4, <1>5, <1>6, <1>7, <1>8, <1>9, Classes

\* A session's slot is always owned by a goroutine that will give it back, for any number
\* of runs, tickets, cancellations and restarts and in every queue mode.
THEOREM SlotIsOwned == Spec => []SlotOwned
<1>1. Init => SlotOwned
  <2>1. Init => queue.active = NoRun
    BY DEF Init, EmptyQueue
  <2> QED BY <2>1, RunsAssumption DEF SlotOwned
<1>2. TypeIInv /\ SlotOwned /\ [Next]_vars => SlotOwned'
  <2>1. TypeIInv /\ SlotOwned /\ Next => SlotOwned'
    BY SlotStep DEF TypeIInv
  <2>2. SlotOwned /\ UNCHANGED vars => SlotOwned'
    BY DEF SlotOwned, vars
  <2> QED BY <2>1, <2>2
<1> QED BY <1>1, <1>2, InitTypes, NextTypes, PTL DEF Spec

LEMMA ReachStep ==
  ASSUME TypeInv, TicketInv, CancelReachable, Next
  PROVE  CancelReachable'
<1> DEFINE Reg == {r \in Runs : w[r].pc \in Registered}
           RegNext == {r \in Runs : w'[r].pc \in Registered}
<1>1. w \in [Runs -> Worker] /\ TypeOK
  BY Zenon DEF TypeInv, TypeOK
<1>2. InSlot \subseteq Registered /\ Off \cap Registered = {}
  BY PcFacts DEF Off
<1>3. cancels \cup ctxDone = Reg /\ cancels \cap ctxDone = {}
  BY DEF CancelReachable
<1>4. ASSUME Stays(InSlot) \/ Stays(Off), UNCHANGED <<cancels, ctxDone>>
      PROVE  CancelReachable'
  <2>1. \A x \in Runs : w'[x].pc \in Registered <=> w[x].pc \in Registered
    BY <1>2, <1>4 DEF Stays
  <2> QED BY <1>3, <1>4, <2>1 DEF CancelReachable
<1>5. ASSUME NEW r \in Runs, Take(r) \/ Unclaim(r) \/ Unwind(r)
      PROVE  CancelReachable'
  <2>1. Steps(r) /\ w[r].pc \in Registered /\ w'[r].pc \in Registered
    BY Zenon, <1>1, <1>5, EdgeMoves, PcFacts DEF Take, Unclaim, Unwind, At, Moves
  <2>2. \A x \in Runs : w'[x].pc \in Registered <=> w[x].pc \in Registered
    BY <2>1 DEF Steps
  <2>3. UNCHANGED <<cancels, ctxDone>>
    BY <1>5 DEF Take, Unclaim, Unwind
  <2> QED BY <1>3, <2>2, <2>3 DEF CancelReachable
<1>6. ASSUME NEW r \in Runs, Register(r)
      PROVE  CancelReachable'
  <2>1. Steps(r) /\ w[r].pc \notin Registered /\ w'[r].pc \in Registered
    BY Zenon, <1>1, <1>6, EdgeMoves, PcFacts DEF Register, At, Moves
  <2>2. RegNext = Reg \cup {r} /\ r \notin Reg
    BY <2>1 DEF Steps
  <2>3. cancels' = cancels \cup {r} /\ ctxDone' = ctxDone
    BY <1>6 DEF Register
  <2> QED BY Zenon, <1>3, <2>2, <2>3 DEF CancelReachable
<1>7. ASSUME NEW r \in Runs, Leave(r)
      PROVE  CancelReachable'
  <2>1. Steps(r) /\ w'[r].pc \notin Registered
    BY Zenon, <1>1, <1>7, EdgeMoves, PcFacts DEF Leave, Moves
  <2>2. RegNext = Reg \ {r}
    BY <2>1 DEF Steps
  <2>3. cancels' = cancels \ {r} /\ ctxDone' = ctxDone \ {r}
    BY <1>7 DEF Leave
  <2> QED BY Zenon, <1>3, <2>2, <2>3 DEF CancelReachable
<1>8. ASSUME NEW c \in Callers, CancelContext(c)
      PROVE  CancelReachable'
  <2>1. w' = w /\ ctxDone' = ctxDone \cup (cancels \cap {can[c].run}) /\ cancels' = cancels \ {can[c].run}
    BY <1>8 DEF CancelContext
  <2> QED BY <1>3, <2>1 DEF CancelReachable
<1>9. CASE Restart
  <2>1. \A x \in Runs : w'[x].pc = "idle"
    BY Zenon, <1>1, <1>9 DEF Restart, IdleWorker
  <2> QED BY Zenon, <1>9, <2>1, PcFacts DEF Restart, CancelReachable
<1> QED BY <1>4, <1>5, <1>6, <1>7, <1>8, <1>9, Classes

\* The registered cancel functions and the cancelled contexts are exactly those of the
\* executions under way, for any number of runs and of racing CancelRun calls.
THEOREM RegistryIsExact == Spec => []CancelReachable
<1>1. Init => CancelReachable
  <2>1. Init => cancels = {} /\ ctxDone = {}
    BY Zenon DEF Init
  <2>3. Init => w = [r \in Runs |-> IdleWorker]
    BY Zenon DEF Init
  <2>4. IdleWorker.pc = "idle"
    BY DEF IdleWorker
  <2>2. "idle" \notin Registered
    BY PcFacts
  <2> QED BY Zenon, <2>1, <2>2, <2>3, <2>4 DEF CancelReachable
<1>2. TypeIInv /\ CancelReachable /\ [Next]_vars => CancelReachable'
  <2>1. TypeIInv /\ CancelReachable /\ Next => CancelReachable'
    BY ReachStep DEF TypeIInv
  <2>2. CancelReachable /\ UNCHANGED vars => CancelReachable'
    BY DEF CancelReachable, vars
  <2> QED BY <2>1, <2>2
<1> QED BY <1>1, <1>2, InitTypes, NextTypes, PTL DEF Spec

-----------------------------------------------------------------------------
(* Decisions on tickets. *)

LEMMA FinalStep ==
  ASSUME TypeInv, TicketInv, Next, NEW t \in TicketIds, tickets[t].status \in Decisions
  PROVE  tickets'[t] = tickets[t]
<1>1. /\ tickets \in [TicketIds -> [run : Runs \cup {NoRun}, batch : 0 .. MaxRounds, status : TicketStatus]]
      /\ issued \in 0 .. MaxTickets /\ MaxTickets \in Nat
  BY BoundAssumption DEF TypeInv, TypeOK
<1>2. tickets[t].status \notin {"none", "pending"}
  BY DEF Decisions
<1>3. CASE UNCHANGED store
  BY Zenon, <1>3 DEF store
<1>4. ASSUME NEW r \in Runs, NEW b \in 0 .. MaxRounds, CreateTicket(r, b)
      PROVE  tickets'[t] = tickets[t]
  <2>0. NoTicket.status = "none"
    BY DEF NoTicket
  <2>1. ~(t > issued)
    BY Zenon, <1>2, <2>0 DEF TicketInv
  <2>2. t # issued + 1
    BY <1>1, <2>1 DEF TicketIds
  <2> QED BY Zenon, <1>1, <1>4, <2>2 DEF CreateTicket, store
<1>5. ASSUME NEW x \in 0 .. MaxTickets, NEW st \in Decisions, tickets' = Resolved(x, st)
      PROVE  tickets'[t] = tickets[t]
  BY <1>1, <1>2, <1>5 DEF Resolved
<1>6. CASE Restart
  BY Zenon, <1>1, <1>2, <1>6 DEF Restart
<1> QED BY <1>3, <1>4, <1>5, <1>6, StoreChanges

\* A decided ticket never changes again, whoever decides, cancels or restarts.
THEOREM DecisionsAreFinal == Spec => DecisionIsFinal
<1>1. TypeIInv /\ [Next]_vars => [\A t \in TicketIds : tickets[t].status \in Decisions => tickets'[t] = tickets[t]]_vars
  BY Zenon, FinalStep DEF TypeIInv, vars
<1> QED BY <1>1, InitTypes, NextTypes, PTL DEF Spec, DecisionIsFinal

-----------------------------------------------------------------------------
(* The waiting list. *)

LEMMA QueueChanges ==
  ASSUME TypeInv, TicketInv, Next
  PROVE  \/ UNCHANGED queue
         \/ \E r \in Runs : queue' = StartRun(queue, r)
         \/ \E x : queue' = FinishRun(queue, x)
         \/ \E r \in Runs : Enqueue(r)
         \/ Restart
<1>1. ASSUME NEW r \in Runs, Register(r) \/ Take(r) \/ Unclaim(r) \/ Unwind(r) \/ Leave(r)
      PROVE  UNCHANGED queue \/ queue' = StartRun(queue, r) \/ queue' = FinishRun(queue, r)
  BY <1>1 DEF Register, Take, Unclaim, Unwind, Leave
<1>2. ASSUME NEW c \in Callers, CancelContext(c)
      PROVE  UNCHANGED queue
  BY <1>2 DEF CancelContext
<1> QED BY <1>1, <1>2, Classes

LEMMA StartQueue ==
  ASSUME NEW q \in QueueType, NEW r
  PROVE  StartRun(q, r).queued = q.queued
         \/ (q.queued # <<>> /\ StartRun(q, r).queued = Tail(q.queued))
<1>1. q.queued \in Seq(Runs)
  BY DEF QueueType
<1>2. CASE q.active = r
  BY <1>2 DEF StartRun
<1>3. CASE q.active # r /\ NextQueuedRun(q) = r /\ q.queued # <<>>
  BY <1>3 DEF StartRun
<1>4. CASE q.active # r /\ NextQueuedRun(q) = r /\ q.queued = <<>>
  <2>1. Tail(q.queued) = <<>>
    BY <1>4
  <2> QED BY <1>4, <2>1 DEF StartRun
<1>5. CASE q.active # r /\ NextQueuedRun(q) # r
  BY <1>5 DEF StartRun, QueueType
<1> QED BY Zenon, <1>2, <1>3, <1>4, <1>5

\* In the modes that replace, refuse or interrupt, at most one run waits: for any number
\* of runs, whatever starts, finishes and cancels happen in between.
THEOREM BacklogIsBounded == Spec => []BacklogBound
<1>1. Init => BacklogBound
  <2>1. Init => queue = EmptyQueue
    BY Zenon DEF Init
  <2>2. Len(EmptyQueue.queued) = 0
    BY DEF EmptyQueue
  <2> QED BY <2>1, <2>2 DEF BacklogBound
<1>2. ASSUME TypeInv, TicketInv, BacklogBound, Next
      PROVE  BacklogBound'
  <2> SUFFICES ASSUME QueueMode # "enqueue"  PROVE Len(queue'.queued) <= 1
    BY DEF BacklogBound
  <2>1. queue \in QueueType /\ queue.queued \in Seq(Runs) /\ Len(queue.queued) <= 1 /\ Len(queue.queued) \in Nat
    BY <1>2, TypeParts DEF TypeInv, BacklogBound, QueueType
  <2>2. CASE UNCHANGED queue
    BY <2>1, <2>2
  <2>3. ASSUME NEW r \in Runs, queue' = StartRun(queue, r)
        PROVE  Len(queue'.queued) <= 1
    <3>1. CASE queue'.queued = queue.queued
      BY <2>1, <3>1
    <3>2. CASE queue.queued # <<>> /\ queue'.queued = Tail(queue.queued)
      <4>1. Len(Tail(queue.queued)) = Len(queue.queued) - 1
        BY <2>1, <3>2
      <4> QED BY <2>1, <3>2, <4>1
    <3> QED BY Zenon, <2>1, <2>3, <3>1, <3>2, StartQueue
  <2>4. ASSUME NEW x, queue' = FinishRun(queue, x)
        PROVE  Len(queue'.queued) <= 1
    <3>1. Len(Without(queue.queued, x)) <= Len(queue.queued) /\ Without(queue.queued, x) \in Seq(Runs)
      BY <2>1, WithoutType
    <3>2. Len(Without(queue.queued, x)) \in Nat
      BY <3>1
    <3> QED BY <2>1, <2>4, <3>1, <3>2 DEF FinishRun
  <2>5. ASSUME NEW r \in Runs, Enqueue(r)
        PROVE  Len(queue'.queued) <= 1
    <3>1. queue' = EnqueueSessionRun(queue, r, QueueMode) /\ QueueMode \in {"interrupt", "coalesce", "reject"}
      BY <2>5, ModeAssumption DEF Enqueue, QueueModes
    <3>2. CASE Rejects(queue, QueueMode)
      BY <2>1, <3>1, <3>2 DEF EnqueueSessionRun
    <3>3. CASE ~Rejects(queue, QueueMode) /\ QueueMode = "interrupt"
      <4>1. queue'.queued = <<r>>
        BY <2>1, <3>1, <3>3 DEF EnqueueSessionRun, QueueType
      <4>2. Len(<<r>>) = 1
        OBVIOUS
      <4> QED BY <4>1, <4>2
    <3>4. CASE ~Rejects(queue, QueueMode) /\ QueueMode = "coalesce" /\ queue.queued # <<>>
      <4>1. queue'.queued = [queue.queued EXCEPT ![Len(queue.queued)] = r]
        BY <2>1, <3>1, <3>4 DEF EnqueueSessionRun, QueueType
      <4> QED BY <2>1, <4>1
    <3>5. CASE ~Rejects(queue, QueueMode) /\ QueueMode # "interrupt" /\ queue.queued = <<>>
      <4>1. queue'.queued = Append(queue.queued, r)
        BY <2>1, <3>1, <3>5 DEF EnqueueSessionRun, QueueType
      <4> QED BY <3>5, <4>1
    <3> QED BY <3>1, <3>2, <3>3, <3>4, <3>5 DEF Rejects
  <2>6. CASE Restart
    <3>1. queue'.queued = <<>> /\ Len(<<>>) = 0
      BY Zenon, <2>6 DEF Restart, EmptyQueue
    <3> QED BY <3>1
  <2> QED BY <1>2, <2>2, <2>3, <2>4, <2>5, <2>6, QueueChanges
<1>3. TypeIInv /\ BacklogBound /\ [Next]_vars => BacklogBound'
  <2>1. BacklogBound /\ UNCHANGED vars => BacklogBound'
    BY DEF BacklogBound, vars
  <2> QED BY <1>2, <2>1 DEF TypeIInv
<1> QED BY <1>1, <1>3, InitTypes, NextTypes, PTL DEF Spec

\* No entry occurs twice.
OneEntry(s) == \A i, j \in 1 .. Len(s) : s[i] = s[j] => i = j

Entries(s) == {s[i] : i \in 1 .. Len(s)}

LEMMA EntriesType ==
  ASSUME NEW s \in Seq(Runs)
  PROVE  Entries(s) \subseteq Runs
BY DEF Entries

\* Removing entries keeps the others distinct; a new run may come last.
LEMMA EntryOps ==
  ASSUME NEW s \in Seq(Runs), OneEntry(s)
  PROVE  /\ s # <<>> => OneEntry(Tail(s)) /\ Entries(Tail(s)) \subseteq Entries(s)
         /\ \A x : OneEntry(Without(s, x)) /\ Entries(Without(s, x)) \subseteq Entries(s)
         /\ \A r \in Runs \ Entries(s) :
              /\ OneEntry(Append(s, r)) /\ Entries(Append(s, r)) \subseteq Entries(s) \cup {r}
              /\ s # <<>> => LET l == [s EXCEPT ![Len(s)] = r] IN
                             OneEntry(l) /\ Entries(l) \subseteq Entries(s) \cup {r}
<1>1. ASSUME s # <<>>
      PROVE  OneEntry(Tail(s)) /\ Entries(Tail(s)) \subseteq Entries(s)
  <2>1. Len(s) \in Nat \ {0} /\ Len(Tail(s)) = Len(s) - 1 /\ \A i \in 1 .. Len(s) - 1 : Tail(s)[i] = s[i + 1]
    BY <1>1
  <2> HIDE DEF OneEntry
  <2>2. OneEntry(Tail(s))
    BY <2>1 DEF OneEntry
  <2>3. \A i \in 1 .. Len(s) - 1 : i + 1 \in 1 .. Len(s)
    BY <2>1
  <2> QED BY <2>1, <2>2, <2>3 DEF Entries
<1>2. ASSUME NEW x
      PROVE  OneEntry(Without(s, x)) /\ Entries(Without(s, x)) \subseteq Entries(s)
  <2> DEFINE f == CHOOSE p \in 1 .. Len(s) : s[p] = x
             rest == [j \in 1 .. Len(s) - 1 |-> IF j < f THEN s[j] ELSE s[j + 1]]
  <2>1. CASE \A i \in 1 .. Len(s) : s[i] # x
    BY <2>1 DEF Without
  <2>2. CASE \E i \in 1 .. Len(s) : s[i] = x
    <3>2. Len(s) \in Nat \ {0}
      BY <2>2
    <3>3. Without(s, x) = rest
      BY <2>2 DEF Without
    <3>4. rest \in [1 .. Len(s) - 1 -> Runs] /\ Len(s) - 1 \in Nat
      BY <3>2
    <3>5. Len(rest) = Len(s) - 1
      BY <3>4
    <3>7. f \in 1 .. Len(s)
      BY <2>2
    <3> HIDE DEF f
    <3>8. \A j \in 1 .. Len(s) - 1 : j \in 1 .. Len(s) /\ j + 1 \in 1 .. Len(s)
                                      /\ rest[j] = IF j < f THEN s[j] ELSE s[j + 1]
      BY <3>2
    <3> HIDE DEF rest
    <3>9. OneEntry(rest)
      BY <3>2, <3>5, <3>7, <3>8 DEF OneEntry
    <3>10. Entries(rest) \subseteq Entries(s)
      BY Zenon, <3>2, <3>5, <3>8 DEF Entries
    <3> QED BY <3>3, <3>9, <3>10
  <2> QED BY <2>1, <2>2
<1>3. ASSUME NEW r \in Runs \ Entries(s)
      PROVE  OneEntry(Append(s, r)) /\ Entries(Append(s, r)) \subseteq Entries(s) \cup {r}
  <2>1. \A i \in 1 .. Len(s) : s[i] # r
    BY <1>3 DEF Entries
  <2>2. /\ Len(s) \in Nat /\ Len(Append(s, r)) = Len(s) + 1
        /\ \A i \in 1 .. Len(s) + 1 : Append(s, r)[i] = IF i = Len(s) + 1 THEN r ELSE s[i]
    OBVIOUS
  <2>3. OneEntry(Append(s, r))
    BY <2>1, <2>2 DEF OneEntry
  <2> QED BY <2>2, <2>3 DEF Entries
<1>4. ASSUME NEW r \in Runs \ Entries(s), s # <<>>, NEW l, l = [s EXCEPT ![Len(s)] = r]
      PROVE  OneEntry(l) /\ Entries(l) \subseteq Entries(s) \cup {r}
  <2>1. \A i \in 1 .. Len(s) : s[i] # r
    BY <1>4 DEF Entries
  <2>2. /\ Len(s) \in Nat /\ Len(l) = Len(s)
        /\ \A i \in 1 .. Len(s) : l[i] = IF i = Len(s) THEN r ELSE s[i]
    BY <1>4
  <2>3. OneEntry(l)
    BY <2>1, <2>2 DEF OneEntry
  <2> QED BY <2>2, <2>3 DEF Entries
<1> QED BY <1>1, <1>2, <1>3, <1>4

\* The places of Submit before EnqueueSessionRun has returned.
BeforeQueue == {"new", "create", "persist", "record", "list", "interrupt", "enqueue"}

\* A run waits only after its Submit has put it there.
QueueInv == QueuedOnce /\ \A r \in Entries(queue.queued) : sub[r].pc \notin BeforeQueue

LEMMA SubmitAdvances ==
  ASSUME TypeInv, TicketInv, Next, ~Restart, NEW x \in Runs, sub[x].pc \notin BeforeQueue
  PROVE  sub'[x].pc \notin BeforeQueue
<1>1. sub \in [Runs -> SubCall]
  BY Zenon, CallFacts
<1>2. CASE UNCHANGED sub
  BY <1>2
<1>3. ASSUME NEW r \in Runs, Submit(r)
      PROVE  sub'[x].pc \notin BeforeQueue
  <2>1. CASE r = x
    <3>1. ~(\/ FollowUp(x) \/ Create(x) \/ Persist(x) \/ RecordSession(x) \/ ListRuns(x)
            \/ Interrupt(x) \/ Enqueue(x))
      BY DEF FollowUp, Create, Persist, RecordSession, ListRuns, Interrupt, Enqueue, Submitting, BeforeQueue
    <3>2. \E pc \in {"decide", "head", "send", "done"} : SubGoto(x, pc)
      BY Zenon, <1>3, <2>1, <3>1 DEF Submit, Bind, Decide, CheckHead, Send
    <3>3. sub'[x].pc \in {"decide", "head", "send", "done"}
      BY <1>1, <3>2 DEF SubGoto, SubCall
    <3> QED BY <3>3 DEF BeforeQueue
  <2>2. CASE r # x
    <3>1. sub'[x] = sub[x]
      BY Zenon, <1>1, <1>3, <2>2 DEF Submit, FollowUp, Create, Persist, RecordSession, ListRuns, Interrupt,
         Enqueue, Bind, Decide, CheckHead, Send, Submitting, SubGoto
    <3> QED BY <3>1
  <2> QED BY <2>1, <2>2
<1>4. ASSUME NEW r \in Runs, Work(r)
      PROVE  UNCHANGED sub
  <2>1. CASE Inner(r)
    BY <2>1, InnerStays DEF Outside
  <2>2. CASE Outer(r)
    BY <2>2, OuterStays DEF Outside
  <2> QED BY <1>4, <2>1, <2>2 DEF Work, Inner, Outer, Register, Take, Unclaim, Unwind, Leave, BgFinish, Outside
<1>5. ASSUME NEW r \in Runs, OperatorCancel(r) \/ OperatorResume(r) \/ ResumeDispatch(r)
      PROVE  UNCHANGED sub
  BY Zenon, <1>5 DEF OperatorCancel, OperatorResume, ResumeDispatch
<1>6. ASSUME NEW c \in Callers, Cancel(c)
      PROVE  UNCHANGED sub
  BY <1>6 DEF Cancel, CancelTicket, CancelWrite, CancelContext, CancelFinish
<1>7. ASSUME NEW t \in TicketIds, \/ Approve(t)
                                  \/ \E d \in Decisions : ApprovalGet(t, d)
      PROVE  UNCHANGED sub
  BY Zenon, <1>7 DEF Approve, ApprovalGet, ApprovalResolve, ApprovalReget, ApprovalWrite, ApprovalCheck, ApprovalDispatch
<1> QED BY <1>2, <1>3, <1>4, <1>5, <1>6, <1>7 DEF Next

LEMMA QueueInvStep ==
  ASSUME TypeInv, TicketInv, QueueInv, Next
  PROVE  QueueInv'
<1>1. queue \in QueueType /\ queue.queued \in Seq(Runs) /\ OneEntry(queue.queued)
  BY Zenon, TypeParts DEF TypeInv, QueueType, QueueInv, QueuedOnce, OneEntry
<1>2. Entries(queue.queued) \subseteq Runs
  BY <1>1, EntriesType
<1>3. CASE Restart
  <2>1. queue'.queued = <<>> /\ Len(<<>>) = 0
    BY Zenon, <1>3 DEF Restart, EmptyQueue
  <2>2. 1 .. Len(queue'.queued) = {}
    BY <2>1
  <2> QED BY Zenon, <2>2 DEF QueueInv, QueuedOnce, Entries
<1>4. ASSUME ~Restart, OneEntry(queue'.queued), Entries(queue'.queued) \subseteq Entries(queue.queued)
      PROVE  QueueInv'
  BY Zenon, <1>2, <1>4, SubmitAdvances DEF QueueInv, QueuedOnce, OneEntry
<1>5. CASE ~Restart /\ UNCHANGED queue
  BY <1>1, <1>4, <1>5
<1>6. ASSUME ~Restart, NEW r \in Runs, queue' = StartRun(queue, r)
      PROVE  QueueInv'
  <2>1. \/ queue'.queued = queue.queued
        \/ queue.queued # <<>> /\ queue'.queued = Tail(queue.queued)
    BY Zenon, <1>1, <1>6, StartQueue
  <2>2. queue.queued # <<>> => /\ OneEntry(Tail(queue.queued))
                              /\ Entries(Tail(queue.queued)) \subseteq Entries(queue.queued)
    BY Zenon, <1>1, EntryOps
  <2> QED BY Zenon, <1>1, <1>4, <1>6, <2>1, <2>2
<1>7. ASSUME ~Restart, NEW x, queue' = FinishRun(queue, x)
      PROVE  QueueInv'
  BY Zenon, <1>1, <1>4, <1>7, EntryOps DEF FinishRun
<1>8. ASSUME ~Restart, NEW r \in Runs, Enqueue(r)
      PROVE  QueueInv'
  <2>1. sub[r].pc = "enqueue" /\ queue' = EnqueueSessionRun(queue, r, QueueMode)
    BY Zenon, <1>8 DEF Enqueue, Submitting
  <2>2. r \notin Entries(queue.queued)
    BY <2>1 DEF QueueInv, BeforeQueue
  <2>3. sub'[r].pc \notin BeforeQueue
    <3>1. sub \in [Runs -> SubCall]
      BY Zenon, CallFacts
    <3> QED BY <1>8, <3>1 DEF Enqueue, SubGoto, BeforeQueue, SubCall
  <2>4. OneEntry(queue'.queued) /\ Entries(queue'.queued) \subseteq Entries(queue.queued) \cup {r}
    <3>1. CASE Rejects(queue, QueueMode)
      <4>1. queue' = queue
        BY <2>1, <3>1 DEF EnqueueSessionRun, Rejects
      <4> QED BY <1>1, <4>1
    <3>2. CASE ~Rejects(queue, QueueMode) /\ QueueMode = "interrupt"
      <4>1. queue'.queued = <<r>>
        BY <1>1, <2>1, <3>2 DEF EnqueueSessionRun, QueueType
      <4> QED BY <4>1 DEF OneEntry, Entries
    <3>3. CASE ~Rejects(queue, QueueMode) /\ QueueMode = "coalesce" /\ queue.queued # <<>>
      <4>1. queue'.queued = [queue.queued EXCEPT ![Len(queue.queued)] = r]
        BY <1>1, <2>1, <3>3 DEF EnqueueSessionRun, QueueType
      <4>2. r \in Runs \ Entries(queue.queued)
        BY <2>2
      <4>3. queue.queued \in Seq(Runs)
        BY <1>1
      <4> DEFINE l == [queue.queued EXCEPT ![Len(queue.queued)] = r]
      <4>4. OneEntry(l) /\ Entries(l) \subseteq Entries(queue.queued) \cup {r}
        <5> HIDE DEF OneEntry, Entries
        <5> QED BY Zenon, <1>1, <3>3, <4>2, <4>3, EntryOps
      <4> QED BY <4>1, <4>4
    <3>4. CASE /\ ~Rejects(queue, QueueMode) /\ QueueMode # "interrupt"
               /\ ~(QueueMode = "coalesce" /\ queue.queued # <<>>)
      <4>1. queue'.queued = Append(queue.queued, r)
        BY <1>1, <2>1, <3>4 DEF EnqueueSessionRun, QueueType
      <4>2. /\ OneEntry(Append(queue.queued, r))
            /\ Entries(Append(queue.queued, r)) \subseteq Entries(queue.queued) \cup {r}
        BY Zenon, <1>1, <2>2, EntryOps
      <4> QED BY <4>1, <4>2
    <3> QED BY Zenon, <3>1, <3>2, <3>3, <3>4
  <2>5. \A y \in Entries(queue'.queued) : sub'[y].pc \notin BeforeQueue
    BY <1>2, <1>8, <2>3, <2>4, SubmitAdvances DEF QueueInv
  <2> QED BY Zenon, <2>4, <2>5 DEF QueueInv, QueuedOnce, OneEntry
<1> QED BY <1>3, <1>5, <1>6, <1>7, <1>8, QueueChanges

\* No run ever waits twice in its session's queue.
THEOREM RunsQueueOnce == Spec => []QueuedOnce
<1>1. Init => QueueInv
  <2>1. Init => queue = EmptyQueue
    BY Zenon DEF Init
  <2>2. 1 .. Len(EmptyQueue.queued) = {}
    BY DEF EmptyQueue
  <2> QED BY Zenon, <2>1, <2>2 DEF QueueInv, QueuedOnce, Entries
<1>2. TypeIInv /\ QueueInv /\ [Next]_vars => QueueInv'
  <2>1. QueueInv /\ UNCHANGED vars => QueueInv'
    BY DEF QueueInv, QueuedOnce, vars
  <2> QED BY <2>1, QueueInvStep DEF TypeIInv
<1>3. QueueInv => QueuedOnce
  BY DEF QueueInv
<1> QED BY <1>1, <1>2, <1>3, InitTypes, NextTypes, PTL DEF Spec

=============================================================================
