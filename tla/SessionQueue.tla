---------------------------- MODULE SessionQueue ----------------------------
(***************************************************************************)
(* The per-session queue of InMemoryCoordinator (agent/memory.go): one     *)
(* active slot and a list of waiting run ids.  Every method runs under the *)
(* coordinator's mutex, so each is one operator on the queue record.       *)
(***************************************************************************)
EXTENDS Naturals, Sequences

CONSTANT NoRun          \* the empty run id ""

EmptyQueue == [active |-> NoRun, queued |-> <<>>]

QueueModes == {"enqueue", "interrupt", "coalesce", "reject"}

\* EnqueueSessionRun refuses a run (ErrRunRejected) only in reject mode.
Rejects(q, mode) ==
  /\ mode = "reject"
  /\ q.active # NoRun \/ q.queued # <<>>

\* Mutant of EnqueueSessionRun: every mode appends.
EnqueueAlways(q, r, mode) == [q EXCEPT !.queued = Append(@, r)]

EnqueueSessionRun(q, r, mode) ==
  CASE Rejects(q, mode)                          -> q
    [] mode = "interrupt"                        -> [q EXCEPT !.queued = <<r>>]
    [] mode = "coalesce" /\ q.queued # <<>>      -> [q EXCEPT !.queued[Len(q.queued)] = r]
    [] OTHER                                     -> [q EXCEPT !.queued = Append(@, r)]

NextQueuedRun(q) == IF q.queued = <<>> THEN NoRun ELSE Head(q.queued)

\* Mutant of CanStart: the active slot is not looked at.
CanStartAnyway(q, r) == TRUE

\* StartRun fails when another run holds the active slot.
CanStart(q, r) == q.active \in {NoRun, r}

\* A run that is not the head preempts the waiting ones, which stay queued.
StartRun(q, r) ==
  CASE q.active = r                              -> q
    [] q.active # r /\ NextQueuedRun(q) = r      -> [active |-> r, queued |-> Tail(q.queued)]
    [] OTHER                                     -> [q EXCEPT !.active = r]

\* The waiting list without r.  A run waits at most once (QueuedOnce), so dropping
\* one entry is the filter of the code.
Without(list, r) ==
  IF \A i \in 1 .. Len(list) : list[i] # r THEN list
  ELSE LET i == CHOOSE p \in 1 .. Len(list) : list[p] = r IN
       [j \in 1 .. Len(list) - 1 |-> IF j < i THEN list[j] ELSE list[j + 1]]

FinishRun(q, r) ==
  [active |-> IF q.active = r THEN NoRun ELSE q.active, queued |-> Without(q.queued, r)]
=============================================================================
