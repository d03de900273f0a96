--------------------------- MODULE AuditDelivery ---------------------------
(***************************************************************************)
(* Reliable audit delivery: the bus hands every persisted event to the     *)
(* current dispatcher, which writes one outbox entry per configured sink;  *)
(* the dispatcher's loop reads the due entries in batches, calls the sink  *)
(* with its copy of each entry and saves the copy back; an operator may    *)
(* redrive an entry; a configuration refresh swaps the dispatcher for a    *)
(* new one, and a restart forgets everything but the durable outbox.       *)
(*                                                                         *)
(* Generation g is the g-th dispatcher since the start of the process.     *)
(* With the SQLite backend all generations share one outbox; with the      *)
(* in-memory backend each has its own, lost with it.                       *)
(***************************************************************************)
EXTENDS Naturals, Sequences, FiniteSets

CONSTANTS
  Events,        \* the events published during the behaviour
  NoEvent,       \* the event of an outbox slot nobody wrote
  Sinks,         \* the sinks a configuration may name
  Durable,       \* the outbox is the SQLite table (else: in memory)
  OutputChoices, \* whether a configuration may, or must, set runtime.audit.output
  ByRequest,     \* refreshes run under the context of an operator's request
  MaxAttempts,   \* DeliveryConfig.MaxAttempts
  BaseBackoff,   \* DeliveryConfig.BaseBackoff, in clock units
  MaxBackoff,    \* DeliveryConfig.MaxBackoff, in clock units
  BatchSize,     \* DeliveryConfig.BatchSize
  MaxIDs,        \* bound: event ids handed out per process lifetime
  Horizon,       \* bound: the clock stops advancing here
  MaxFaults,     \* bound: failed outbox writes of publishers
  MaxRedrives,   \* bound: redrives
  MaxSwaps,      \* bound: refreshes per process lifetime
  MaxRestarts    \* bound: restarts

ASSUME NoEventAssumption == NoEvent \notin Events
ASSUME FlagsAssumption == {Durable, ByRequest} \cup OutputChoices \subseteq BOOLEAN
\* What DeliveryConfig.normalized guarantees.
ASSUME ConfigAssumption ==
  /\ MaxAttempts \in Nat \ {0}
  /\ BaseBackoff \in Nat \ {0}
  /\ MaxBackoff \in Nat /\ MaxBackoff >= BaseBackoff
  /\ BatchSize \in Nat \ {0}
ASSUME BoundsAssumption ==
  {MaxIDs, Horizon, MaxFaults, MaxRedrives, MaxSwaps, MaxRestarts} \subseteq Nat
ASSUME SinksAssumption == IsFiniteSet(Sinks)

VARIABLES
  now,       \* the clock
  lastID,    \* InMemoryBus.nextID
  pub,       \* pub[e]: the publisher of event e, inside Publish
  outbox,    \* outbox[d][<<sink, event id>>]: the entries of outbox d
  cur,       \* the generation dynamicAuditSink.inner holds
  swap,      \* the generation a Swap has started and not yet installed, or 0
  targets,   \* targets[g]: the sinks dispatcher g was built with
  output,    \* output[g]: dispatcher g sits in a MultiSink, behind a local output
  loop,      \* loop[g]: the goroutine of dispatcher g
  redrive,   \* the operator's Redrive call
  received,  \* <<sink, event>> pairs a sink has accepted
  calls,     \* calls[k]: how often a sink was called for outbox key k
  faults, redrives, restarts   \* what the bounds have been spent on

vars == <<now, lastID, pub, outbox, cur, swap, targets, output, loop, redrive,
          received, calls, faults, redrives, restarts>>

-----------------------------------------------------------------------------
Gens == 1 .. MaxSwaps + 1
Ids == 1 .. MaxIDs
Keys == Sinks \X Ids
Times == 0 .. Horizon

\* The sink built for the targets ts is the dispatcher itself, with its Start, Stop and
\* Redrive: without targets there is no dispatcher, and a MultiSink has none of the three.
Startable(ts, local) == ~local /\ ts # {}

\* The outbox dispatcher g writes to.
Db(g) == IF Durable THEN 1 ELSE g

Statuses == {"none", "pending", "delivered", "dead_letter"}

Entries == [event : Events \cup {NoEvent}, status : Statuses,
            attempts : Nat, next : Times, created : Times]

Absent == [event |-> NoEvent, status |-> "none",
           attempts |-> 0, next |-> 0, created |-> 0]

\* A caller's copy of an entry: what Due and Get return, and what Save writes.
Items == [key : Keys, entry : Entries]

NoItem == [key |-> <<>>, entry |-> Absent]

\* A loop that is not running; Start turns it into RunningLoop.
NoLoop == [pc |-> "off", live |-> FALSE, todo |-> <<>>, hold |-> NoItem, full |-> FALSE]
RunningLoop == [NoLoop EXCEPT !.pc = "idle", !.live = TRUE]

Unpublished == [pc |-> "new", id |-> 0, gen |-> 1, at |-> 0, sinks |-> {}, todo |-> {}]

NoRedrive == [pc |-> "idle", db |-> 1, item |-> NoItem]

Later(d) == IF now + d \in Times THEN now + d ELSE Horizon

\* computeBackoff: the base delay doubles with every failed attempt, up to the maximum.
computeBackoff(attempts) ==
  LET delay[i \in 1 .. MaxAttempts] ==
        IF i = 1 THEN BaseBackoff
        ELSE IF 2 * delay[i - 1] > MaxBackoff THEN MaxBackoff ELSE 2 * delay[i - 1]
  IN delay[attempts]

-----------------------------------------------------------------------------
\* Assembly builds the first dispatcher and subscribes it to the bus; only Swap calls Start.
Init ==
  /\ now = 0 /\ lastID = 0
  /\ pub = [e \in Events |-> Unpublished]
  /\ outbox = [d \in Gens |-> [k \in Keys |-> Absent]]
  /\ cur = 1 /\ swap = 0
  /\ \E ts \in SUBSET Sinks : targets = [g \in Gens |-> IF g = 1 THEN ts ELSE {}]
  /\ \E local \in OutputChoices : output = [g \in Gens |-> local]
  /\ loop = [g \in Gens |-> NoLoop]
  /\ redrive = NoRedrive
  /\ received = {} /\ calls = [k \in Keys |-> 0]
  /\ faults = 0 /\ redrives = 0 /\ restarts = 0

Tick ==
  /\ now < Horizon
  /\ now' = now + 1
  /\ UNCHANGED <<lastID, pub, outbox, cur, swap, targets, output, loop, redrive,
                 received, calls, faults, redrives, restarts>>

-----------------------------------------------------------------------------
(* Publishing: Publish numbers the event, then calls Handle of the installed *)
(* dispatcher, which enqueues sink by sink and stops at the first error.     *)

AfterEnqueue(todo) == IF todo = {} THEN "done" ELSE "enqueue"

Publish(e) ==
  /\ pub[e].pc = "new" /\ lastID < MaxIDs
  /\ lastID' = lastID + 1
  /\ pub' = [pub EXCEPT ![e] =
       [pc |-> AfterEnqueue(targets[cur]), id |-> lastID + 1, gen |-> cur, at |-> now,
        sinks |-> targets[cur], todo |-> targets[cur]]]
  /\ UNCHANGED <<now, outbox, cur, swap, targets, output, loop, redrive,
                 received, calls, faults, redrives, restarts>>

NewEntry(e) == [event |-> e, status |-> "pending", attempts |-> 0,
                next |-> pub[e].at, created |-> pub[e].at]

\* INSERT OR IGNORE: an entry with the same sink and event id is kept as it is.
Insert(e, s) ==
  LET d == Db(pub[e].gen)
      k == <<s, pub[e].id>>
  IN outbox' = IF outbox[d][k].status = "none"
               THEN [outbox EXCEPT ![d][k] = NewEntry(e)] ELSE outbox

Enqueue(e, s) ==
  /\ pub[e].pc = "enqueue" /\ s \in pub[e].todo
  /\ Insert(e, s)
  /\ LET todo == pub[e].todo \ {s}
     IN pub' = [pub EXCEPT ![e].todo = todo, ![e].pc = AfterEnqueue(todo)]
  /\ UNCHANGED <<now, lastID, cur, swap, targets, output, loop, redrive,
                 received, calls, faults, redrives, restarts>>

\* Mutant: the error of the outbox is logged and Handle returns nil.
EnqueueErrorIgnored(e, s) ==
  /\ Durable /\ faults < MaxFaults
  /\ pub[e].pc = "enqueue" /\ s \in pub[e].todo
  /\ Insert(e, s) \/ UNCHANGED outbox
  /\ pub' = [pub EXCEPT ![e].pc = "done"]
  /\ faults' = faults + 1
  /\ UNCHANGED <<now, lastID, cur, swap, targets, output, loop, redrive,
                 received, calls, redrives, restarts>>

\* The insert fails, or the read-back after it does: Handle returns the error.
EnqueueFails(e, s) ==
  /\ Durable /\ faults < MaxFaults
  /\ pub[e].pc = "enqueue" /\ s \in pub[e].todo
  /\ Insert(e, s) \/ UNCHANGED outbox
  /\ pub' = [pub EXCEPT ![e].pc = "failed"]
  /\ faults' = faults + 1
  /\ UNCHANGED <<now, lastID, cur, swap, targets, output, loop, redrive,
                 received, calls, redrives, restarts>>

\* MultiSink calls the JSONL recorder first, and the dispatcher not at all if that fails.
OutputFails(e) ==
  /\ output[pub[e].gen] /\ faults < MaxFaults
  /\ pub[e].pc = "enqueue" /\ pub[e].todo = pub[e].sinks
  /\ pub' = [pub EXCEPT ![e].pc = "failed"]
  /\ faults' = faults + 1
  /\ UNCHANGED <<now, lastID, outbox, cur, swap, targets, output, loop, redrive,
                 received, calls, redrives, restarts>>

-----------------------------------------------------------------------------
(* The dispatcher's loop: Due, then deliverOne for each copy of the batch.   *)

\* Mutant: every pending entry is due.
AnyPending(ob) == {k \in Keys : ob[k].status = "pending"}

DueKeys(ob) == {k \in Keys : ob[k].status = "pending" /\ ob[k].next <= now}

Earlier(ob, j, k) ==
  \/ ob[j].next < ob[k].next
  \/ ob[j].next = ob[k].next /\ ob[j].created < ob[k].created

\* The answers Due may give: the first BatchSize due keys in (next, created) order.
Batches(ob) ==
  LET due == DueKeys(ob)
      n == IF Cardinality(due) < BatchSize THEN Cardinality(due) ELSE BatchSize
  IN {b \in [1 .. n -> due] :
        /\ \A i, j \in 1 .. n : i < j => b[i] # b[j] /\ ~Earlier(ob, b[j], b[i])
        /\ \A k \in due, i \in 1 .. n : Earlier(ob, k, b[i]) => \E j \in 1 .. n : b[j] = k}

\* A store call of loop g succeeds; SQLite refuses a cancelled context.
StoreAnswers(g) == ~Durable \/ loop[g].live

\* processDue's query. From "again" it follows a full batch without a look at the context.
Due(g) ==
  LET ob == outbox[Db(g)]
  IN /\ loop[g].pc = "again" \/ (loop[g].pc = "idle" /\ StoreAnswers(g) /\ DueKeys(ob) # {})
     /\ \E b \in IF StoreAnswers(g) THEN Batches(ob) ELSE {<<>>} :
          loop' = [loop EXCEPT
            ![g].pc = IF b = <<>> THEN "idle" ELSE "deliver",
            ![g].todo = [i \in DOMAIN b |-> [key |-> b[i], entry |-> ob[b[i]]]],
            ![g].full = Len(b) = BatchSize]
     /\ UNCHANGED <<now, lastID, pub, outbox, cur, swap, targets, output, redrive,
                    received, calls, faults, redrives, restarts>>

\* Mutant: the attempts of an entry without a sink stay as they are.
UnregisteredUncounted(en) == [en EXCEPT !.status = "dead_letter"]

\* What deliverOne makes of its copy: the sink is gone, it accepted, it failed.
Unregistered(en) ==
  [en EXCEPT !.status = "dead_letter",
             !.attempts = IF @ < MaxAttempts THEN MaxAttempts ELSE @]

Accepted(en) == [en EXCEPT !.status = "delivered", !.attempts = @ + 1]

\* Mutant: the last attempt counts as delivered.
RefusedAsDelivered(en) ==
  IF en.attempts + 1 >= MaxAttempts
  THEN [en EXCEPT !.status = "delivered", !.attempts = @ + 1]
  ELSE [en EXCEPT !.status = "pending", !.attempts = @ + 1,
                  !.next = Later(computeBackoff(en.attempts + 1))]

\* Mutant: one attempt too many.
RefusedOnceMore(en) ==
  IF en.attempts >= MaxAttempts
  THEN [en EXCEPT !.status = "dead_letter", !.attempts = @ + 1]
  ELSE [en EXCEPT !.status = "pending", !.attempts = @ + 1, !.next = Later(MaxBackoff)]

Refused(en) ==
  IF en.attempts + 1 >= MaxAttempts
  THEN [en EXCEPT !.status = "dead_letter", !.attempts = @ + 1]
  ELSE [en EXCEPT !.status = "pending", !.attempts = @ + 1,
                  !.next = Later(computeBackoff(en.attempts + 1))]

\* The loop turns to its next copy, keeping what is to be saved.
Hold(g, en) ==
  loop' = [loop EXCEPT ![g].pc = "save", ![g].todo = Tail(@),
                       ![g].hold = [key |-> Head(loop[g].todo).key, entry |-> en]]

\* deliverOne up to its Save. A refused call may have reached the sink all the same.
Deliver(g) ==
  /\ loop[g].pc = "deliver"
  /\ LET item == Head(loop[g].todo)
         s == item.key[1]
         got == received \cup {<<s, item.entry.event>>}
     IN \/ /\ s \notin targets[g]
           /\ Hold(g, Unregistered(item.entry))
           /\ UNCHANGED <<received, calls>>
        \/ /\ s \in targets[g]
           /\ calls' = [calls EXCEPT ![item.key] = @ + 1]
           /\ \/ Hold(g, Accepted(item.entry)) /\ received' = got
              \/ Hold(g, Refused(item.entry)) /\ received' \in {received, got}
  /\ UNCHANGED <<now, lastID, pub, outbox, cur, swap, targets, output, redrive,
                 faults, redrives, restarts>>

\* Mutant: the loop's goroutine returns after its first batch.
LoopEndsAfterBatch(g) == IF loop[g].todo # <<>> THEN "deliver" ELSE "off"

AfterSave(g) ==
  IF loop[g].todo # <<>> THEN "deliver" ELSE IF loop[g].full THEN "again" ELSE "idle"

\* Save writes the whole copy, whatever the entry has become since it was read.
Save(g) ==
  /\ loop[g].pc = "save"
  /\ outbox' = IF StoreAnswers(g)
               THEN [outbox EXCEPT ![Db(g)][loop[g].hold.key] = loop[g].hold.entry]
               ELSE outbox
  /\ loop' = [loop EXCEPT ![g].pc = AfterSave(g), ![g].hold = NoItem]
  /\ UNCHANGED <<now, lastID, pub, cur, swap, targets, output, redrive,
                 received, calls, faults, redrives, restarts>>

\* The loop sees its context done, between two rounds only.
Exit(g) ==
  /\ loop[g].pc = "idle" /\ ~loop[g].live
  /\ loop' = [loop EXCEPT ![g] = NoLoop]
  /\ UNCHANGED <<now, lastID, pub, outbox, cur, swap, targets, output, redrive,
                 received, calls, faults, redrives, restarts>>

-----------------------------------------------------------------------------
(* The operator's redrive: one critical section in memory, a read and a      *)
(* later write of the whole row in SQLite.                                   *)

Redriven(en, reset) ==
  [en EXCEPT !.status = "pending", !.next = now, !.attempts = IF reset THEN 0 ELSE @]

\* Mutant: a delivered entry is redriven too.
RedriveAny(k, reset) ==
  /\ Startable(targets[cur], output[cur]) /\ redrives < MaxRedrives /\ redrive.pc = "idle"
  /\ outbox[Db(cur)][k].status # "none" /\ ~Durable
  /\ outbox' = [outbox EXCEPT ![Db(cur)][k] = Redriven(@, reset)]
  /\ redrives' = redrives + 1
  /\ UNCHANGED <<now, lastID, pub, cur, swap, targets, output, loop, redrive,
                 received, calls, faults, restarts>>

Redrive(k, reset) ==
  LET en == outbox[Db(cur)][k]
  IN /\ Startable(targets[cur], output[cur]) /\ redrives < MaxRedrives /\ redrive.pc = "idle"
     /\ en.status \in {"pending", "dead_letter"}
     /\ IF Durable
        THEN /\ redrive' = [pc |-> "save", db |-> Db(cur),
                            item |-> [key |-> k, entry |-> Redriven(en, reset)]]
             /\ UNCHANGED outbox
        ELSE /\ outbox' = [outbox EXCEPT ![Db(cur)][k] = Redriven(en, reset)]
             /\ UNCHANGED redrive
     /\ redrives' = redrives + 1
     /\ UNCHANGED <<now, lastID, pub, cur, swap, targets, output, loop,
                    received, calls, faults, restarts>>

RedriveSave ==
  /\ redrive.pc = "save"
  /\ outbox' = [outbox EXCEPT ![redrive.db][redrive.item.key] = redrive.item.entry]
  /\ redrive' = NoRedrive
  /\ UNCHANGED <<now, lastID, pub, cur, swap, targets, output, loop,
                 received, calls, faults, redrives, restarts>>

-----------------------------------------------------------------------------
(* dynamicAuditSink.Swap: start the new dispatcher, install it, stop the old *)
(* one.                                                                      *)

SwapStart(ts, local) ==
  /\ swap = 0 /\ cur <= MaxSwaps
  /\ swap' = cur + 1
  /\ targets' = [targets EXCEPT ![cur + 1] = ts]
  /\ output' = [output EXCEPT ![cur + 1] = local]
  /\ loop' = IF Startable(ts, local) THEN [loop EXCEPT ![cur + 1] = RunningLoop] ELSE loop
  /\ UNCHANGED <<now, lastID, pub, outbox, cur, redrive,
                 received, calls, faults, redrives, restarts>>

\* Mutant: the new dispatcher is forgotten before it is installed.
SwapReplaceLate ==
  /\ swap # 0
  /\ swap' = 0 /\ cur' = swap'
  /\ UNCHANGED <<now, lastID, pub, outbox, targets, output, loop, redrive,
                 received, calls, faults, redrives, restarts>>

SwapReplace ==
  /\ swap # 0
  /\ cur' = swap /\ swap' = 0
  /\ loop' = IF Startable(targets[cur], output[cur])
             THEN [loop EXCEPT ![cur].live = FALSE] ELSE loop
  /\ UNCHANGED <<now, lastID, pub, outbox, targets, output, redrive,
                 received, calls, faults, redrives, restarts>>

\* The request that asked for the refresh ends, and with it the context Start was given.
RequestEnds(g) ==
  /\ ByRequest /\ loop[g].live
  /\ loop' = [loop EXCEPT ![g].live = FALSE]
  /\ UNCHANGED <<now, lastID, pub, outbox, cur, swap, targets, output, redrive,
                 received, calls, faults, redrives, restarts>>

\* The process ends anywhere and starts again with the configuration it had.
Restart ==
  /\ restarts < MaxRestarts
  /\ lastID' = 0
  /\ pub' = [e \in Events |-> IF pub[e].pc = "enqueue" THEN [pub[e] EXCEPT !.pc = "failed"] ELSE pub[e]]
  /\ outbox' = IF Durable THEN outbox ELSE [d \in Gens |-> [k \in Keys |-> Absent]]
  /\ cur' = 1 /\ swap' = 0
  /\ targets' = [g \in Gens |-> IF g = 1 THEN targets[cur] ELSE {}]
  /\ output' = [g \in Gens |-> output[cur]]
  /\ loop' = [g \in Gens |-> NoLoop]
  /\ redrive' = NoRedrive
  /\ restarts' = restarts + 1
  /\ UNCHANGED <<now, received, calls, faults, redrives>>

-----------------------------------------------------------------------------
Next ==
  \/ Tick
  \/ \E e \in Events : Publish(e) \/ OutputFails(e)
  \/ \E e \in Events, s \in Sinks : Enqueue(e, s) \/ EnqueueFails(e, s)
  \/ \E g \in Gens : Due(g) \/ Deliver(g) \/ Save(g) \/ Exit(g) \/ RequestEnds(g)
  \/ \E k \in Keys, reset \in BOOLEAN : Redrive(k, reset)
  \/ RedriveSave
  \/ \E ts \in SUBSET Sinks, local \in OutputChoices : SwapStart(ts, local)
  \/ SwapReplace
  \/ Restart

Spec == Init /\ [][Next]_vars

\* Time passes, and a goroutine that can move does: the loop is woken by its ticker, and
\* a Swap, a Redrive or a Publish under way runs to its end.
Fairness ==
  /\ WF_vars(Tick) /\ WF_vars(RedriveSave) /\ WF_vars(SwapReplace)
  /\ \A g \in Gens : WF_vars(Due(g) \/ Deliver(g) \/ Save(g) \/ Exit(g))
  /\ \A e \in Events : WF_vars(\E s \in Sinks : Enqueue(e, s))

FairSpec == Spec /\ Fairness

-----------------------------------------------------------------------------
(* Properties.                                                               *)

ItemOrNone == Items \cup {NoItem}

Publishers == [pc : {"new", "enqueue", "done", "failed"}, id : Ids \cup {0}, gen : Gens,
               at : Times, sinks : SUBSET Sinks, todo : SUBSET Sinks]

Loops == [pc : {"off", "idle", "again", "deliver", "save"}, live : BOOLEAN,
          todo : Seq(Items), hold : ItemOrNone, full : BOOLEAN]

\* The state stays in its types.
TypeOK ==
  /\ now \in Times /\ lastID \in 0 .. MaxIDs
  /\ pub \in [Events -> Publishers]
  /\ outbox \in [Gens -> [Keys -> Entries]]
  /\ cur \in Gens /\ swap \in Gens \cup {0}
  /\ targets \in [Gens -> SUBSET Sinks] /\ output \in [Gens -> BOOLEAN]
  /\ loop \in [Gens -> Loops]
  /\ redrive \in [pc : {"idle", "save"}, db : Gens, item : ItemOrNone]
  /\ received \subseteq Sinks \X (Events \cup {NoEvent}) /\ calls \in [Keys -> Nat]
  /\ faults \in Nat /\ redrives \in Nat /\ restarts \in Nat

\* An entry is marked delivered only if its sink accepted that very event, whatever
\* batches, redrives, swaps and restarts came between the call and the save
\* (deliverOne, Save).
DeliveredIsReceived ==
  \A d \in Gens, k \in Keys :
    outbox[d][k].status = "delivered" => <<k[1], outbox[d][k].event>> \in received

\* A dead-lettered entry has used up its attempts, or been given up for a sink that is no
\* longer registered with its attempts raised to the maximum: an operator's redrive
\* without a reset therefore buys one more attempt (deliverOne).
DeadIsExhausted ==
  \A d \in Gens, k \in Keys :
    outbox[d][k].status = "dead_letter" => outbox[d][k].attempts >= MaxAttempts

\* When Handle has returned without an error, the outbox it wrote to holds the event for
\* every sink of the dispatcher that handled it (Handle, Enqueue).
HandledIsQueued ==
  \A e \in Events : pub[e].pc = "done" =>
    \A s \in pub[e].sinks : outbox[Db(pub[e].gen)][<<s, pub[e].id>>].event = e

\* A sink is only called for an entry that is pending and due in the outbox at that very
\* moment: the copy the loop works from is not stale in its status and its time, though a
\* redrive with a reset may have changed the attempts (processDue, deliverOne).
CallsAreDue ==
  [][\A g \in Gens : Deliver(g) =>
       LET k == Head(loop[g].todo).key
       IN outbox[Db(g)][k].status = "pending" /\ outbox[Db(g)][k].next <= now]_vars

\* An entry costs its sink at most MaxAttempts calls; every redrive allows at most
\* MaxAttempts more, and so does a restart, after which the id is that of another event
\* (deliverOne, Redrive).
RetryBudget ==
  \A k \in Keys : calls[k] <= MaxAttempts * (1 + redrives + restarts)

\* A delivered entry is never sent again: no step takes it back to pending (Save, Redrive).
DeliveredIsFinal ==
  [][\A d \in Gens, k \in Keys :
       outbox[d][k].status = "delivered" => outbox'[d][k].status # "pending"]_vars

Pending(g, k) == outbox[Db(g)][k].status = "pending"

\* While a dispatcher's loop runs, every pending entry of its outbox is settled: delivered
\* or dead-lettered, whatever the sinks answer (loop, processDue, computeBackoff).
LoopSettles ==
  \A g \in Gens, k \in Keys :
    (Pending(g, k) /\ loop[g].live) ~> (~Pending(g, k) \/ ~loop[g].live)

\* Audit delivery is reliable: an entry in the outbox of the installed dispatcher does not
\* stay pending for ever.
PendingSettles ==
  \A g \in Gens, k \in Keys :
    (cur = g /\ Pending(g, k)) ~> (~Pending(g, k) \/ cur # g)
=============================================================================
