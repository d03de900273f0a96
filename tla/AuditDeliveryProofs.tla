------------------------ MODULE AuditDeliveryProofs ------------------------
(* Proofs about AuditDelivery, for every value of its constants.             *)
EXTENDS AuditDelivery, FiniteSetTheorems, TLAPS

-----------------------------------------------------------------------------
(* Facts about the operators.                                                *)

LEMMA NoItemType == Absent \in Entries /\ NoItem \in ItemOrNone
  BY BoundsAssumption DEF Absent, Entries, Statuses, Times, NoItem, ItemOrNone

\* The clock never leaves its range.
LEMMA LaterType ==
  ASSUME NEW d
  PROVE  Later(d) \in Times
  BY BoundsAssumption DEF Later, Times

LEMMA DueFinite ==
  ASSUME NEW ob
  PROVE  Cardinality(DueKeys(ob)) \in Nat
<1>1. IsFiniteSet(Ids)
  BY BoundsAssumption, FS_Interval DEF Ids
<1>2. IsFiniteSet(Keys)
  BY <1>1, SinksAssumption, FS_Product DEF Keys
<1>3. IsFiniteSet(DueKeys(ob))
  BY <1>2, FS_Subset DEF DueKeys
<1> QED
  BY <1>3, FS_CardinalityType

\* What Due answers: a sequence of keys of pending entries.
LEMMA BatchType ==
  ASSUME NEW ob, NEW b \in Batches(ob)
  PROVE  b \in Seq(DueKeys(ob))
<1> DEFINE due == DueKeys(ob)
           n == IF Cardinality(due) < BatchSize THEN Cardinality(due) ELSE BatchSize
<1>1. n \in Nat
  BY DueFinite, ConfigAssumption
<1>2. b \in [1 .. n -> due]
  BY DEF Batches
<1> HIDE DEF n, due
<1>3. b \in Seq(due)
  BY <1>1, <1>2
<1> QED
  BY <1>3 DEF due

\* The copies deliverOne makes are entries again.
LEMMA OutcomeType ==
  ASSUME NEW en \in Entries
  PROVE  Unregistered(en) \in Entries /\ Accepted(en) \in Entries /\ Refused(en) \in Entries
<1>0. en.attempts \in Nat /\ en.attempts + 1 \in Nat
  BY DEF Entries
<1>1. Unregistered(en) \in Entries
  BY Zenon, <1>0, ConfigAssumption DEF Unregistered, Entries, Statuses
<1>2. Accepted(en) \in Entries
  <2> DEFINE a == en.attempts + 1
  <2>1. Accepted(en) = [en EXCEPT !.status = "delivered", !.attempts = a]
    BY DEF Accepted
  <2> HIDE DEF a
  <2> QED
    BY Zenon, <1>0, <2>1 DEF Entries, Statuses, a
<1>3. Refused(en) \in Entries
  <2> DEFINE a == en.attempts + 1
             t == Later(computeBackoff(en.attempts + 1))
  <2>1. a \in Nat /\ t \in Times
    BY <1>0, LaterType
  <2>2. \/ Refused(en) = [en EXCEPT !.status = "dead_letter", !.attempts = a]
        \/ Refused(en) = [en EXCEPT !.status = "pending", !.attempts = a, !.next = t]
    BY DEF Refused
  <2> HIDE DEF a, t
  <2> QED
    BY Zenon, <2>1, <2>2 DEF Entries, Statuses
<1> QED
  BY <1>1, <1>2, <1>3

LEMMA RedrivenType ==
  ASSUME NEW en \in Entries, NEW reset \in BOOLEAN, now \in Times
  PROVE  Redriven(en, reset) \in Entries
  BY Zenon DEF Redriven, Entries, Statuses

-----------------------------------------------------------------------------
(* Type correctness. deliverOne is only reached with a copy to deliver.      *)

LoopReady == \A g \in Gens : loop[g].pc = "deliver" => loop[g].todo # <<>>

TypeIInv == TypeOK /\ LoopReady

LEMMA OutboxUpdate ==
  ASSUME outbox \in [Gens -> [Keys -> Entries]], NEW d, NEW k, NEW en \in Entries
  PROVE  [outbox EXCEPT ![d][k] = en] \in [Gens -> [Keys -> Entries]]
  BY Zenon

\* What a write of one entry leaves in the outbox.
LEMMA OutboxWrite ==
  ASSUME outbox \in [Gens -> [Keys -> Entries]], NEW d, NEW k, NEW en, NEW ob,
         ob = outbox \/ ob = [outbox EXCEPT ![d][k] = en]
  PROVE  \A c \in Gens, j \in Keys : ob[c][j] = outbox[c][j] \/ (j = k /\ ob[c][j] = en)
  OBVIOUS

LEMMA HeadItem ==
  ASSUME NEW S, NEW q \in Seq(S), q # <<>>
  PROVE  Head(q) = q[1] /\ 1 \in 1 .. Len(q)
  OBVIOUS

LEMMA InitType == Init => TypeIInv
<1> SUFFICES ASSUME Init PROVE TypeIInv
  OBVIOUS
<1>1. 1 \in Gens /\ 0 \in Times
  BY BoundsAssumption DEF Gens, Times
<1>2. NoLoop \in Loops
  BY NoItemType DEF NoLoop, Loops
<1>3. Unpublished \in Publishers
  BY <1>1 DEF Unpublished, Publishers
<1>4. NoRedrive \in [pc : {"idle", "save"}, db : Gens, item : ItemOrNone]
  BY <1>1, NoItemType DEF NoRedrive
<1>5. targets \in [Gens -> SUBSET Sinks] /\ output \in [Gens -> BOOLEAN]
  BY FlagsAssumption DEF Init
<1>6. now \in Times /\ lastID \in 0 .. MaxIDs
  BY <1>1, BoundsAssumption DEF Init
<1>7. TypeOK
  BY <1>1, <1>2, <1>3, <1>4, <1>5, <1>6, NoItemType DEF Init, TypeOK
<1>8. LoopReady
  BY DEF Init, LoopReady, NoLoop
<1> QED
  BY <1>7, <1>8 DEF TypeIInv

\* A publisher that moves on is a publisher.
LEMMA PublisherMoves ==
  ASSUME pub \in [Events -> Publishers], NEW e \in Events, NEW todo \in SUBSET Sinks,
         NEW pc \in {"new", "enqueue", "done", "failed"}
  PROVE  /\ [pub EXCEPT ![e].pc = pc] \in [Events -> Publishers]
         /\ [pub EXCEPT ![e].todo = todo, ![e].pc = pc] \in [Events -> Publishers]
<1> DEFINE p == [pub[e] EXCEPT !.pc = pc]
           q == [pub[e] EXCEPT !.todo = todo, !.pc = pc]
<1>1. p \in Publishers /\ q \in Publishers
  BY Zenon DEF Publishers
<1>2. /\ [pub EXCEPT ![e].pc = pc] = [pub EXCEPT ![e] = p]
      /\ [pub EXCEPT ![e].todo = todo, ![e].pc = pc] = [pub EXCEPT ![e] = q]
  BY Zenon
<1> HIDE DEF p, q
<1> QED
  BY <1>1, <1>2

LEMMA PublishType ==
  ASSUME TypeIInv, NEW e \in Events, Publish(e) \/ OutputFails(e)
  PROVE  TypeIInv'
<1> USE DEF TypeIInv, LoopReady
<1>1. CASE Publish(e)
  <2> DEFINE p == [pc |-> AfterEnqueue(targets[cur]), id |-> lastID + 1, gen |-> cur,
                   at |-> now, sinks |-> targets[cur], todo |-> targets[cur]]
  <2>1. lastID + 1 \in Ids /\ lastID' \in 0 .. MaxIDs
    BY <1>1, BoundsAssumption DEF Publish, TypeOK, Ids
  <2>2. p \in Publishers
    BY <2>1 DEF TypeOK, Publishers, AfterEnqueue
  <2>3. pub' = [pub EXCEPT ![e] = p]
    BY <1>1 DEF Publish
  <2> HIDE DEF p
  <2>4. pub' \in [Events -> Publishers]
    BY <2>2, <2>3 DEF TypeOK
  <2> QED
    BY <1>1, <2>1, <2>4 DEF Publish, TypeOK
<1>2. CASE OutputFails(e)
  <2>1. pub' \in [Events -> Publishers]
    BY Zenon, <1>2, PublisherMoves DEF OutputFails, TypeOK
  <2> QED
    BY <1>2, <2>1 DEF OutputFails, TypeOK
<1> QED
  BY <1>1, <1>2

LEMMA InsertType ==
  ASSUME TypeOK, NEW e \in Events, NEW s \in Sinks, Insert(e, s)
  PROVE  outbox' \in [Gens -> [Keys -> Entries]]
<1>1. NewEntry(e) \in Entries
  BY DEF TypeOK, Publishers, NewEntry, Entries, Statuses
<1> QED
  BY <1>1, OutboxUpdate DEF Insert, TypeOK

LEMMA EnqueueType ==
  ASSUME TypeIInv, NEW e \in Events, NEW s \in Sinks, Enqueue(e, s) \/ EnqueueFails(e, s)
  PROVE  TypeIInv'
<1> USE DEF TypeIInv, LoopReady
<1>1. CASE Enqueue(e, s)
  <2> DEFINE todo == pub[e].todo \ {s}
             pc == AfterEnqueue(todo)
  <2>1. todo \in SUBSET Sinks /\ pc \in {"done", "enqueue"}
    BY DEF TypeOK, Publishers, AfterEnqueue
  <2>2. pub' = [pub EXCEPT ![e].todo = todo, ![e].pc = pc]
    BY <1>1 DEF Enqueue
  <2> HIDE DEF todo, pc
  <2>3. pub' \in [Events -> Publishers]
    BY Zenon, <2>1, <2>2, PublisherMoves DEF TypeOK
  <2>4. outbox' \in [Gens -> [Keys -> Entries]]
    BY <1>1, InsertType DEF Enqueue
  <2> QED
    BY <1>1, <2>3, <2>4 DEF Enqueue, TypeOK
<1>2. CASE EnqueueFails(e, s)
  <2>1. pub' \in [Events -> Publishers]
    BY Zenon, <1>2, PublisherMoves DEF EnqueueFails, TypeOK
  <2>2. outbox' \in [Gens -> [Keys -> Entries]]
    BY <1>2, InsertType DEF EnqueueFails, TypeOK
  <2>3. faults' \in Nat
    BY <1>2 DEF EnqueueFails, TypeOK
  <2> QED
    BY <1>2, <2>1, <2>2, <2>3 DEF EnqueueFails, TypeOK
<1> QED
  BY <1>1, <1>2

\* The copies of a batch are items, each of a key that is due.
LEMMA CopiesType ==
  ASSUME NEW ob \in [Keys -> Entries], NEW b \in Seq(DueKeys(ob))
  PROVE  [i \in DOMAIN b |-> [key |-> b[i], entry |-> ob[b[i]]]] \in Seq(Items)
<1> DEFINE item(i) == [key |-> b[i], entry |-> ob[b[i]]]
<1>1. DOMAIN b = 1 .. Len(b) /\ Len(b) \in Nat
  OBVIOUS
<1>2. ASSUME NEW i \in DOMAIN b PROVE item(i) \in Items
  <2>1. b[i] \in DueKeys(ob)
    BY <1>1, <1>2
  <2>2. b[i] \in Keys
    BY <2>1 DEF DueKeys
  <2> QED
    BY <2>2 DEF Items
<1> HIDE DEF item
<1>3. [i \in DOMAIN b |-> item(i)] \in Seq(Items)
  BY <1>1, <1>2
<1> QED
  BY <1>3 DEF item

LEMMA NonemptyDomain ==
  ASSUME NEW S, NEW b \in Seq(S), b # <<>>
  PROVE  DOMAIN b # {}
  OBVIOUS

LEMMA EmptyBatch ==
  ASSUME NEW ob
  PROVE  <<>> \in Seq(DueKeys(ob))
  OBVIOUS

\* What processDue's query does: a batch b of due keys, copied from the outbox.
DueStep(g, b) ==
  loop' = [loop EXCEPT
    ![g].pc = IF b = <<>> THEN "idle" ELSE "deliver",
    ![g].todo = [i \in DOMAIN b |-> [key |-> b[i], entry |-> outbox[Db(g)][b[i]]]],
    ![g].full = Len(b) = BatchSize]

LEMMA DueIsStep ==
  ASSUME NEW g \in Gens, Due(g)
  PROVE  \E b \in Seq(DueKeys(outbox[Db(g)])) : DueStep(g, b)
<1> DEFINE ob == outbox[Db(g)]
<1>1. PICK b \in IF StoreAnswers(g) THEN Batches(ob) ELSE {<<>>} : DueStep(g, b)
  BY Zenon DEF Due, DueStep
<1>2. b \in Seq(DueKeys(ob))
  BY Zenon, BatchType, EmptyBatch
<1> QED
  BY <1>1, <1>2

LEMMA DbType ==
  ASSUME NEW g \in Gens
  PROVE  Db(g) \in Gens
  BY BoundsAssumption DEF Db, Gens

LEMMA DueType ==
  ASSUME TypeIInv, NEW g \in Gens, Due(g)
  PROVE  TypeIInv'
<1> DEFINE ob == outbox[Db(g)]
<1>1. ob \in [Keys -> Entries]
  BY DbType DEF TypeIInv, TypeOK
<1>2. PICK b \in Seq(DueKeys(ob)) : DueStep(g, b)
  BY DueIsStep
<1> DEFINE todo == [i \in DOMAIN b |-> [key |-> b[i], entry |-> ob[b[i]]]]
           pc == IF b = <<>> THEN "idle" ELSE "deliver"
           full == Len(b) = BatchSize
           l == [loop[g] EXCEPT !.pc = pc, !.todo = todo, !.full = full]
<1>3. todo \in Seq(Items)
  BY <1>1, <1>2, CopiesType
<1>4. pc = "deliver" => todo # <<>>
  <2>1. DOMAIN todo = DOMAIN b
    OBVIOUS
  <2>2. b # <<>> => DOMAIN b # {}
    BY <1>2, NonemptyDomain
  <2>3. DOMAIN <<>> = {}
    OBVIOUS
  <2> HIDE DEF todo
  <2> QED
    BY <2>1, <2>2, <2>3
<1>5. pc \in {"idle", "deliver"} /\ full \in BOOLEAN
  OBVIOUS
<1>6. loop' = [loop EXCEPT ![g] = l]
  BY Zenon, <1>2 DEF DueStep
<1> HIDE DEF todo, pc, full
<1>7. l \in Loops /\ l.pc = pc /\ l.todo = todo
  <2>1. loop[g] \in Loops
    BY DEF TypeIInv, TypeOK
  <2> QED
    BY Zenon, <1>3, <1>5, <2>1 DEF Loops
<1> HIDE DEF l
<1>8. loop' \in [Gens -> Loops]
  BY <1>6, <1>7 DEF TypeIInv, TypeOK
<1>9. LoopReady'
  BY <1>4, <1>6, <1>7 DEF TypeIInv, TypeOK, LoopReady
<1> QED
  BY Zenon, <1>8, <1>9 DEF TypeIInv, TypeOK, Due

\* The copy deliverOne works on.
LEMMA HeadType ==
  ASSUME TypeIInv, NEW g \in Gens, loop[g].pc = "deliver"
  PROVE  /\ Head(loop[g].todo) \in Items
         /\ Tail(loop[g].todo) \in Seq(Items)
<1>1. loop[g].todo \in Seq(Items) /\ loop[g].todo # <<>>
  BY DEF TypeIInv, TypeOK, LoopReady, Loops
<1> QED
  BY <1>1

LEMMA HoldType ==
  ASSUME TypeIInv, NEW g \in Gens, loop[g].pc = "deliver", NEW en \in Entries, Hold(g, en)
  PROVE  /\ loop' \in [Gens -> Loops]
         /\ LoopReady'
         /\ loop'[g].pc = "save"
         /\ loop'[g].hold = [key |-> Head(loop[g].todo).key, entry |-> en]
         /\ \A h \in Gens \ {g} : loop'[h] = loop[h]
<1> DEFINE k == Head(loop[g].todo).key
           hold == [key |-> k, entry |-> en]
           rest == Tail(loop[g].todo)
           l == [loop[g] EXCEPT !.pc = "save", !.todo = rest, !.hold = hold]
<1>1. k \in Keys /\ rest \in Seq(Items)
  BY Zenon, HeadType DEF Items
<1>2. hold \in ItemOrNone
  BY <1>1 DEF Items, ItemOrNone
<1>3. loop' = [loop EXCEPT ![g] = l]
  BY Zenon DEF Hold
<1>4. loop[g] \in Loops
  BY DEF TypeIInv, TypeOK
<1> HIDE DEF hold, rest
<1>5. l \in Loops /\ l.pc = "save" /\ l.hold = hold
  BY Zenon, <1>1, <1>2, <1>4 DEF Loops
<1> HIDE DEF l
<1>6. loop' \in [Gens -> Loops] /\ loop'[g] = l /\ \A h \in Gens \ {g} : loop'[h] = loop[h]
  BY <1>3, <1>5 DEF TypeIInv, TypeOK
<1>7. LoopReady'
  BY <1>5, <1>6 DEF TypeIInv, LoopReady
<1> QED
  BY <1>5, <1>6, <1>7 DEF hold

LEMMA DeliverType ==
  ASSUME TypeIInv, NEW g \in Gens, Deliver(g)
  PROVE  TypeIInv'
<1> DEFINE item == Head(loop[g].todo)
           s == item.key[1]
           got == received \cup {<<s, item.entry.event>>}
<1>1. item \in Items
  BY Zenon, HeadType DEF Deliver
<1>2. item.key \in Keys /\ item.entry \in Entries
  BY <1>1 DEF Items
<1>3. \E en \in Entries : Hold(g, en)
  BY Zenon, <1>2, OutcomeType DEF Deliver
<1>4. loop' \in [Gens -> Loops] /\ LoopReady'
  BY Zenon, <1>3, HoldType DEF Deliver
<1>5. calls' \in [Keys -> Nat]
  <2> DEFINE k == item.key
  <2>1. calls' = calls \/ calls' = [calls EXCEPT ![k] = @ + 1]
    BY Zenon DEF Deliver
  <2>2. calls \in [Keys -> Nat]
    BY Zenon DEF TypeIInv, TypeOK
  <2> HIDE DEF k
  <2> QED
    BY <2>1, <2>2
<1> QED
  <2>1. s \in Sinks /\ item.entry.event \in Events \cup {NoEvent}
    BY <1>2 DEF Keys, Entries
  <2>2. received' \in {received, got}
    BY Zenon DEF Deliver
  <2>3. received' \subseteq Sinks \X (Events \cup {NoEvent})
    BY <2>1, <2>2 DEF TypeIInv, TypeOK
  <2> QED
    BY Zenon, <1>4, <1>5, <2>3 DEF Deliver, TypeIInv, TypeOK

LEMMA SaveType ==
  ASSUME TypeIInv, NEW g \in Gens, Save(g)
  PROVE  /\ TypeIInv'
         /\ loop'[g].pc # "save"
         /\ \A h \in Gens \ {g} : loop'[h] = loop[h]
<1> DEFINE l == [loop[g] EXCEPT !.pc = AfterSave(g), !.hold = NoItem]
<1>1. loop[g] \in Loops
  BY DEF TypeIInv, TypeOK
<1>2. loop[g].hold.entry \in Entries
  BY <1>1, NoItemType DEF Loops, ItemOrNone, Items, NoItem
<1>3. outbox' \in [Gens -> [Keys -> Entries]]
  BY <1>2, OutboxUpdate DEF Save, TypeIInv, TypeOK
<1>4. AfterSave(g) \in {"deliver", "again", "idle"}
  BY DEF AfterSave
<1>5. l \in Loops /\ l.pc = AfterSave(g) /\ l.todo = loop[g].todo
  BY Zenon, <1>1, <1>4, NoItemType DEF Loops
<1>6. l.pc = "deliver" => l.todo # <<>>
  BY <1>5 DEF AfterSave
<1>7. loop' = [loop EXCEPT ![g] = l]
  BY Zenon DEF Save
<1> HIDE DEF l
<1>8. loop' \in [Gens -> Loops] /\ loop'[g] = l /\ \A h \in Gens \ {g} : loop'[h] = loop[h]
  BY <1>5, <1>7 DEF TypeIInv, TypeOK
<1>9. LoopReady'
  BY <1>6, <1>8 DEF TypeIInv, LoopReady
<1>10. TypeIInv'
  BY <1>3, <1>8, <1>9 DEF Save, TypeIInv, TypeOK
<1> QED
  BY <1>4, <1>5, <1>8, <1>10

\* The other steps of a loop end it or cancel its context.
LEMMA EndType ==
  ASSUME TypeIInv, NEW g \in Gens, Exit(g) \/ RequestEnds(g)
  PROVE  TypeIInv'
<1>1. loop[g] \in Loops
  BY DEF TypeIInv, TypeOK
<1>2. NoLoop \in Loops /\ NoLoop.pc = "off"
  BY NoItemType DEF NoLoop, Loops
<1> DEFINE l == [loop[g] EXCEPT !.live = FALSE]
<1>3. l \in Loops /\ l.pc = loop[g].pc /\ l.todo = loop[g].todo
  BY Zenon, <1>1 DEF Loops
<1>4. loop' = [loop EXCEPT ![g] = NoLoop] \/ loop' = [loop EXCEPT ![g] = l]
  BY DEF Exit, RequestEnds
<1> HIDE DEF l
<1>5. loop' \in [Gens -> Loops] /\ LoopReady'
  BY Zenon, <1>2, <1>3, <1>4 DEF TypeIInv, TypeOK, LoopReady
<1> QED
  BY <1>5 DEF Exit, RequestEnds, TypeIInv, TypeOK

LEMMA RedriveType ==
  ASSUME TypeIInv, NEW k \in Keys, NEW reset \in BOOLEAN, Redrive(k, reset)
  PROVE  TypeIInv'
<1> DEFINE en == Redriven(outbox[Db(cur)][k], reset)
           item == [key |-> k, entry |-> en]
<1>1. cur \in Gens /\ Db(cur) \in Gens
  BY DbType DEF TypeIInv, TypeOK
<1>2. en \in Entries
  BY <1>1, RedrivenType DEF TypeIInv, TypeOK
<1>3. item \in ItemOrNone
  BY <1>2 DEF Items, ItemOrNone
<1>4. \/ outbox' = outbox /\ redrive' = [pc |-> "save", db |-> Db(cur), item |-> item]
      \/ outbox' = [outbox EXCEPT ![Db(cur)][k] = en] /\ redrive' = redrive
  BY DEF Redrive
<1> HIDE DEF en, item
<1>5. outbox' \in [Gens -> [Keys -> Entries]]
  <2>1. outbox \in [Gens -> [Keys -> Entries]]
    BY DEF TypeIInv, TypeOK
  <2>2. [outbox EXCEPT ![Db(cur)][k] = en] \in [Gens -> [Keys -> Entries]]
    BY <1>2, <2>1, OutboxUpdate
  <2> QED
    BY <1>4, <2>1, <2>2
<1>6. redrive' \in [pc : {"idle", "save"}, db : Gens, item : ItemOrNone]
  <2>1. redrive \in [pc : {"idle", "save"}, db : Gens, item : ItemOrNone]
    BY DEF TypeIInv, TypeOK
  <2>2. [pc |-> "save", db |-> Db(cur), item |-> item]
           \in [pc : {"idle", "save"}, db : Gens, item : ItemOrNone]
    BY <1>1, <1>3
  <2> QED
    BY <1>4, <2>1, <2>2
<1>7. redrives' \in Nat
  BY DEF Redrive, TypeIInv, TypeOK
<1> QED
  BY <1>5, <1>6, <1>7 DEF Redrive, TypeIInv, TypeOK, LoopReady

LEMMA RedriveSaveType ==
  ASSUME TypeIInv, RedriveSave
  PROVE  TypeIInv'
<1>1. redrive.item.entry \in Entries
  BY NoItemType DEF TypeIInv, TypeOK, ItemOrNone, Items, NoItem
<1>2. outbox' \in [Gens -> [Keys -> Entries]]
  BY <1>1, OutboxUpdate DEF RedriveSave, TypeIInv, TypeOK
<1>3. redrive' \in [pc : {"idle", "save"}, db : Gens, item : ItemOrNone]
  BY NoItemType, BoundsAssumption DEF RedriveSave, NoRedrive, Gens
<1> QED
  BY <1>2, <1>3 DEF RedriveSave, TypeIInv, TypeOK, LoopReady

LEMMA SwapType ==
  ASSUME TypeIInv,
         \/ \E ts \in SUBSET Sinks, local \in OutputChoices : SwapStart(ts, local)
         \/ SwapReplace
  PROVE  TypeIInv'
<1>1. NoLoop \in Loops
  BY NoItemType DEF NoLoop, Loops
<1>2. RunningLoop \in Loops /\ RunningLoop.pc = "idle"
  BY Zenon, <1>1 DEF RunningLoop, Loops
<1>3. ASSUME NEW ts \in SUBSET Sinks, NEW local \in OutputChoices, SwapStart(ts, local)
      PROVE  TypeIInv'
  <2>1. swap' \in Gens /\ targets' \in [Gens -> SUBSET Sinks]
    BY <1>3, BoundsAssumption DEF SwapStart, TypeIInv, TypeOK, Gens
  <2>2. loop' \in [Gens -> Loops] /\ LoopReady'
    BY Zenon, <1>2, <1>3 DEF SwapStart, TypeIInv, TypeOK, LoopReady
  <2>3. output' \in [Gens -> BOOLEAN]
    <3>1. output \in [Gens -> BOOLEAN] /\ local \in BOOLEAN
      BY Zenon, <1>3, FlagsAssumption DEF TypeIInv, TypeOK
    <3> QED
      BY Zenon, <1>3, <3>1 DEF SwapStart
  <2> QED
    BY <1>3, <2>1, <2>2, <2>3 DEF SwapStart, TypeIInv, TypeOK
<1>4. CASE SwapReplace
  <2> DEFINE l == [loop[cur] EXCEPT !.live = FALSE]
  <2>1. loop[cur] \in Loops
    BY DEF TypeIInv, TypeOK
  <2>2. l \in Loops /\ l.pc = loop[cur].pc /\ l.todo = loop[cur].todo
    BY Zenon, <2>1 DEF Loops
  <2>3. loop' = loop \/ loop' = [loop EXCEPT ![cur] = l]
    BY <1>4 DEF SwapReplace
  <2> HIDE DEF l
  <2>4. loop' \in [Gens -> Loops] /\ LoopReady'
    BY Zenon, <2>2, <2>3 DEF TypeIInv, TypeOK, LoopReady
  <2>5. cur' \in Gens /\ swap' = 0
    BY <1>4 DEF SwapReplace, TypeIInv, TypeOK
  <2> QED
    BY <1>4, <2>4, <2>5 DEF SwapReplace, TypeIInv, TypeOK
<1> QED
  BY <1>3, <1>4

LEMMA RestartType ==
  ASSUME TypeIInv, Restart
  PROVE  TypeIInv'
<1>1. 1 \in Gens
  BY BoundsAssumption DEF Gens
<1>2. NoLoop \in Loops /\ NoLoop.pc = "off"
  BY NoItemType DEF NoLoop, Loops
<1>3. ASSUME NEW e \in Events PROVE [pub[e] EXCEPT !.pc = "failed"] \in Publishers
  <2>1. pub[e] \in Publishers
    BY Zenon DEF TypeIInv, TypeOK
  <2> QED
    BY <2>1 DEF Publishers
<1>4. pub' \in [Events -> Publishers]
  BY <1>3 DEF Restart, TypeIInv, TypeOK
<1>5. outbox' \in [Gens -> [Keys -> Entries]]
  BY NoItemType DEF Restart, TypeIInv, TypeOK
<1>6. targets' \in [Gens -> SUBSET Sinks] /\ output' \in [Gens -> BOOLEAN]
  BY DEF Restart, TypeIInv, TypeOK
<1>7. redrive' \in [pc : {"idle", "save"}, db : Gens, item : ItemOrNone]
  BY <1>1, NoItemType DEF Restart, NoRedrive
<1>8. loop' \in [Gens -> Loops] /\ LoopReady'
  BY <1>2 DEF Restart, LoopReady
<1>9. lastID' \in 0 .. MaxIDs /\ restarts' \in Nat
  BY BoundsAssumption DEF Restart, TypeIInv, TypeOK
<1> QED
  BY <1>1, <1>4, <1>5, <1>6, <1>7, <1>8, <1>9 DEF Restart, TypeIInv, TypeOK

LEMMA TickType ==
  ASSUME TypeIInv, Tick
  PROVE  TypeIInv'
<1>1. now' \in Times
  BY BoundsAssumption DEF Tick, TypeIInv, TypeOK, Times
<1> QED
  BY <1>1 DEF Tick, TypeIInv, TypeOK, LoopReady

LEMMA NextType == TypeIInv /\ [Next]_vars => TypeIInv'
<1> SUFFICES ASSUME TypeIInv, [Next]_vars PROVE TypeIInv'
  OBVIOUS
<1>1. CASE UNCHANGED vars
  BY <1>1 DEF vars, TypeIInv, TypeOK, LoopReady
<1>2. CASE Next
  BY <1>2, TickType, PublishType, EnqueueType, DueType, DeliverType, SaveType, EndType,
     RedriveType, RedriveSaveType, SwapType, RestartType, Zenon DEF Next
<1> QED
  BY <1>1, <1>2

LEMMA TypeAlways == Spec => []TypeIInv
  BY InitType, NextType, PTL DEF Spec

\* Audit delivery stays in its types, for every number of events, sinks, attempts,
\* refreshes and restarts.
THEOREM TypeCorrect == Spec => []TypeOK
<1>1. TypeIInv => TypeOK
  BY DEF TypeIInv
<1> QED
  BY TypeAlways, <1>1, PTL

-----------------------------------------------------------------------------
(* The outbox tells the truth. A status is first decided on the copy a loop  *)
(* holds and written later, so the copies must tell the truth as well.       *)

Truthful(rcv, k, en) ==
  /\ en.status = "delivered" => <<k[1], en.event>> \in rcv
  /\ en.status = "dead_letter" => en.attempts >= MaxAttempts

TruthInv ==
  /\ \A d \in Gens, k \in Keys : Truthful(received, k, outbox[d][k])
  /\ \A g \in Gens : loop[g].pc = "save" => Truthful(received, loop[g].hold.key, loop[g].hold.entry)
  /\ redrive.pc = "save" => redrive.item.entry.status = "pending"

\* A pending or absent entry claims nothing.
LEMMA HarmlessEntry ==
  ASSUME NEW k, NEW en, NEW rcv, en.status \in {"none", "pending"}
  PROVE  Truthful(rcv, k, en)
  BY DEF Truthful

LEMMA InitTruth == Init => TruthInv
<1> SUFFICES ASSUME Init PROVE TruthInv
  OBVIOUS
<1>1. Absent.status = "none" /\ NoLoop.pc = "off" /\ NoRedrive.pc = "idle"
  BY DEF Absent, NoLoop, NoRedrive
<1>2. \A d \in Gens, k \in Keys : outbox[d][k] = Absent
  BY DEF Init
<1>3. \A d \in Gens, k \in Keys : Truthful(received, k, outbox[d][k])
  BY <1>1, <1>2, HarmlessEntry
<1> QED
  BY <1>1, <1>3 DEF Init, TruthInv

\* A step that leaves loops and redrive alone, or only moves loops outside "save",
\* preserves the invariant when the outbox changes by harmless entries.
LEMMA QuietTruth ==
  ASSUME TypeIInv, TruthInv,
         \A d \in Gens, k \in Keys :
           outbox'[d][k] = outbox[d][k] \/ outbox'[d][k].status \in {"none", "pending"},
         \A g \in Gens :
           loop'[g].pc = "save" => loop[g].pc = "save" /\ loop'[g].hold = loop[g].hold,
         redrive' = redrive \/ redrive'.pc = "idle" \/ redrive'.item.entry.status = "pending",
         received' = received
  PROVE  TruthInv'
<1>1. ASSUME NEW d \in Gens, NEW k \in Keys PROVE Truthful(received, k, outbox[d][k])'
  BY DEF TruthInv, Truthful
<1>2. ASSUME NEW g \in Gens, loop'[g].pc = "save"
      PROVE  Truthful(received, loop[g].hold.key, loop[g].hold.entry)'
  BY <1>2 DEF TruthInv, Truthful
<1>3. redrive'.pc = "save" => redrive'.item.entry.status = "pending"
  BY DEF TruthInv
<1> QED
  BY <1>1, <1>2, <1>3 DEF TruthInv

LEMMA InsertTruth ==
  ASSUME TypeIInv, NEW e \in Events, NEW s \in Sinks, Insert(e, s) \/ UNCHANGED outbox
  PROVE  \A d \in Gens, k \in Keys :
           outbox'[d][k] = outbox[d][k] \/ outbox'[d][k].status \in {"none", "pending"}
<1> DEFINE en == NewEntry(e)
           key == <<s, pub[e].id>>
           db == Db(pub[e].gen)
<1>1. en.status = "pending"
  BY DEF NewEntry
<1>2. outbox' = outbox \/ outbox' = [outbox EXCEPT ![db][key] = en]
  BY DEF Insert
<1> HIDE DEF en, key, db
<1> QED
  BY <1>1, <1>2 DEF TypeIInv, TypeOK

LEMMA DeliverTruth ==
  ASSUME TypeIInv, TruthInv, NEW g \in Gens, Deliver(g)
  PROVE  TruthInv'
<1> DEFINE item == Head(loop[g].todo)
           s == item.key[1]
<1>1. loop[g].pc = "deliver" /\ item \in Items
  BY Zenon, HeadType DEF Deliver
<1>2. item.key \in Keys /\ item.entry \in Entries
  BY <1>1 DEF Items
<1>3. PICK en \in Entries : /\ Hold(g, en)
                            /\ Truthful(received', item.key, en)
  <2>1. CASE Hold(g, Unregistered(item.entry))
    <3>1. Truthful(received', item.key, Unregistered(item.entry))
      BY <1>2, ConfigAssumption DEF Truthful, Unregistered, Entries
    <3> QED
      BY <1>2, <2>1, <3>1, OutcomeType
  <2>2. CASE /\ Hold(g, Accepted(item.entry))
             /\ received' = received \cup {<<s, item.entry.event>>}
    <3>1. Truthful(received', item.key, Accepted(item.entry))
      <4>1. /\ Accepted(item.entry).status = "delivered"
            /\ Accepted(item.entry).event = item.entry.event
        BY <1>2 DEF Accepted, Entries
      <4> QED
        BY <2>2, <4>1 DEF Truthful
    <3> QED
      BY <1>2, <2>2, <3>1, OutcomeType
  <2>3. CASE Hold(g, Refused(item.entry))
    <3>1. Truthful(received', item.key, Refused(item.entry))
      BY <1>2, ConfigAssumption DEF Truthful, Refused, Entries
    <3> QED
      BY <1>2, <2>3, <3>1, OutcomeType
  <2> QED
    BY Zenon, <2>1, <2>2, <2>3 DEF Deliver
<1>4. /\ loop'[g].hold = [key |-> item.key, entry |-> en]
      /\ \A h \in Gens \ {g} : loop'[h] = loop[h]
  BY <1>1, <1>3, HoldType
<1>5. received \subseteq received' /\ outbox' = outbox /\ redrive' = redrive
  BY Zenon DEF Deliver
<1>6. ASSUME NEW h \in Gens, loop'[h].pc = "save"
      PROVE  Truthful(received, loop[h].hold.key, loop[h].hold.entry)'
  <2>1. CASE h = g
    BY <1>3, <1>4, <2>1 DEF Truthful
  <2>2. CASE h # g
    BY <1>4, <1>5, <1>6, <2>2 DEF TruthInv, Truthful
  <2> QED
    BY <2>1, <2>2
<1>7. \A d \in Gens, k \in Keys : Truthful(received, k, outbox[d][k])'
  BY <1>5 DEF TruthInv, Truthful
<1> QED
  BY <1>5, <1>6, <1>7 DEF TruthInv

LEMMA SaveTruth ==
  ASSUME TypeIInv, TruthInv, NEW g \in Gens, Save(g)
  PROVE  TruthInv'
<1> DEFINE key == loop[g].hold.key
           en == loop[g].hold.entry
<1>1. Truthful(received, key, en)
  BY DEF Save, TruthInv
<1>2. outbox' = outbox \/ outbox' = [outbox EXCEPT ![Db(g)][key] = en]
  BY DEF Save
<1>3. received' = received /\ redrive' = redrive
  BY DEF Save
<1> HIDE DEF en, key
<1>4. ASSUME NEW d \in Gens, NEW k \in Keys
      PROVE  outbox'[d][k] = outbox[d][k] \/ (k = key /\ outbox'[d][k] = en)
  BY <1>2 DEF TypeIInv, TypeOK
<1>5. \A d \in Gens, k \in Keys : Truthful(received, k, outbox[d][k])'
  BY <1>1, <1>3, <1>4 DEF TruthInv, Truthful
<1>6. \A h \in Gens : loop'[h].pc = "save" => loop'[h] = loop[h]
  BY SaveType
<1> QED
  BY <1>3, <1>5, <1>6 DEF TruthInv, Truthful

\* Steps other than Deliver bring no loop into "save", nor change what one holds there.
LoopsKeepHold ==
  \A g \in Gens :
    loop'[g].pc = "save" => loop[g].pc = "save" /\ loop'[g].hold = loop[g].hold

LEMMA DueKeepsHold ==
  ASSUME TypeIInv, NEW g \in Gens, Due(g)
  PROVE  LoopsKeepHold
<1>1. PICK b \in Seq(DueKeys(outbox[Db(g)])) : DueStep(g, b)
  BY DueIsStep
<1> DEFINE todo == [i \in DOMAIN b |-> [key |-> b[i], entry |-> outbox[Db(g)][b[i]]]]
           pc == IF b = <<>> THEN "idle" ELSE "deliver"
           full == Len(b) = BatchSize
           l == [loop[g] EXCEPT !.pc = pc, !.todo = todo, !.full = full]
<1>2. pc # "save"
  OBVIOUS
<1>3. loop' = [loop EXCEPT ![g] = l]
  BY Zenon, <1>1 DEF DueStep
<1> HIDE DEF pc, todo, full
<1>4. l.pc = pc
  BY DEF TypeIInv, TypeOK, Loops
<1> HIDE DEF l
<1> QED
  BY <1>2, <1>3, <1>4 DEF LoopsKeepHold, TypeIInv, TypeOK

LEMMA OthersKeepHold ==
  ASSUME TypeIInv,
         \/ \E g \in Gens : Exit(g) \/ RequestEnds(g)
         \/ \E ts \in SUBSET Sinks, local \in OutputChoices : SwapStart(ts, local)
         \/ SwapReplace
         \/ Restart
  PROVE  LoopsKeepHold
<1>1. NoLoop.pc = "off" /\ RunningLoop.pc = "idle"
  BY DEF NoLoop, RunningLoop
<1>2. ASSUME NEW g \in Gens, Exit(g) PROVE LoopsKeepHold
  BY <1>1, <1>2 DEF Exit, LoopsKeepHold, TypeIInv, TypeOK
<1>3. ASSUME NEW g \in Gens, RequestEnds(g) PROVE LoopsKeepHold
  BY <1>3 DEF RequestEnds, LoopsKeepHold, TypeIInv, TypeOK, Loops
<1>4. ASSUME NEW ts \in SUBSET Sinks, NEW local \in OutputChoices, SwapStart(ts, local)
      PROVE  LoopsKeepHold
  BY <1>1, <1>4 DEF SwapStart, LoopsKeepHold, TypeIInv, TypeOK
<1>5. CASE SwapReplace
  BY <1>5 DEF SwapReplace, LoopsKeepHold, TypeIInv, TypeOK, Loops
<1>6. CASE Restart
  BY <1>1, <1>6 DEF Restart, LoopsKeepHold
<1> QED
  BY <1>2, <1>3, <1>4, <1>5, <1>6

\* A redrive brings entries back to pending only.
LEMMA RedriveTruth ==
  ASSUME TypeIInv, TruthInv,
         RedriveSave \/ \E k \in Keys, reset \in BOOLEAN : Redrive(k, reset)
  PROVE  TruthInv'
<1>1. CASE RedriveSave
  <2> DEFINE en == redrive.item.entry
             key == redrive.item.key
  <2>1. en.status = "pending"
    BY <1>1 DEF RedriveSave, TruthInv
  <2>2. outbox' = [outbox EXCEPT ![redrive.db][key] = en]
    BY <1>1 DEF RedriveSave
  <2> HIDE DEF en, key
  <2>3. \A d \in Gens, k \in Keys :
          outbox'[d][k] = outbox[d][k] \/ outbox'[d][k].status \in {"none", "pending"}
    BY <2>1, <2>2 DEF TypeIInv, TypeOK
  <2>4. redrive'.pc = "idle" /\ loop' = loop /\ received' = received
    BY <1>1 DEF RedriveSave, NoRedrive
  <2> QED
    BY <2>3, <2>4, QuietTruth
<1>2. ASSUME NEW k \in Keys, NEW reset \in BOOLEAN, Redrive(k, reset) PROVE TruthInv'
  <2> DEFINE en == Redriven(outbox[Db(cur)][k], reset)
             item == [key |-> k, entry |-> en]
  <2>1. en.status = "pending"
    <3>1. outbox[Db(cur)][k] \in Entries
      BY DbType DEF TypeIInv, TypeOK
    <3> QED
      BY <3>1 DEF Redriven, Entries
  <2>2. item.entry = en
    OBVIOUS
  <2>3. \/ outbox' = outbox /\ redrive' = [pc |-> "save", db |-> Db(cur), item |-> item]
        \/ outbox' = [outbox EXCEPT ![Db(cur)][k] = en] /\ redrive' = redrive
    BY <1>2 DEF Redrive
  <2> HIDE DEF en, item
  <2>4. \A d \in Gens, j \in Keys :
          outbox'[d][j] = outbox[d][j] \/ outbox'[d][j].status \in {"none", "pending"}
    <3>1. outbox \in [Gens -> [Keys -> Entries]]
      BY Zenon DEF TypeIInv, TypeOK
    <3>2. \A d \in Gens, j \in Keys :
            outbox'[d][j] = outbox[d][j] \/ (j = k /\ outbox'[d][j] = en)
      BY <2>3, <3>1, OutboxWrite
    <3> QED
      BY Zenon, <2>1, <3>2
  <2>5. redrive' = redrive \/ redrive'.item.entry.status = "pending"
    BY <2>1, <2>2, <2>3
  <2>6. loop' = loop /\ received' = received
    BY <1>2 DEF Redrive
  <2> QED
    BY <2>4, <2>5, <2>6, QuietTruth
<1> QED
  BY <1>1, <1>2

LEMMA NextTruth == TypeIInv /\ TruthInv /\ [Next]_vars => TruthInv'
<1> SUFFICES ASSUME TypeIInv, TruthInv, [Next]_vars PROVE TruthInv'
  OBVIOUS
<1>1. ASSUME UNCHANGED <<outbox, loop, redrive, received>> PROVE TruthInv'
  BY <1>1, QuietTruth
<1>2. CASE Tick \/ (\E e \in Events : Publish(e) \/ OutputFails(e)) \/ UNCHANGED vars
  BY <1>1, <1>2 DEF Tick, Publish, OutputFails, vars
<1>3. ASSUME NEW e \in Events, NEW s \in Sinks, Enqueue(e, s) \/ EnqueueFails(e, s)
      PROVE  TruthInv'
  <2>1. (Insert(e, s) \/ UNCHANGED outbox) /\ UNCHANGED <<loop, redrive, received>>
    BY <1>3 DEF Enqueue, EnqueueFails
  <2> QED
    BY <2>1, InsertTruth, QuietTruth
<1>4. ASSUME NEW g \in Gens, Due(g) PROVE TruthInv'
  <2>1. UNCHANGED <<outbox, redrive, received>>
    BY Zenon, <1>4 DEF Due
  <2> QED
    BY <1>4, <2>1, DueKeepsHold, QuietTruth DEF LoopsKeepHold
<1>5. ASSUME \/ \E g \in Gens : Exit(g) \/ RequestEnds(g)
             \/ \E ts \in SUBSET Sinks, local \in OutputChoices : SwapStart(ts, local)
             \/ SwapReplace
             \/ Restart
      PROVE  TruthInv'
  <2>1. /\ redrive' = redrive \/ redrive'.pc = "idle"
        /\ received' = received
    BY <1>5 DEF Exit, RequestEnds, SwapStart, SwapReplace, Restart, NoRedrive
  <2>2. \A d \in Gens, k \in Keys :
          outbox'[d][k] = outbox[d][k] \/ outbox'[d][k].status \in {"none", "pending"}
    BY <1>5 DEF Exit, RequestEnds, SwapStart, SwapReplace, Restart, Absent
  <2>3. LoopsKeepHold
    BY <1>5, OthersKeepHold
  <2> QED
    BY <2>1, <2>2, <2>3, QuietTruth DEF LoopsKeepHold
<1> QED
  BY <1>2, <1>3, <1>4, <1>5, DeliverTruth, SaveTruth, RedriveTruth, Zenon DEF Next

LEMMA TruthAlways == Spec => []TruthInv
  BY InitTruth, NextTruth, TypeAlways, PTL DEF Spec

\* An entry marked delivered was accepted by its sink, for every interleaving of loops,
\* redrives, refreshes and restarts (deliverOne, Save).
THEOREM DeliveredMeansReceived == Spec => []DeliveredIsReceived
<1>1. TruthInv => DeliveredIsReceived
  BY DEF TruthInv, Truthful, DeliveredIsReceived
<1> QED
  BY TruthAlways, <1>1, PTL

\* A dead-lettered entry has no attempt left (deliverOne).
THEOREM DeadMeansExhausted == Spec => []DeadIsExhausted
<1>1. TruthInv => DeadIsExhausted
  BY Zenon DEF TruthInv, Truthful, DeadIsExhausted
<1> QED
  BY TruthAlways, <1>1, PTL

-----------------------------------------------------------------------------
(* What was handled is queued, as long as the process does not restart. The  *)
(* argument: an event id belongs to one event, every entry and every copy of *)
(* one is of the event its id belongs to, and an entry never disappears.     *)

\* An entry, or a copy of one, is of the event whose id its key names.
Stands(ps, k, en) ==
  /\ en.status # "none" /\ en.event \in Events
  /\ ps[en.event].pc # "new" /\ ps[en.event].id = k[2]

IdsUnique ==
  /\ \A e \in Events : pub[e].pc # "new" => pub[e].id <= lastID
  /\ \A e, f \in Events :
       pub[e].pc # "new" /\ pub[f].pc # "new" /\ pub[e].id = pub[f].id => e = f

CopiesStand ==
  /\ \A g \in Gens : \A i \in 1 .. Len(loop[g].todo) :
       Stands(pub, loop[g].todo[i].key, loop[g].todo[i].entry)
  /\ \A g \in Gens : loop[g].pc = "save" => Stands(pub, loop[g].hold.key, loop[g].hold.entry)
  /\ redrive.pc = "save" => Stands(pub, redrive.item.key, redrive.item.entry)

EntriesStand ==
  \A d \in Gens, k \in Keys : outbox[d][k].status # "none" => Stands(pub, k, outbox[d][k])

\* The slot of event e for sink s is taken.
Queued(e, s) == outbox[Db(pub[e].gen)][<<s, pub[e].id>>].status # "none"

PublishersInv ==
  \A e \in Events :
    /\ pub[e].pc \in {"enqueue", "done"} =>
         pub[e].id \in Ids /\ \A s \in pub[e].sinks \ pub[e].todo : Queued(e, s)
    /\ pub[e].pc = "done" => pub[e].todo = {}

QueueInv == IdsUnique /\ CopiesStand /\ EntriesStand /\ PublishersInv

LEMMA QueueImplies == TypeIInv /\ QueueInv => HandledIsQueued
<1> SUFFICES ASSUME TypeIInv, QueueInv, NEW e \in Events, pub[e].pc = "done",
                    NEW s \in pub[e].sinks
             PROVE  outbox[Db(pub[e].gen)][<<s, pub[e].id>>].event = e
  BY DEF HandledIsQueued
<1> DEFINE d == Db(pub[e].gen)
           k == <<s, pub[e].id>>
           f == outbox[d][k].event
<1>1. pub[e].gen \in Gens /\ s \in Sinks
  BY DEF TypeIInv, TypeOK, Publishers
<1>2. pub[e].id \in Ids /\ Queued(e, s)
  BY DEF QueueInv, PublishersInv
<1>3. d \in Gens /\ k \in Keys
  BY <1>1, <1>2, DbType DEF Keys
<1>4. Stands(pub, k, outbox[d][k])
  BY <1>2, <1>3 DEF QueueInv, EntriesStand, Queued
<1>5. f \in Events /\ pub[f].pc # "new" /\ pub[f].id = pub[e].id
  BY Zenon, <1>4 DEF Stands
<1> QED
  BY Zenon, <1>5 DEF QueueInv, IdsUnique

LEMMA InitQueue == Init => QueueInv
<1> SUFFICES ASSUME Init PROVE QueueInv
  OBVIOUS
<1>1. \A e \in Events : pub[e].pc = "new"
  BY DEF Init, Unpublished
<1>2. \A g \in Gens : loop[g].todo = <<>> /\ loop[g].pc = "off"
  BY DEF Init, NoLoop
<1>3. redrive.pc = "idle"
  BY DEF Init, NoRedrive
<1>4. \A d \in Gens, k \in Keys : outbox[d][k].status = "none"
  BY DEF Init, Absent
<1>5. CopiesStand
  BY <1>2, <1>3 DEF CopiesStand
<1>6. IdsUnique /\ EntriesStand /\ PublishersInv
  BY <1>1, <1>4 DEF IdsUnique, EntriesStand, PublishersInv
<1> QED
  BY <1>5, <1>6 DEF QueueInv

\* Publishers only move on: an id once given stays.
PubsGrow ==
  \A e \in Events : pub[e].pc # "new" => pub'[e].pc # "new" /\ pub'[e].id = pub[e].id

LEMMA StandsStays ==
  ASSUME PubsGrow, NEW k, NEW en, Stands(pub, k, en)
  PROVE  Stands(pub', k, en)
  BY DEF PubsGrow, Stands

\* Writes to the outbox put standing entries into it.
WritesStand ==
  \A d \in Gens, k \in Keys :
    outbox'[d][k] = outbox[d][k] \/ Stands(pub', k, outbox'[d][k])

LEMMA EntriesStay ==
  ASSUME EntriesStand, PubsGrow, WritesStand
  PROVE  /\ EntriesStand'
         /\ \A d \in Gens, k \in Keys :
              outbox[d][k].status # "none" => outbox'[d][k].status # "none"
<1>1. ASSUME NEW d \in Gens, NEW k \in Keys, outbox'[d][k].status # "none"
      PROVE  Stands(pub', k, outbox'[d][k])
  <2>1. CASE outbox'[d][k] = outbox[d][k]
    BY <1>1, <2>1, StandsStays DEF EntriesStand
  <2> QED
    BY <2>1 DEF WritesStand
<1>2. EntriesStand'
  BY <1>1 DEF EntriesStand
<1>3. ASSUME NEW d \in Gens, NEW k \in Keys, outbox[d][k].status # "none"
      PROVE  outbox'[d][k].status # "none"
  BY <1>3 DEF WritesStand, Stands
<1> QED
  BY <1>2, <1>3

LEMMA CopiesStay ==
  ASSUME CopiesStand, PubsGrow, UNCHANGED <<loop, redrive>>
  PROVE  CopiesStand'
<1>1. ASSUME NEW g \in Gens, NEW i \in 1 .. Len(loop[g].todo)
      PROVE  Stands(pub', loop[g].todo[i].key, loop[g].todo[i].entry)
  BY StandsStays DEF CopiesStand
<1>2. ASSUME NEW g \in Gens, loop[g].pc = "save"
      PROVE  Stands(pub', loop[g].hold.key, loop[g].hold.entry)
  BY <1>2, StandsStays DEF CopiesStand
<1>3. redrive.pc = "save" => Stands(pub', redrive.item.key, redrive.item.entry)
  BY StandsStays DEF CopiesStand
<1> QED
  BY <1>1, <1>2, <1>3 DEF CopiesStand

\* A step of anybody but a publisher.
LEMMA OtherStep ==
  ASSUME TypeIInv, QueueInv, UNCHANGED <<pub, lastID>>, WritesStand, CopiesStand'
  PROVE  QueueInv'
<1>1. PubsGrow
  BY DEF PubsGrow
<1>2. EntriesStand'
  BY <1>1, EntriesStay DEF QueueInv
<1>3. IdsUnique'
  BY DEF QueueInv, IdsUnique
<1>4. ASSUME NEW e \in Events, NEW s \in pub[e].sinks, pub[e].id \in Ids, Queued(e, s)
      PROVE  Queued(e, s)'
  <2>1. Db(pub[e].gen) \in Gens /\ <<s, pub[e].id>> \in Keys
    BY <1>4, DbType DEF TypeIInv, TypeOK, Publishers, Keys
  <2> QED
    BY <1>1, <1>4, <2>1, EntriesStay DEF QueueInv, Queued, Db
<1>5. PublishersInv'
  BY <1>4 DEF QueueInv, PublishersInv
<1> QED
  BY <1>2, <1>3, <1>5 DEF QueueInv

\* A publisher e that moves on to p while the others stay where they are.
LEMMA PublisherStep ==
  ASSUME TypeIInv, QueueInv, NEW e \in Events, NEW p, pub' = [pub EXCEPT ![e] = p],
         UNCHANGED <<loop, redrive>>, PubsGrow, WritesStand, IdsUnique',
         p.pc \in {"enqueue", "done"} =>
           p.id \in Ids /\ \A s \in p.sinks \ p.todo :
                             outbox'[Db(p.gen)][<<s, p.id>>].status # "none",
         p.pc = "done" => p.todo = {}
  PROVE  QueueInv'
<1>1. pub'[e] = p /\ \A f \in Events \ {e} : pub'[f] = pub[f]
  BY DEF TypeIInv, TypeOK
<1>2. EntriesStand' /\ CopiesStand'
  BY EntriesStay, CopiesStay DEF QueueInv
<1>3. ASSUME NEW f \in Events \ {e}, NEW s \in pub[f].sinks, pub[f].id \in Ids, Queued(f, s)
      PROVE  Queued(f, s)'
  <2>1. Db(pub[f].gen) \in Gens /\ <<s, pub[f].id>> \in Keys
    BY Zenon, <1>3, DbType DEF TypeIInv, TypeOK, Publishers, Keys
  <2> QED
    BY <1>1, <1>3, <2>1, EntriesStay DEF QueueInv, Queued, Db
<1>4. PublishersInv'
  <2> SUFFICES ASSUME NEW f \in Events
               PROVE  /\ pub'[f].pc \in {"enqueue", "done"} =>
                           pub'[f].id \in Ids /\ \A s \in pub'[f].sinks \ pub'[f].todo : Queued(f, s)'
                      /\ pub'[f].pc = "done" => pub'[f].todo = {}
    BY DEF PublishersInv
  <2>1. CASE f = e
    BY <1>1, <2>1 DEF Queued, Db
  <2>2. CASE f # e
    BY Zenon, <1>1, <1>3, <2>2 DEF QueueInv, PublishersInv
  <2> QED
    BY <2>1, <2>2
<1> QED
  BY <1>2, <1>4 DEF QueueInv

LEMMA PublishQueue ==
  ASSUME TypeIInv, QueueInv, NEW e \in Events, Publish(e)
  PROVE  QueueInv'
<1> DEFINE p == [pc |-> AfterEnqueue(targets[cur]), id |-> lastID + 1, gen |-> cur,
                 at |-> now, sinks |-> targets[cur], todo |-> targets[cur]]
<1>1. pub[e].pc = "new" /\ pub' = [pub EXCEPT ![e] = p] /\ lastID' = lastID + 1
  BY DEF Publish
<1>2. p.pc # "new" /\ p.id = lastID + 1 /\ p.sinks = p.todo /\ (p.pc = "done" => p.todo = {})
  BY DEF AfterEnqueue
<1>3. lastID + 1 \in Ids /\ lastID \in Nat
  BY BoundsAssumption DEF Publish, TypeIInv, TypeOK, Ids
<1>4. UNCHANGED <<outbox, loop, redrive>>
  BY DEF Publish
<1> HIDE DEF p
<1>5. pub'[e] = p /\ \A f \in Events \ {e} : pub'[f] = pub[f]
  <2>1. pub \in [Events -> Publishers]
    BY Zenon DEF TypeIInv, TypeOK
  <2> QED
    BY Zenon, <1>1, <2>1
<1>6. PubsGrow
  BY <1>1, <1>5 DEF PubsGrow
<1>7. \A f \in Events : pub[f].id \in Nat
  <2>1. Ids \cup {0} \subseteq Nat
    BY BoundsAssumption DEF Ids
  <2>2. \A f \in Events : pub[f].id \in Ids \cup {0}
    BY Zenon DEF TypeIInv, TypeOK, Publishers
  <2> QED
    BY Zenon, <2>1, <2>2
<1>8. IdsUnique'
  <2>1. \A f \in Events \ {e} : pub[f].pc # "new" => pub[f].id < lastID + 1
    <3>1. \A f \in Events : pub[f].pc # "new" => pub[f].id <= lastID
      BY Zenon DEF QueueInv, IdsUnique
    <3>2. ASSUME NEW i \in Nat, i <= lastID PROVE i < lastID + 1
      BY <1>3, <3>2
    <3> QED
      BY Zenon, <1>7, <3>1, <3>2
  <2>2. ASSUME NEW f \in Events, pub'[f].pc # "new" PROVE pub'[f].id <= lastID'
    BY <1>1, <1>2, <1>3, <1>5, <1>7, <2>1, <2>2
  <2>3. ASSUME NEW f \in Events, NEW h \in Events, pub'[f].pc # "new", pub'[h].pc # "new",
               pub'[f].id = pub'[h].id
        PROVE  f = h
    <3>1. CASE f # e /\ h # e
      BY <1>5, <2>3, <3>1 DEF QueueInv, IdsUnique
    <3>2. CASE f = e /\ h # e
      BY <1>2, <1>3, <1>5, <1>7, <2>1, <2>3, <3>2
    <3>3. CASE f # e /\ h = e
      BY <1>2, <1>3, <1>5, <1>7, <2>1, <2>3, <3>3
    <3> QED
      BY <3>1, <3>2, <3>3
  <2> QED
    BY <2>2, <2>3 DEF IdsUnique
<1>9. WritesStand
  BY <1>4 DEF WritesStand
<1> QED
  BY Zenon, <1>1, <1>2, <1>3, <1>4, <1>6, <1>8, <1>9, PublisherStep

\* A publisher that keeps its id keeps the ids unique.
LEMMA IdsStay ==
  ASSUME TypeIInv, IdsUnique, NEW e \in Events, NEW p, pub' = [pub EXCEPT ![e] = p],
         pub[e].pc # "new", p.pc # "new", p.id = pub[e].id, lastID' = lastID
  PROVE  PubsGrow /\ IdsUnique'
<1>1. pub'[e] = p /\ \A f \in Events \ {e} : pub'[f] = pub[f]
  BY DEF TypeIInv, TypeOK
<1>2. \A f \in Events : pub'[f].id = pub[f].id /\ (pub'[f].pc # "new" <=> pub[f].pc # "new")
  BY <1>1
<1> QED
  BY <1>2 DEF PubsGrow, IdsUnique

LEMMA FailsQueue ==
  ASSUME TypeIInv, QueueInv, NEW e \in Events, pub[e].pc = "enqueue",
         pub' = [pub EXCEPT ![e].pc = "failed"], UNCHANGED <<lastID, loop, redrive>>,
         PubsGrow => WritesStand
  PROVE  QueueInv'
<1> DEFINE p == [pub[e] EXCEPT !.pc = "failed"]
<1>1. pub' = [pub EXCEPT ![e] = p]
  OBVIOUS
<1>2. p.pc = "failed" /\ p.id = pub[e].id
  BY DEF TypeIInv, TypeOK, Publishers
<1> HIDE DEF p
<1>3. PubsGrow /\ IdsUnique'
  BY Zenon, <1>1, <1>2, IdsStay DEF QueueInv
<1> QED
  BY Zenon, <1>1, <1>2, <1>3, PublisherStep

\* The entry Insert writes is of the publisher's event.
LEMMA InsertStands ==
  ASSUME TypeIInv, NEW e \in Events, NEW s \in Sinks, pub[e].pc # "new", PubsGrow,
         pub[e].id \in Ids, Insert(e, s) \/ UNCHANGED outbox
  PROVE  /\ WritesStand
         /\ Insert(e, s) => outbox'[Db(pub[e].gen)][<<s, pub[e].id>>].status # "none"
<1> DEFINE en == NewEntry(e)
           key == <<s, pub[e].id>>
           db == Db(pub[e].gen)
<1>1. en.status = "pending" /\ en.event = e
  BY DEF NewEntry
<1>2. db \in Gens /\ key \in Keys /\ key[2] = pub[e].id
  BY DbType DEF TypeIInv, TypeOK, Publishers, Keys
<1>3. \/ outbox' = outbox /\ (Insert(e, s) => outbox[db][key].status # "none")
      \/ outbox' = [outbox EXCEPT ![db][key] = en]
  BY DEF Insert
<1>4. Stands(pub', key, en)
  BY <1>1, <1>2 DEF Stands, PubsGrow
<1> HIDE DEF en, key, db
<1>5. \A d \in Gens, k \in Keys :
        outbox'[d][k] = outbox[d][k] \/ (k = key /\ outbox'[d][k] = en)
  BY <1>3 DEF TypeIInv, TypeOK
<1>6. Insert(e, s) => outbox'[db][key].status # "none"
  BY <1>1, <1>2, <1>3 DEF TypeIInv, TypeOK
<1>7. WritesStand
  BY <1>4, <1>5 DEF WritesStand
<1> QED
  BY <1>6, <1>7 DEF db, key

LEMMA EnqueueQueue ==
  ASSUME TypeIInv, QueueInv, NEW e \in Events, NEW s \in Sinks, Enqueue(e, s)
  PROVE  QueueInv'
<1> DEFINE todo == pub[e].todo \ {s}
           pc == AfterEnqueue(todo)
           p == [pub[e] EXCEPT !.todo = todo, !.pc = pc]
<1>1. pub' = [pub EXCEPT ![e] = p]
  BY Zenon DEF Enqueue
<1>2. /\ pub[e].pc = "enqueue" /\ Insert(e, s)
      /\ UNCHANGED <<lastID, loop, redrive>>
  BY DEF Enqueue
<1>3. pc \in {"enqueue", "done"} /\ (pc = "done" => todo = {})
  BY DEF AfterEnqueue
<1> HIDE DEF todo, pc
<1>4. /\ p.pc = pc /\ p.todo = todo /\ p.id = pub[e].id
      /\ p.sinks = pub[e].sinks /\ p.gen = pub[e].gen
  BY DEF TypeIInv, TypeOK, Publishers
<1> HIDE DEF p
<1>5. PubsGrow /\ IdsUnique'
  BY Zenon, <1>1, <1>2, <1>3, <1>4, IdsStay DEF QueueInv
<1>6. pub[e].id \in Ids /\ \A r \in pub[e].sinks \ pub[e].todo : Queued(e, r)
  BY Zenon, <1>2 DEF QueueInv, PublishersInv
<1>7. WritesStand /\ outbox'[Db(pub[e].gen)][<<s, pub[e].id>>].status # "none"
  BY <1>2, <1>5, <1>6, InsertStands
<1>8. ASSUME NEW r \in p.sinks \ p.todo
      PROVE  outbox'[Db(p.gen)][<<r, p.id>>].status # "none"
  <2>1. CASE r = s
    BY <1>4, <1>7, <2>1
  <2>2. CASE r # s
    <3>1. r \in pub[e].sinks \ pub[e].todo
      BY <1>4, <2>2 DEF todo
    <3>2. Db(pub[e].gen) \in Gens /\ <<r, pub[e].id>> \in Keys
      BY <1>6, <3>1, DbType DEF TypeIInv, TypeOK, Publishers, Keys
    <3> QED
      BY Zenon, <1>4, <1>5, <1>6, <1>7, <3>1, <3>2, EntriesStay DEF QueueInv, Queued
  <2> QED
    BY <2>1, <2>2
<1> QED
  BY Zenon, <1>1, <1>2, <1>3, <1>4, <1>5, <1>6, <1>7, <1>8, PublisherStep

\* The copies of one loop.
LoopStands(g) ==
  /\ \A i \in 1 .. Len(loop[g].todo) :
       Stands(pub, loop[g].todo[i].key, loop[g].todo[i].entry)
  /\ loop[g].pc = "save" => Stands(pub, loop[g].hold.key, loop[g].hold.entry)

\* A step of loop g changes no other copies.
LEMMA LoopStep ==
  ASSUME CopiesStand, UNCHANGED <<pub, redrive>>, NEW g \in Gens, LoopStands(g)',
         \A h \in Gens \ {g} : loop'[h] = loop[h]
  PROVE  CopiesStand'
<1>1. \A h \in Gens : LoopStands(h)'
  <2> SUFFICES ASSUME NEW h \in Gens PROVE LoopStands(h)'
    OBVIOUS
  <2>1. CASE h # g
    BY <2>1 DEF CopiesStand, LoopStands
  <2> QED
    BY <2>1
<1>2. redrive'.pc = "save" => Stands(pub', redrive'.item.key, redrive'.item.entry)
  BY DEF CopiesStand
<1> QED
  BY <1>1, <1>2 DEF CopiesStand, LoopStands

LEMMA DueQueue ==
  ASSUME TypeIInv, QueueInv, NEW g \in Gens, Due(g)
  PROVE  QueueInv'
<1> DEFINE ob == outbox[Db(g)]
<1>1. ob \in [Keys -> Entries] /\ Db(g) \in Gens
  BY DbType DEF TypeIInv, TypeOK
<1>2. PICK b \in Seq(DueKeys(ob)) : DueStep(g, b)
  BY DueIsStep
<1> DEFINE todo == [i \in DOMAIN b |-> [key |-> b[i], entry |-> ob[b[i]]]]
           pc == IF b = <<>> THEN "idle" ELSE "deliver"
           full == Len(b) = BatchSize
           l == [loop[g] EXCEPT !.pc = pc, !.todo = todo, !.full = full]
<1>3. loop' = [loop EXCEPT ![g] = l]
  BY Zenon, <1>2 DEF DueStep
<1>4. ASSUME NEW i \in 1 .. Len(todo) PROVE Stands(pub, todo[i].key, todo[i].entry)
  <2>1. todo \in Seq(Items)
    BY <1>1, <1>2, CopiesType
  <2>2. i \in DOMAIN b
    <3>1. DOMAIN todo = DOMAIN b
      BY Zenon
    <3> HIDE DEF todo
    <3>2. DOMAIN todo = 1 .. Len(todo)
      BY <2>1
    <3> QED
      BY Zenon, <1>4, <3>1, <3>2
  <2>3. b[i] \in DueKeys(ob)
    BY <1>2, <2>2
  <2>4. b[i] \in Keys /\ ob[b[i]].status = "pending"
    BY <2>3 DEF DueKeys
  <2>5. Stands(pub, b[i], ob[b[i]])
    BY <1>1, <2>4 DEF QueueInv, EntriesStand
  <2>6. todo[i].key = b[i] /\ todo[i].entry = ob[b[i]]
    BY <2>2
  <2> QED
    BY Zenon, <2>5, <2>6
<1>5. pc # "save"
  OBVIOUS
<1> HIDE DEF todo, pc, full
<1>6. l.pc = pc /\ l.todo = todo
  BY DEF TypeIInv, TypeOK, Loops
<1> HIDE DEF l
<1>7. loop'[g] = l /\ \A h \in Gens \ {g} : loop'[h] = loop[h]
  BY <1>3 DEF TypeIInv, TypeOK
<1>8. UNCHANGED <<pub, lastID, redrive, outbox>>
  BY Zenon DEF Due
<1>9. LoopStands(g)'
  BY <1>4, <1>5, <1>6, <1>7, <1>8 DEF LoopStands
<1> QED
  BY Zenon, <1>7, <1>8, <1>9, LoopStep, OtherStep DEF QueueInv, WritesStand

\* Whatever the outcome, the copy stays one of its event.
LEMMA OutcomeStands ==
  ASSUME NEW ps, NEW k, NEW en \in Entries, Stands(ps, k, en)
  PROVE  /\ Stands(ps, k, Unregistered(en))
         /\ Stands(ps, k, Accepted(en))
         /\ Stands(ps, k, Refused(en))
<1>1. Unregistered(en).event = en.event /\ Unregistered(en).status = "dead_letter"
  BY DEF Unregistered, Entries
<1>2. Accepted(en).event = en.event /\ Accepted(en).status = "delivered"
  BY DEF Accepted, Entries
<1>3. Refused(en).event = en.event /\ Refused(en).status \in {"dead_letter", "pending"}
  BY DEF Refused, Entries
<1> QED
  BY Zenon, <1>1, <1>2, <1>3 DEF Stands

LEMMA TailItems ==
  ASSUME NEW S, NEW q \in Seq(S), q # <<>>, NEW i \in 1 .. Len(Tail(q))
  PROVE  i + 1 \in 1 .. Len(q) /\ Tail(q)[i] = q[i + 1]
  OBVIOUS

LEMMA DeliverQueue ==
  ASSUME TypeIInv, QueueInv, NEW g \in Gens, Deliver(g)
  PROVE  QueueInv'
<1> DEFINE item == Head(loop[g].todo)
           rest == Tail(loop[g].todo)
<1>1. loop[g].pc = "deliver" /\ item \in Items
  BY Zenon, HeadType DEF Deliver
<1>2. item.key \in Keys /\ item.entry \in Entries
  BY <1>1 DEF Items
<1>3. loop[g].todo \in Seq(Items) /\ loop[g].todo # <<>>
  BY <1>1 DEF TypeIInv, TypeOK, LoopReady, Loops
<1>4. item = loop[g].todo[1] /\ 1 \in 1 .. Len(loop[g].todo)
  BY Zenon, <1>3, HeadItem
<1>5. Stands(pub, item.key, item.entry)
  BY <1>4 DEF QueueInv, CopiesStand
<1>6. PICK en \in Entries : Hold(g, en) /\ Stands(pub, item.key, en)
  BY Zenon, <1>2, <1>5, OutcomeType, OutcomeStands DEF Deliver
<1>7. /\ loop'[g].hold = [key |-> item.key, entry |-> en]
      /\ \A h \in Gens \ {g} : loop'[h] = loop[h]
  BY Zenon, <1>1, <1>6, HoldType
<1>8. loop'[g].todo = rest
  BY <1>6 DEF Hold, TypeIInv, TypeOK, Loops
<1>9. UNCHANGED <<pub, lastID, redrive, outbox>>
  BY Zenon DEF Deliver
<1>10. ASSUME NEW i \in 1 .. Len(rest) PROVE Stands(pub, rest[i].key, rest[i].entry)
  <2>1. i + 1 \in 1 .. Len(loop[g].todo) /\ rest[i] = loop[g].todo[i + 1]
    BY <1>3, TailItems
  <2> QED
    BY Zenon, <2>1 DEF QueueInv, CopiesStand
<1>11. LoopStands(g)'
  <2> HIDE DEF rest
  <2>1. \A i \in 1 .. Len(loop'[g].todo) :
          Stands(pub', loop'[g].todo[i].key, loop'[g].todo[i].entry)
    BY <1>8, <1>9, <1>10
  <2>2. Stands(pub', loop'[g].hold.key, loop'[g].hold.entry)
    <3>1. loop'[g].hold.key = item.key /\ loop'[g].hold.entry = en
      BY <1>7
    <3> QED
      BY Zenon, <1>6, <1>9, <3>1
  <2> QED
    BY <2>1, <2>2 DEF LoopStands
<1> QED
  BY Zenon, <1>7, <1>9, <1>11, LoopStep, OtherStep DEF QueueInv, WritesStand

LEMMA SaveQueue ==
  ASSUME TypeIInv, QueueInv, NEW g \in Gens, Save(g)
  PROVE  QueueInv'
<1> DEFINE key == loop[g].hold.key
           en == loop[g].hold.entry
<1>1. Stands(pub, key, en)
  BY DEF Save, QueueInv, CopiesStand
<1>2. outbox' = outbox \/ outbox' = [outbox EXCEPT ![Db(g)][key] = en]
  BY DEF Save
<1>3. UNCHANGED <<pub, lastID, redrive>>
  BY DEF Save
<1> HIDE DEF en, key
<1>4. WritesStand
  <2>1. \A d \in Gens, k \in Keys :
          outbox'[d][k] = outbox[d][k] \/ (k = key /\ outbox'[d][k] = en)
    BY <1>2 DEF TypeIInv, TypeOK
  <2> QED
    BY <1>1, <1>3, <2>1 DEF WritesStand
<1>5. loop'[g].pc # "save" /\ \A h \in Gens \ {g} : loop'[h] = loop[h]
  BY SaveType
<1>6. loop'[g].todo = loop[g].todo
  BY DEF Save, TypeIInv, TypeOK, Loops
<1>7. LoopStands(g)'
  BY <1>3, <1>5, <1>6 DEF LoopStands, QueueInv, CopiesStand
<1> QED
  BY <1>3, <1>4, <1>5, <1>7, LoopStep, OtherStep DEF QueueInv

\* Loops that are started, cancelled or ended take no new copies.
LEMMA ControlQueue ==
  ASSUME TypeIInv, QueueInv,
         \/ \E g \in Gens : Exit(g) \/ RequestEnds(g)
         \/ \E ts \in SUBSET Sinks, local \in OutputChoices : SwapStart(ts, local)
         \/ SwapReplace
  PROVE  QueueInv'
<1>1. UNCHANGED <<pub, lastID, redrive, outbox>>
  BY DEF Exit, RequestEnds, SwapStart, SwapReplace
<1>2. LoopsKeepHold
  BY OthersKeepHold
<1>3. NoLoop.todo = <<>> /\ RunningLoop.todo = <<>>
  BY DEF NoLoop, RunningLoop
<1>4. \A g \in Gens : loop'[g].todo = loop[g].todo \/ loop'[g].todo = <<>>
  <2>1. ASSUME NEW g \in Gens, Exit(g)
        PROVE  \A h \in Gens : loop'[h].todo = loop[h].todo \/ loop'[h].todo = <<>>
    BY Zenon, <1>3, <2>1 DEF Exit, TypeIInv, TypeOK
  <2>2. ASSUME NEW g \in Gens, RequestEnds(g)
        PROVE  \A h \in Gens : loop'[h].todo = loop[h].todo
    BY <2>2 DEF RequestEnds, TypeIInv, TypeOK, Loops
  <2>3. ASSUME NEW ts \in SUBSET Sinks, NEW local \in OutputChoices, SwapStart(ts, local)
        PROVE  \A h \in Gens : loop'[h].todo = loop[h].todo \/ loop'[h].todo = <<>>
    BY Zenon, <1>3, <2>3 DEF SwapStart, TypeIInv, TypeOK
  <2>4. CASE SwapReplace
    BY <2>4 DEF SwapReplace, TypeIInv, TypeOK, Loops
  <2> QED
    BY <2>1, <2>2, <2>3, <2>4
<1>5. \A g \in Gens : \A i \in 1 .. Len(loop'[g].todo) :
        Stands(pub', loop'[g].todo[i].key, loop'[g].todo[i].entry)
  <2> SUFFICES ASSUME NEW g \in Gens, NEW i \in 1 .. Len(loop'[g].todo)
               PROVE  Stands(pub', loop'[g].todo[i].key, loop'[g].todo[i].entry)
    BY Zenon
  <2>1. loop'[g].todo = loop[g].todo
    BY <1>4
  <2> QED
    BY Zenon, <1>1, <2>1 DEF QueueInv, CopiesStand
<1>6. CopiesStand'
  BY Zenon, <1>1, <1>2, <1>5 DEF LoopsKeepHold, QueueInv, CopiesStand
<1> QED
  BY <1>1, <1>6, OtherStep DEF WritesStand

LEMMA RedriveQueue ==
  ASSUME TypeIInv, QueueInv, NEW k \in Keys, NEW reset \in BOOLEAN, Redrive(k, reset)
  PROVE  QueueInv'
<1> DEFINE old == outbox[Db(cur)][k]
           en == Redriven(old, reset)
           item == [key |-> k, entry |-> en]
<1>1. Db(cur) \in Gens /\ old \in Entries
  BY DbType DEF TypeIInv, TypeOK
<1>2. Stands(pub, k, old)
  BY <1>1 DEF Redrive, QueueInv, EntriesStand
<1>3. en.status = "pending" /\ en.event = old.event
  BY <1>1 DEF Redriven, Entries
<1>4. Stands(pub, k, en)
  BY Zenon, <1>2, <1>3 DEF Stands
<1>5. item.key = k /\ item.entry = en
  OBVIOUS
<1>6. \/ outbox' = outbox /\ redrive' = [pc |-> "save", db |-> Db(cur), item |-> item]
      \/ outbox' = [outbox EXCEPT ![Db(cur)][k] = en] /\ redrive' = redrive
  BY DEF Redrive
<1>7. UNCHANGED <<pub, lastID, loop>>
  BY DEF Redrive
<1> HIDE DEF en, item, old
<1>8. WritesStand
  <2>1. outbox \in [Gens -> [Keys -> Entries]]
    BY Zenon DEF TypeIInv, TypeOK
  <2>2. outbox' = outbox \/ outbox' = [outbox EXCEPT ![Db(cur)][k] = en]
    BY Zenon, <1>6
  <2>3. \A d \in Gens, j \in Keys :
          outbox'[d][j] = outbox[d][j] \/ (j = k /\ outbox'[d][j] = en)
    BY <2>1, <2>2, OutboxWrite
  <2> QED
    BY <1>4, <1>7, <2>3 DEF WritesStand
<1>9. redrive'.pc = "save" => Stands(pub', redrive'.item.key, redrive'.item.entry)
  BY <1>4, <1>5, <1>6, <1>7 DEF QueueInv, CopiesStand
<1>10. CopiesStand'
  BY Zenon, <1>7, <1>9 DEF QueueInv, CopiesStand
<1> QED
  BY <1>7, <1>8, <1>10, OtherStep

LEMMA RedriveSaveQueue ==
  ASSUME TypeIInv, QueueInv, RedriveSave
  PROVE  QueueInv'
<1> DEFINE en == redrive.item.entry
           key == redrive.item.key
<1>1. Stands(pub, key, en)
  BY DEF RedriveSave, QueueInv, CopiesStand
<1>2. outbox' = [outbox EXCEPT ![redrive.db][key] = en]
  BY DEF RedriveSave
<1>3. UNCHANGED <<pub, lastID, loop>> /\ redrive'.pc = "idle"
  BY DEF RedriveSave, NoRedrive
<1> HIDE DEF en, key
<1>4. WritesStand
  <2>1. \A d \in Gens, k \in Keys :
          outbox'[d][k] = outbox[d][k] \/ (k = key /\ outbox'[d][k] = en)
    BY <1>2 DEF TypeIInv, TypeOK
  <2> QED
    BY <1>1, <1>3, <2>1 DEF WritesStand
<1>5. CopiesStand'
  BY <1>3 DEF QueueInv, CopiesStand
<1> QED
  BY <1>3, <1>4, <1>5, OtherStep

LEMMA NextQueue ==
  ASSUME MaxRestarts = 0
  PROVE  TypeIInv /\ QueueInv /\ [Next]_vars => QueueInv'
<1> SUFFICES ASSUME TypeIInv, QueueInv, [Next]_vars PROVE QueueInv'
  OBVIOUS
<1>1. CASE Tick \/ UNCHANGED vars
  <2>1. UNCHANGED <<pub, lastID, outbox, loop, redrive>>
    BY <1>1 DEF Tick, vars
  <2>2. CopiesStand'
    BY <2>1, CopiesStay DEF QueueInv, PubsGrow
  <2> QED
    BY <2>1, <2>2, OtherStep DEF WritesStand
<1>2. ASSUME NEW e \in Events, OutputFails(e) PROVE QueueInv'
  <2>1. /\ pub[e].pc = "enqueue" /\ pub' = [pub EXCEPT ![e].pc = "failed"]
        /\ UNCHANGED <<lastID, outbox, loop, redrive>>
    BY <1>2 DEF OutputFails
  <2>2. WritesStand
    BY <2>1 DEF WritesStand
  <2> QED
    BY Zenon, <2>1, <2>2, FailsQueue
<1>3. ASSUME NEW e \in Events, NEW s \in Sinks, EnqueueFails(e, s) PROVE QueueInv'
  <2>1. /\ pub[e].pc = "enqueue" /\ pub' = [pub EXCEPT ![e].pc = "failed"]
        /\ Insert(e, s) \/ UNCHANGED outbox
        /\ UNCHANGED <<lastID, loop, redrive>>
    BY <1>3 DEF EnqueueFails
  <2>2. pub[e].id \in Ids
    BY <2>1 DEF QueueInv, PublishersInv
  <2>3. PubsGrow => WritesStand
    BY Zenon, <2>1, <2>2, InsertStands
  <2> QED
    BY Zenon, <2>1, <2>3, FailsQueue
<1>4. ~Restart
  BY DEF Restart, TypeIInv, TypeOK
<1> QED
  BY <1>1, <1>2, <1>3, <1>4, PublishQueue, EnqueueQueue, DueQueue, DeliverQueue, SaveQueue,
     ControlQueue, RedriveQueue, RedriveSaveQueue, Zenon DEF Next

\* In one lifetime of the process an event that Handle has taken without an error is in
\* the outbox for every sink configured then, through every delivery, redrive and refresh
\* (Handle, Enqueue). Restarts are excluded: they begin the event ids again.
THEOREM HandledMeansQueued ==
  ASSUME MaxRestarts = 0
  PROVE  Spec => []HandledIsQueued
<1>1. TypeIInv /\ QueueInv => HandledIsQueued
  BY QueueImplies
<1>2. TypeIInv /\ QueueInv /\ [Next]_vars => QueueInv'
  BY NextQueue
<1> QED
  BY InitQueue, <1>1, <1>2, TypeAlways, PTL DEF Spec

=============================================================================
