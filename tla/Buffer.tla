------------------------------- MODULE Buffer -------------------------------
(* observe.Buffer: a bounded channel between the fibers that emit events and *)
(* one worker goroutine that delivers them, closed by Flush under a          *)
(* read-write lock.  Every step below is one that other goroutines can see:  *)
(* a lock taken or released, a channel operation, an atomic addition, the    *)
(* start or the end of a call to the observer behind the buffer.             *)
EXTENDS Integers, Sequences, FiniteSets, Functions

CONSTANTS Fibers,     \* the fibers that call Observe
          Owners,     \* the callers of Flush
          Capacity,   \* make(chan delivery, capacity)
          Overflows,  \* the policies NewBuffer may be given
          MaxEvents   \* bound: calls of Observe per fiber

Policies == {"DropNewest", "DropOldest", "Block"}

ASSUME BufferAssumption == /\ IsFiniteSet(Fibers)
                           /\ Capacity \in Nat \ {0}
                           /\ Overflows \subseteq Policies
                           /\ MaxEvents \in Nat

VARIABLES overflow,  \* the policy of a full queue, chosen when the buffer is made
          queue,     \* the channel's contents, oldest first
          stopped,   \* set together with close(queue) under the exclusive lock
          drops,     \* the atomic counter Drops reads
          pc,        \* where each fiber is inside Observe
          emitted,   \* how many events each fiber has emitted
          worker,    \* the worker goroutine; "exited" is a closed done channel
          opc,       \* where each owner is inside Flush
          delivered, \* history: the events the worker began delivering, in order
          inlined    \* history: the events delivered on the emitting fiber

vars == <<overflow, queue, stopped, drops, pc, emitted, worker, opc, delivered, inlined>>

\* The i-th event of fiber f is <<f, i>>.
Event == Fibers \X (1..MaxEvents)
Item(f) == <<f, emitted[f]>>

\* The definitions named ...Mutant are bugs this code could have had, each beside
\* the definition it would replace; no action uses them.

\* Inside the read lock: between Admit and the deferred RUnlock.
Sending == {"offering", "evicting", "counting", "retrying"}
ReadingMutant(f) == pc[f] = "inline"      \* offer made after the unlock
Reading(f) == pc[f] \in Sending \cup {"inline"}

\* Lock has been called and not granted: a new RLock waits behind it.
WriterWaits == \E o \in Owners : opc[o] = "locking"

FullMutant == Len(queue) > Capacity       \* one more than the capacity
Full == Len(queue) >= Capacity

Init == /\ overflow \in Overflows
        /\ queue = <<>>
        /\ stopped = FALSE
        /\ drops = 0
        /\ pc = [f \in Fibers |-> "idle"]
        /\ emitted = [f \in Fibers |-> 0]
        /\ worker = "ranging"
        /\ opc = [o \in Owners |-> "idle"]
        /\ delivered = <<>>
        /\ inlined = {}

-----------------------------------------------------------------------------
(* Observe and offer, on the emitting fiber.                                 *)

Goto(f, where) == pc' = [pc EXCEPT ![f] = where]

\* The fiber calls Observe and waits for the read lock.
Observe(f) == /\ pc[f] = "idle"
              /\ emitted[f] < MaxEvents
              /\ emitted' = [emitted EXCEPT ![f] = @ + 1]
              /\ Goto(f, "entering")
              /\ UNCHANGED <<overflow, queue, stopped, drops, worker, opc, delivered, inlined>>

\* The read lock is granted and the buffer still runs: offer the event.
Admit(f) == /\ pc[f] = "entering"
            /\ ~WriterWaits
            /\ ~stopped
            /\ Goto(f, "offering")
            /\ UNCHANGED <<overflow, queue, stopped, drops, emitted, worker, opc, delivered, inlined>>

\* The read lock is granted and Flush has been here: call the observer directly.
AdmitInlineMutant(f) == /\ pc[f] = "entering"       \* Flush treated as the end
                        /\ ~WriterWaits
                        /\ stopped
                        /\ Goto(f, "idle")
                        /\ UNCHANGED <<overflow, queue, stopped, drops, emitted, worker, opc, delivered, inlined>>
AdmitInline(f) == /\ pc[f] = "entering"
                  /\ ~WriterWaits
                  /\ stopped
                  /\ inlined' = inlined \cup {Item(f)}
                  /\ Goto(f, "inline")
                  /\ UNCHANGED <<overflow, queue, stopped, drops, emitted, worker, opc, delivered>>

InlineReturn(f) == /\ pc[f] = "inline"
                   /\ Goto(f, "idle")
                   /\ UNCHANGED <<overflow, queue, stopped, drops, emitted, worker, opc, delivered, inlined>>

\* The send goes through: the blocking one, the first attempt or the second.
SendMutant(f) == /\ pc[f] \in {"offering", "retrying"}   \* return forgotten
                 /\ ~Full
                 /\ queue' = Append(queue, Item(f))
                 /\ Goto(f, IF pc[f] = "offering" THEN "evicting" ELSE "idle")
                 /\ UNCHANGED <<overflow, stopped, drops, emitted, worker, opc, delivered, inlined>>
Send(f) == /\ pc[f] \in {"offering", "retrying"}
           /\ ~Full
           /\ queue' = Append(queue, Item(f))
           /\ Goto(f, "idle")
           /\ UNCHANGED <<overflow, stopped, drops, emitted, worker, opc, delivered, inlined>>

\* The first send finds the queue full and DropOldest goes on to make room.
MakeRoomMutant(f) == /\ pc[f] = "offering"          \* nothing taken out
                     /\ overflow = "DropOldest"
                     /\ Full
                     /\ Goto(f, "retrying")
                     /\ UNCHANGED <<overflow, queue, stopped, drops, emitted, worker, opc, delivered, inlined>>
MakeRoom(f) == /\ pc[f] = "offering"
               /\ overflow = "DropOldest"
               /\ Full
               /\ Goto(f, "evicting")
               /\ UNCHANGED <<overflow, queue, stopped, drops, emitted, worker, opc, delivered, inlined>>

\* Receive one event and discard it; the drop is counted in a step of its own.
Evict(f) == /\ pc[f] = "evicting"
            /\ queue # <<>>
            /\ queue' = Tail(queue)
            /\ Goto(f, "counting")
            /\ UNCHANGED <<overflow, stopped, drops, emitted, worker, opc, delivered, inlined>>

EvictNothing(f) == /\ pc[f] = "evicting"
                   /\ queue = <<>>
                   /\ Goto(f, "retrying")
                   /\ UNCHANGED <<overflow, queue, stopped, drops, emitted, worker, opc, delivered, inlined>>

CountEvictionMutant(f) == /\ pc[f] = "counting"       \* the addition forgotten
                          /\ Goto(f, "retrying")
                          /\ UNCHANGED <<overflow, queue, stopped, drops, emitted, worker, opc, delivered, inlined>>
CountEviction(f) == /\ pc[f] = "counting"
                    /\ drops' = drops + 1
                    /\ Goto(f, "retrying")
                    /\ UNCHANGED <<overflow, queue, stopped, emitted, worker, opc, delivered, inlined>>

\* The arriving event is discarded: at once under DropNewest, after a failed
\* second attempt under DropOldest, never under Block.
LastAttempt == IF overflow = "DropNewest" THEN "offering" ELSE "retrying"

RefuseMutant(f) == /\ pc[f] = "offering"             \* the Block branch lost
                   /\ Full
                   /\ drops' = drops + 1
                   /\ Goto(f, "idle")
                   /\ UNCHANGED <<overflow, queue, stopped, emitted, worker, opc, delivered, inlined>>
Refuse(f) == /\ overflow # "Block"
             /\ pc[f] = LastAttempt
             /\ Full
             /\ drops' = drops + 1
             /\ Goto(f, "idle")
             /\ UNCHANGED <<overflow, queue, stopped, emitted, worker, opc, delivered, inlined>>

-----------------------------------------------------------------------------
(* deliver, on the worker goroutine.                                         *)

WorkerReceive == /\ worker = "ranging"
                 /\ queue # <<>>
                 /\ delivered' = Append(delivered, Head(queue))
                 /\ queue' = Tail(queue)
                 /\ worker' = "delivering"
                 /\ UNCHANGED <<overflow, stopped, drops, pc, emitted, opc, inlined>>

WorkerReturn == /\ worker = "delivering"
                /\ worker' = "ranging"
                /\ UNCHANGED <<overflow, queue, stopped, drops, pc, emitted, opc, delivered, inlined>>

\* range ends on a closed, empty channel; the deferred close(done) follows.
WorkerExitMutant == /\ worker = "ranging"           \* stop signal beats the queue
                    /\ stopped
                    /\ worker' = "exited"
                    /\ UNCHANGED <<overflow, queue, stopped, drops, pc, emitted, opc, delivered, inlined>>
WorkerExit == /\ worker = "ranging"
              /\ queue = <<>>
              /\ stopped
              /\ worker' = "exited"
              /\ UNCHANGED <<overflow, queue, stopped, drops, pc, emitted, opc, delivered, inlined>>

-----------------------------------------------------------------------------
(* Flush, on an owner's goroutine.                                           *)

FlushGoto(o, where) == opc' = [opc EXCEPT ![o] = where]

\* Lock is called: one writer at a time, and from here new readers wait.
FlushLock(o) == /\ opc[o] = "idle"
                /\ ~WriterWaits
                /\ FlushGoto(o, "locking")
                /\ UNCHANGED <<overflow, queue, stopped, drops, pc, emitted, worker, delivered, inlined>>

\* The lock is granted to the first Flush: stop, close the queue, unlock.
FlushStop(o) == /\ opc[o] = "locking"
                /\ \A f \in Fibers : ~Reading(f)
                /\ ~stopped
                /\ stopped' = TRUE
                /\ FlushGoto(o, "waiting")
                /\ UNCHANGED <<overflow, queue, drops, pc, emitted, worker, delivered, inlined>>

\* The lock is granted to a later Flush: nothing to do, return nil.
FlushAgainMutant(o) == /\ opc[o] = "locking"        \* early return keeps the lock
                       /\ \A f \in Fibers : ~Reading(f)
                       /\ stopped
                       /\ UNCHANGED vars
FlushAgain(o) == /\ opc[o] = "locking"
                 /\ \A f \in Fibers : ~Reading(f)
                 /\ stopped
                 /\ FlushGoto(o, "again")
                 /\ UNCHANGED <<overflow, queue, stopped, drops, pc, emitted, worker, delivered, inlined>>

\* <-buffer.done: return nil.
FlushDrained(o) == /\ opc[o] = "waiting"
                   /\ worker = "exited"
                   /\ FlushGoto(o, "drained")
                   /\ UNCHANGED <<overflow, queue, stopped, drops, pc, emitted, worker, delivered, inlined>>

\* <-ctx.Done(): the owner's deadline passes, return its error.
FlushExpire(o) == /\ opc[o] = "waiting"
                  /\ FlushGoto(o, "expired")
                  /\ UNCHANGED <<overflow, queue, stopped, drops, pc, emitted, worker, delivered, inlined>>

-----------------------------------------------------------------------------
Offer(f) == \/ Send(f) \/ MakeRoom(f) \/ Evict(f) \/ EvictNothing(f)
            \/ CountEviction(f) \/ Refuse(f)

FiberStep(f) == Admit(f) \/ AdmitInline(f) \/ InlineReturn(f) \/ Offer(f)

WorkerStep == WorkerReceive \/ WorkerReturn \/ WorkerExit

FlushStep(o) == FlushStop(o) \/ FlushAgain(o) \/ FlushDrained(o)

\* Everything is over: a state the system may rest in, not a deadlock.
Terminated == /\ \A f \in Fibers : pc[f] = "idle" /\ emitted[f] = MaxEvents
              /\ \A o \in Owners : opc[o] \in {"drained", "again", "expired"}
              /\ worker = "exited"
              /\ UNCHANGED vars

Next == \/ \E f \in Fibers : Observe(f) \/ FiberStep(f)
        \/ WorkerStep
        \/ \E o \in Owners : FlushLock(o) \/ FlushStep(o) \/ FlushExpire(o)
        \/ Terminated

\* A goroutine that can run does, and a blocked channel sender is served in
\* turn (the channel's queue of senders is first come, first served).  Nothing
\* obliges a fiber to emit, an owner to flush or a deadline to pass.
Fairness == /\ \A f \in Fibers : WF_vars(FiberStep(f)) /\ SF_vars(Send(f))
            /\ WF_vars(WorkerStep)
            /\ \A o \in Owners : WF_vars(FlushStep(o))

Spec == Init /\ [][Next]_vars /\ Fairness
-----------------------------------------------------------------------------
(* Safety.                                                                   *)

\* The type invariant; an event in hand has a number, so Item(f) is an event.
TypeOK == /\ overflow \in Overflows
          /\ queue \in Seq(Event)
          /\ Len(queue) <= Capacity
          /\ stopped \in BOOLEAN
          /\ drops \in Nat
          /\ pc \in [Fibers -> {"idle", "entering", "inline"} \cup Sending]
          /\ emitted \in [Fibers -> 0..MaxEvents]
          /\ worker \in {"ranging", "delivering", "exited"}
          /\ opc \in [Owners -> {"idle", "locking", "waiting",
                                 "again", "drained", "expired"}]
          /\ delivered \in Seq(Event)
          /\ inlined \in SUBSET Event
          /\ \A f \in Fibers : pc[f] # "idle" => emitted[f] > 0

\* No fiber is at a channel operation of its own once the channel is closed:
\* a send would panic and a receive would steal what Flush promised to drain.
\* Flush excludes it by closing the queue only under the exclusive lock.
NoSendOnClosed == stopped => \A f \in Fibers : pc[f] \notin Sending

Emitted == {e \in Event : e[2] <= emitted[e[1]]}
InHand == {Item(f) : f \in {g \in Fibers : pc[g] \notin {"idle", "inline"}}}
Missing == Emitted \ (InHand \cup Range(queue) \cup Range(delivered) \cup inlined)

\* Drops is an honest account: it is the number of events that were emitted and
\* are neither delivered, nor queued, nor still in their fiber's hands -- short
\* only of the evictions whose atomic addition has not happened yet.
DropsAccountForLosses ==
    Cardinality(Missing) = drops + Cardinality({f \in Fibers : pc[f] = "counting"})

\* What the worker delivers keeps each fiber's own order and repeats nothing,
\* through evictions, refusals and shutdown; and what was delivered on the
\* emitting fiber never went through the queue as well.
Arrivals == delivered \o queue
FiberOrder == /\ \A i, j \in DOMAIN Arrivals :
                    i < j /\ Arrivals[i][1] = Arrivals[j][1]
                        => Arrivals[i][2] < Arrivals[j][2]
              /\ Range(Arrivals) \cap (inlined \cup InHand) = {}

\* A Flush that waited and returned nil has left nothing behind: the worker is
\* gone, the queue is empty, and no fiber is about to put an event into it.
DrainedMeansDelivered ==
    (\E o \in Owners : opc[o] = "drained")
        => /\ queue = <<>>
           /\ worker = "exited"
           /\ \A f \in Fibers : pc[f] \notin Sending

\* After Flush has stopped the buffer no event is lost any more: what is queued
\* is delivered and what arrives later is delivered where it stands.
StopEndsLoss == [][stopped => Missing' = Missing /\ drops' = drops]_vars

\* DropOldest: an arriving event is refused only to a rival.  The queue it finds
\* full a second time ends with an event another fiber sent meanwhile, so the
\* newest event of a fiber that emits alone is never the one discarded.
RefusalNeedsRival ==
    [][\A f \in Fibers : pc[f] = "retrying" /\ Item(f) \in Missing'
          => /\ Len(queue) = Capacity
             /\ queue[Capacity][1] # f]_vars

\* The buffer implements the abstract delivery line: a loss is one the policy
\* allows (none under Block, under DropNewest none of what is already queued),
\* delivery is first in first out, and nothing is accepted after the stop.
Line == INSTANCE Delivery
            WITH waiting <- queue, direct <- inlined, lost <- Missing,
                 closed <- stopped, policy <- overflow, Policies <- Overflows
ImplementsDelivery == Line!Safety

-----------------------------------------------------------------------------
(* Liveness, under Fairness.                                                 *)

\* What waits is delivered or, under DropOldest, evicted in the end, also when
\* nobody emits or flushes any more: the other half of the abstract line.
QueueIsDelivered == Line!Liveness

\* Every call returns: Observe, although a fiber is held up by a full queue, by a
\* Flush waiting for the lock and by the worker; and Flush even when its deadline
\* never passes, although it has to wait for the fibers blocked on a full queue,
\* which wait for the worker.
CallsReturn ==
    /\ \A f \in Fibers : pc[f] = "entering" ~> pc[f] = "idle"
    /\ \A o \in Owners : opc[o] = "locking" ~> opc[o] \in {"again", "drained", "expired"}

-----------------------------------------------------------------------------
(* What the documentation says and the code does not do.                     *)

=============================================================================
