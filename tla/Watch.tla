-------------------------------- MODULE Watch --------------------------------
(* examples/telemetry.Watch: the observers of one program assembled,         *)
(*     Fanout(Spans, Fibers, Buffer(Fanout(Collector, Recent), DropOldest)), *)
(* and installed in a runtime whose fibers emit events and whose Close       *)
(* flushes the assembly before it emits runtime_closed.  What a reader gets  *)
(* from the live trackers, from the aggregate and from the window are        *)
(* answers about one program given at different distances from it.           *)
EXTENDS Integers, FiniteSetsExt, Assemble

CONSTANTS Emitters,    \* the goroutines that call the observer, Main among them
          Main,        \* the one that calls Runtime.Close
          Scripts,     \* what each of them emits, in order: one of these
          SpanIDs,     \* the spans of the run
          Kinds,       \* the kinds of event in the scripts
          QueueRoom,   \* the buffer's capacity (1024 in the code)
          Remembered   \* NewWatch's window

\* What the effect runtime makes of a program: emitters emit events of the known
\* kinds, each at a time, and a span is ended by the fiber that began it, after it
\* began.
IsProgram(s) ==
    /\ \A f \in Emitters : s[f] \in Seq(Range(s[f]))
    /\ \A f \in Emitters : \A i \in DOMAIN s[f] :
          /\ s[f][i].Kind \in Kinds /\ s[f][i].Timestamp \in Nat
          /\ s[f][i].Kind \in {"started", "ended"} => s[f][i].SpanID \in SpanIDs
    /\ \A f, g \in Emitters : \A i \in DOMAIN s[f], j \in DOMAIN s[g] :
          /\ s[f][i].Kind = "started" /\ s[g][j].Kind = "ended"
          /\ s[f][i].SpanID = s[g][j].SpanID
          => f = g /\ i < j

ASSUME WatchAssumption == /\ IsFiniteSet(Emitters) /\ Main \in Emitters
                          /\ "worker" \notin Emitters
                          /\ IsFiniteSet(Kinds)
                          /\ IsFiniteSet(Scripts) /\ Scripts # {}
                          /\ \A s \in Scripts : IsProgram(s)
                          /\ QueueRoom \in Nat \ {0} /\ Remembered \in Nat \ {0}

VARIABLES overflow, queue, stopped, drops, pc, emitted,      \* the Buffer, as in
          worker, opc, delivered, inlined,                   \*   its own module
          open, order, next, starts, ends,                   \* Spans
          live, fiberStarts, fiberEnds,                      \* Fibers
          counts,                                            \* Collector: kind -> events
          kept, count,                                       \* the window
          script,    \* the program of this run
          sent,      \* how many events each emitter has emitted
          at,        \* the observer in front it hands its event to next
          inner      \* the observer behind the queue a deliverer hands to next

buffer == <<overflow, queue, stopped, drops, pc, emitted, worker, opc, delivered, inlined>>
spans == <<open, order, next, starts, ends>>
fibers == <<live, fiberStarts, fiberEnds>>
window == <<kept, count>>
observed == <<spans, fibers, counts, window>>
vars == <<buffer, observed, script, sent, at, inner>>

\* The definitions named ...Mutant are bugs this code could have had, each beside
\* the definition it would replace; no action uses them.
layoutMutant == [front |-> <<"fibers", "buffer">>,       \* the spans behind the queue
                 behind |-> <<"spans", "collector", "window">>]

\* Which observer is given which: the live trackers are not behind the queue.
layout == [front |-> <<"spans", "fibers", "buffer">>,
           behind |-> <<"collector", "window">>]

Outside == Len(layout.front) + 1

Longest == Max({Len(c[1][c[2]]) : c \in Scripts \X Emitters})

Queue == INSTANCE Buffer
            WITH Fibers <- Emitters, Owners <- {Main}, Capacity <- QueueRoom,
                 Overflows <- {"DropOldest"},
                 MaxEvents <- Longest

\* The trackers' own steps; time is abstracted from, Trace and Spans are about it.
IDs == SpanIDs
LiveSpans == INSTANCE Spans
                WITH Limit <- 0, stage <- [s \in IDs |-> "running"],
                     stamped <- [s \in IDs |-> 0], now <- 0, seen <- <<>>
LiveFibers == INSTANCE Fibers
                WITH MaxFibers <- Cardinality(Emitters), Limit <- 0,
                     starts <- fiberStarts, ends <- fiberEnds,
                     stage <- <<>>, parent <- [f \in Emitters |-> 0],
                     stamped <- [f \in Emitters |-> 0], now <- 0,
                     installed <- TRUE, seen <- {}
Recent == INSTANCE Window WITH room <- Remembered, Thing <- Emitters \X Nat

EventOf(item) == script[item[1]][item[2]]
Item(f) == <<f, sent[f]>>

Deliverers == Emitters \cup {"worker"}

\* NewWatch.
Init == /\ Queue!Init
        /\ open = <<>> /\ order = <<>> /\ next = 0 /\ starts = 0 /\ ends = 0
        /\ live = <<>> /\ fiberStarts = 0 /\ fiberEnds = 0
        /\ counts = [kind \in Kinds |-> 0]
        /\ Recent!Init
        /\ script \in Scripts
        /\ sent = [f \in Emitters |-> 0]
        /\ at = [f \in Emitters |-> Outside]
        /\ inner = [a \in Deliverers |-> 1]

-----------------------------------------------------------------------------
(* What each observer does with an event.                                    *)

SpansObserve(item) ==
    LET event == EventOf(item)
    IN  CASE event.Kind = "started" -> LiveSpans!begin(event.SpanID)
          [] event.Kind = "ended" -> LiveSpans!finish(event.SpanID)
          [] OTHER -> UNCHANGED spans

FibersObserve(item) ==
    CASE EventOf(item).Kind = "fiber_started" -> LiveFibers!begin(item[1])
      [] EventOf(item).Kind = "fiber_completed" -> LiveFibers!finish(item[1])
      [] OTHER -> UNCHANGED fibers

Give(observer, item) ==
    /\ IF observer = "spans" THEN SpansObserve(item) ELSE UNCHANGED spans
    /\ IF observer = "fibers" THEN FibersObserve(item) ELSE UNCHANGED fibers
    /\ IF observer = "collector" THEN counts' = [counts EXCEPT ![EventOf(item).Kind] = @ + 1]
       ELSE UNCHANGED counts
    /\ IF observer = "window" THEN Recent!Arrive(item) ELSE UNCHANGED window

-----------------------------------------------------------------------------
(* The walk in front of the queue, on the goroutine that emits.              *)

Closed == opc[Main] \in {"drained", "expired", "again"}

\* The runtime reports an event; runtime_closed only once Flush has returned.
Emit(f) == /\ at[f] = Outside /\ pc[f] = "idle"
           /\ sent[f] < Len(script[f])
           /\ f = Main /\ sent[f] + 1 = Len(script[f]) => Closed
           /\ f = Main /\ sent[f] + 1 < Len(script[f]) => opc[Main] = "idle"
           /\ sent' = [sent EXCEPT ![f] = @ + 1]
           /\ at' = [at EXCEPT ![f] = 1]
           /\ UNCHANGED <<buffer, observed, script, inner>>

\* The next observer in front takes it; the Buffer's Observe has steps of its own.
Hand(f) == /\ at[f] \in DOMAIN layout.front /\ pc[f] = "idle"
           /\ LET observer == layout.front[at[f]]
              IN  IF observer = "buffer" THEN Queue!Observe(f) /\ UNCHANGED observed
                  ELSE Give(observer, Item(f)) /\ UNCHANGED buffer
           /\ at' = [at EXCEPT ![f] = @ + 1]
           /\ UNCHANGED <<script, sent, inner>>

\* A fiber inside the Buffer; delivering inline is a step of its own.
Offer(f) == /\ Queue!Admit(f) \/ Queue!AdmitInline(f) \/ Queue!Offer(f)
            /\ UNCHANGED <<observed, script, sent, at, inner>>

-----------------------------------------------------------------------------
(* The walk behind it, by the worker and by fibers delivering inline, at once. *)

Delivering(a) == IF a = "worker" THEN worker = "delivering" ELSE pc[a] = "inline"
InHandOf(a) == IF a = "worker" THEN Last(delivered) ELSE <<a, emitted[a]>>

Deliver(a) ==
    /\ Delivering(a)
    /\ Give(layout.behind[inner[a]], InHandOf(a))
    /\ IF inner[a] < Len(layout.behind)
       THEN inner' = [inner EXCEPT ![a] = @ + 1] /\ UNCHANGED buffer
       ELSE /\ inner' = [inner EXCEPT ![a] = 1]
            /\ IF a = "worker" THEN Queue!WorkerReturn ELSE Queue!InlineReturn(a)
    /\ UNCHANGED <<script, sent, at>>

Receive == /\ Queue!WorkerReceive \/ Queue!WorkerExit
           /\ UNCHANGED <<observed, script, sent, at, inner>>

-----------------------------------------------------------------------------
(* Runtime.Close flushes the observer it was given, which flushes the Buffer:  *)
(* of the targets of the Fanout in front it is the only Flusher.             *)

Close == /\ at[Main] = Outside /\ pc[Main] = "idle"
         /\ sent[Main] + 1 = Len(script[Main])
         /\ Queue!FlushLock(Main)
         /\ UNCHANGED <<observed, script, sent, at, inner>>

CloseStep == Queue!FlushStep(Main) /\ UNCHANGED <<observed, script, sent, at, inner>>
Deadline == Queue!FlushExpire(Main) /\ UNCHANGED <<observed, script, sent, at, inner>>

Over == /\ \A f \in Emitters : at[f] = Outside /\ pc[f] = "idle" /\ sent[f] = Len(script[f])
        /\ worker = "exited"
        /\ UNCHANGED vars

Next == \/ \E f \in Emitters : Emit(f) \/ Hand(f) \/ Offer(f)
        \/ \E a \in Deliverers : Deliver(a)
        \/ Receive
        \/ Close \/ CloseStep \/ Deadline
        \/ Over

\* A goroutine that can run does.  Nothing obliges the program to emit or to
\* close, or the deadline to pass.
Fairness == /\ \A f \in Emitters : WF_vars(Hand(f)) /\ WF_vars(Offer(f))
            /\ \A a \in Deliverers : WF_vars(Deliver(a))
            /\ WF_vars(Receive)
            /\ WF_vars(CloseStep)

Spec == Init /\ [][Next]_vars /\ Fairness

-----------------------------------------------------------------------------
(* What a reader gets.                                                       *)

trace == Assemble([i \in DOMAIN kept |-> EventOf(kept[i])])
Total == MapThenSumSet(LAMBDA kind : counts[kind], Kinds)
Held == DOMAIN open

-----------------------------------------------------------------------------
Emitted == {item \in Emitters \X (1..Longest) :
              item[2] <= sent[item[1]]}
Walking == {Item(f) : f \in {g \in Emitters : at[g] \in DOMAIN layout.front}}
Queued == Emitted \ Walking             \* has come to the Buffer, or past it
Passed == (Range(delivered) \cup inlined)
            \ {InHandOf(a) : a \in {b \in Deliverers : Delivering(b)}}

Ended(items) == {EventOf(e).SpanID : e \in {i \in items : EventOf(i).Kind = "ended"}}
Started(items) == {EventOf(e).SpanID : e \in {i \in items : EventOf(i).Kind = "started"}}

\* Nothing is on its way.
Quiet == /\ \A f \in Emitters : at[f] = Outside /\ pc[f] = "idle"
         /\ queue = <<>> /\ worker # "delivering"

\* watch.go:22-24: what is happening at this instant is not answered from a queue.
\* Whatever has reached the queue, and so the aggregate or the window, the trackers
\* in front knew before: they hold every span begun by then and not ended, and none
\* that has ended, though events are evicted, refused and delivered out of order.
LiveNeverLags ==
    /\ Held \cap Ended(Queued) = {}
    /\ Started(Queued) \ Ended(Emitted) \subseteq Held
    /\ Held \cap Ended(Passed) = {}

\* The spans of the trace, wherever they hang, that it says have not ended.
CalledOpen == {id \in DOMAIN trace.Spans : IsOpen(trace.Spans[id])}

\* A span the trace calls open and the tracker has forgotten is not a hung program:
\* its end is still on its way, or was dropped and counted, or -- after Close only --
\* overtook the span's queued start and has already left the window again.
OpenIsExplained ==
    \A id \in CalledOpen \ Held :
        \E item \in Emitted :
            /\ EventOf(item).Kind = "ended" /\ EventOf(item).SpanID = id
            /\ \/ item \notin Passed /\ item \notin Queue!Missing
               \/ item \in Queue!Missing /\ (Quiet => drops > 0)
               \/ item \in inlined /\ count > Remembered

\* The program's account of its own telemetry adds up whenever nothing is on its
\* way: what the aggregate counted and what Drops reports are all that was emitted,
\* and the window was shown exactly what the aggregate counted.
TotalsReconcile ==
    Quiet => /\ Total + drops = MapThenSumSet(LAMBDA f : sent[f], Emitters)
             /\ count = Total

\* buffer.go:49-53: a buffer that treated Flush as the end could never deliver the
\* event that says the runtime closed.  This one delivers it, whether Close drained
\* the queue or gave up at its deadline, and whatever else is delivered meanwhile.
ClosedIsTold ==
    LET closed == <<Main, Len(script[Main])>>
    IN  Item(Main) = closed /\ at[Main] = 1 ~> closed \in Range(kept)
=============================================================================
