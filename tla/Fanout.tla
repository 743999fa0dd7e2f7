------------------------------- MODULE Fanout -------------------------------
(* observe.Fanout and observe.Filter: every event is handed to each observer *)
(* in turn, on the fiber that emitted it and with no lock, so the walks of   *)
(* two fibers interleave.  Flush walks the same observers from the owner.    *)
EXTENDS Integers, SequencesExt

CONSTANTS Fibers,     \* the fibers that emit
          Kinds,      \* the kinds of event
          Given,      \* the observers given to Fanout, Nil among them
          Nil,        \* a nil observer or predicate
          MaxEvents   \* bound: events per fiber

\* An observer, as far as Fanout and Filter can tell: whether it is a Flusher,
\* and which kinds get through to what is behind it.
Observer(buffers, keeps) == [buffers |-> buffers, keeps |-> keeps]

\* The empty Fanout: receives nothing, and flushes nothing.
Silent == Observer(FALSE, {})

\* Only what the predicate keeps; a nil observer or predicate keeps nothing.
Filter(observer, predicate) ==
    IF observer = Nil \/ predicate = Nil THEN Silent
    ELSE [observer EXCEPT !.keeps = @ \cap predicate]

\* The observers a Fanout holds: those given that are not nil, in their order.
targets == SelectSeq(Given, LAMBDA observer : observer # Nil)

ASSUME FanoutAssumption ==
    /\ MaxEvents \in Nat
    /\ Given \in Seq([buffers : BOOLEAN, keeps : SUBSET Kinds] \cup {Nil})

\* What SelectSeq leaves of them; a proof can open the definition of targets no
\* further, so this much of it is stated.
ASSUME TargetsAssumption == targets \in Seq([buffers : BOOLEAN, keeps : SUBSET Kinds])

VARIABLES sent,       \* history: the events each fiber emitted, in order
          at,         \* the target a fiber hands its event to next; 0 outside
          received,   \* history: the events each target's observer received
          flushAt,    \* the target Flush is at; 0 before it is called
          fate,       \* what each target's own Flush answered
          first       \* the error Flush holds: the target that failed, or 0

vars == <<sent, at, received, flushAt, fate, first>>

Init == /\ sent = [f \in Fibers |-> <<>>]
        /\ at = [f \in Fibers |-> 0]
        /\ received = [t \in DOMAIN targets |-> <<>>]
        /\ flushAt = 0
        /\ fate = [t \in DOMAIN targets |-> "none"]
        /\ first = 0

\* The fiber emits one event: Observe is called and the walk begins.
Observe(f) == /\ at[f] = 0
              /\ Len(sent[f]) < MaxEvents
              /\ \E kind \in Kinds :
                   sent' = [sent EXCEPT ![f] = Append(@,
                              [fiber |-> f, number |-> Len(@) + 1, kind |-> kind])]
              /\ at' = [at EXCEPT ![f] = 1]
              /\ UNCHANGED <<received, flushAt, fate, first>>

\* The definitions named ...Mutant are bugs this code could have had, each beside
\* the definition it would replace; no action uses them.
HandMutant(f) ==                                  \* a rejected event ends the walk
    /\ at[f] \in DOMAIN targets
    /\ LET event == Last(sent[f])
           kept == event.kind \in targets[at[f]].keeps
       IN  /\ received' = IF kept THEN [received EXCEPT ![at[f]] = Append(@, event)]
                          ELSE received
           /\ at' = [at EXCEPT ![f] = IF kept THEN @ + 1 ELSE Len(targets) + 1]
    /\ UNCHANGED <<sent, flushAt, fate, first>>

\* The next target gets the event, if its filter keeps it.
Hand(f) == /\ at[f] \in DOMAIN targets
           /\ LET event == Last(sent[f])
                  kept == event.kind \in targets[at[f]].keeps
              IN  received' = IF kept THEN [received EXCEPT ![at[f]] = Append(@, event)]
                              ELSE received
           /\ at' = [at EXCEPT ![f] = @ + 1]
           /\ UNCHANGED <<sent, flushAt, fate, first>>

Return(f) == /\ at[f] = Len(targets) + 1
             /\ at' = [at EXCEPT ![f] = 0]
             /\ UNCHANGED <<sent, received, flushAt, fate, first>>

-----------------------------------------------------------------------------
(* Flush, on the owner's goroutine, while fibers may still be emitting.      *)

Flush == /\ flushAt = 0
         /\ flushAt' = 1
         /\ UNCHANGED <<sent, at, received, fate, first>>

\* Not a Flusher: on to the next.
FlushSkip == /\ flushAt \in DOMAIN targets
             /\ ~targets[flushAt].buffers
             /\ flushAt' = flushAt + 1
             /\ UNCHANGED <<sent, at, received, fate, first>>

FlushTargetMutant ==                                    \* return the first error
    /\ flushAt \in DOMAIN targets
    /\ targets[flushAt].buffers
    /\ \E answer \in {"nil", "error"} :
         /\ fate' = [fate EXCEPT ![flushAt] = answer]
         /\ first' = IF answer = "error" /\ first = 0 THEN flushAt ELSE first
         /\ flushAt' = IF answer = "error" THEN Len(targets) + 1 ELSE flushAt + 1
    /\ UNCHANGED <<sent, at, received>>

\* A Flusher answers nil or an error; the first error is the one kept.
FlushTarget == /\ flushAt \in DOMAIN targets
               /\ targets[flushAt].buffers
               /\ \E answer \in {"nil", "error"} :
                    /\ fate' = [fate EXCEPT ![flushAt] = answer]
                    /\ first' = IF answer = "error" /\ first = 0 THEN flushAt ELSE first
               /\ flushAt' = flushAt + 1
               /\ UNCHANGED <<sent, at, received>>

Flushed == flushAt = Len(targets) + 1

Done == /\ \A f \in Fibers : at[f] = 0 /\ Len(sent[f]) = MaxEvents
        /\ Flushed
        /\ UNCHANGED vars

Next == \/ \E f \in Fibers : Observe(f) \/ Hand(f) \/ Return(f)
        \/ Flush \/ FlushSkip \/ FlushTarget
        \/ Done

Spec == Init /\ [][Next]_vars

-----------------------------------------------------------------------------
\* Every observer has seen, of each fiber, exactly the events its filter keeps,
\* in the order the fiber emitted them; of the event being handed round, only
\* the observers the walk has passed have seen anything.  A filter in front of
\* one observer never costs another observer an event.
Reached(f, t) == at[f] = 0 \/ at[f] > t
EachSeesItsShare ==
    \A f \in Fibers : \A t \in DOMAIN targets :
        LET got == {i \in DOMAIN received[t] : received[t][i].fiber = f}
            due == {n \in DOMAIN sent[f] : /\ sent[f][n].kind \in targets[t].keeps
                                           /\ n = Len(sent[f]) => Reached(f, t)}
        IN  /\ {received[t][i] : i \in got} = {sent[f][n] : n \in due}
            /\ \A i, j \in got : i < j => received[t][i].number < received[t][j].number

\* A flush failure from one observer does not skip the others, and the failure
\* reported is the first one.
FlushReachesAll ==
    Flushed => /\ \A t \in DOMAIN targets : targets[t].buffers => fate[t] # "none"
               /\ LET failed == {t \in DOMAIN targets : fate[t] = "error"}
                  IN  IF failed = {} THEN first = 0 ELSE first = Min(failed)
=============================================================================
