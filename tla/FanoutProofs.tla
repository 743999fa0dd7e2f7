---------------------------- MODULE FanoutProofs ----------------------------
(* Theorems about Fanout, for every list of observers and filters, every     *)
(* number of fibers and every number of events.                              *)
EXTENDS Fanout, TLAPS

Targets == DOMAIN targets
Event == [fiber : Fibers, number : Nat, kind : Kinds]

TypeOK == /\ sent \in [Fibers -> Seq(Event)]
          /\ at \in [Fibers -> 0..(Len(targets) + 1)]
          /\ received \in [Targets -> Seq(Event)]
          /\ flushAt \in 0..(Len(targets) + 1)
          /\ fate \in [Targets -> {"none", "nil", "error"}]
          /\ first \in 0..Len(targets)

\* An event is the fiber's own and numbered as it was emitted; a fiber inside
\* Observe has emitted the event it hands round.
Numbered ==
    \A f \in Fibers :
        /\ \A n \in DOMAIN sent[f] : sent[f][n].fiber = f /\ sent[f][n].number = n
        /\ at[f] # 0 => sent[f] # <<>>

\* The observers behind Flush have answered, those before it have not been asked,
\* and the error in hand is that of the first to fail.
Answered ==
    /\ \A t \in Targets : /\ t < flushAt /\ targets[t].buffers => fate[t] # "none"
                          /\ t >= flushAt => fate[t] = "none"
    /\ first = 0 => \A t \in Targets : fate[t] # "error"
    /\ first # 0 => /\ fate[first] = "error"
                    /\ \A t \in Targets : t < first => fate[t] # "error"

IInv == TypeOK /\ Numbered /\ EachSeesItsShare

-----------------------------------------------------------------------------
\* The places of a sequence are the numbers up to its length.
LEMMA Places ==
    ASSUME NEW S, NEW s \in Seq(S)
    PROVE  Len(s) \in Nat /\ DOMAIN s = 1..Len(s) /\ \A i \in DOMAIN s : s[i] \in S
  OBVIOUS

\* The observers held are numbered from one.
LEMMA TargetsType == /\ Len(targets) \in Nat
                     /\ Targets = 1..Len(targets)
                     /\ \A t \in Targets : targets[t].buffers \in BOOLEAN
<1> DEFINE Held == [buffers : BOOLEAN, keeps : SUBSET Kinds]
<1>1. Len(targets) \in Nat /\ Targets = 1..Len(targets) /\ \A t \in Targets : targets[t] \in Held
  <2> HIDE DEF Held
  <2>1. targets \in Seq(Held)
    BY TargetsAssumption DEF Held
  <2> QED
    BY <2>1, Places DEF Targets
<1>2. \A o \in Held : o.buffers \in BOOLEAN
  OBVIOUS
<1> QED
  BY <1>1, <1>2

\* Append puts one event behind the ones there were.
LEMMA Appended ==
    ASSUME NEW S, NEW s \in Seq(S), NEW e \in S
    PROVE  /\ Append(s, e) \in Seq(S)
           /\ Append(s, e) # <<>>
           /\ Len(Append(s, e)) = Len(s) + 1 /\ Len(s) \in Nat
           /\ DOMAIN s = 1..Len(s)
           /\ DOMAIN Append(s, e) = DOMAIN s \cup {Len(s) + 1}
           /\ \A i \in DOMAIN s : Append(s, e)[i] = s[i]
           /\ Append(s, e)[Len(s) + 1] = e
  OBVIOUS

-----------------------------------------------------------------------------
(* Types.                                                                    *)

\* Every step keeps the types.
LEMMA StepType == TypeOK /\ Numbered /\ [Next]_vars => TypeOK'
<1> SUFFICES ASSUME TypeOK, Numbered, [Next]_vars PROVE TypeOK'
  OBVIOUS
<1> USE TargetsType DEF TypeOK
<1>1. ASSUME NEW f \in Fibers, Observe(f) PROVE TypeOK'
  <2>1. PICK kind \in Kinds :
          sent' = [sent EXCEPT ![f] = Append(sent[f],
                     [fiber |-> f, number |-> Len(sent[f]) + 1, kind |-> kind])]
    BY <1>1 DEF Observe
  <2>2. [fiber |-> f, number |-> Len(sent[f]) + 1, kind |-> kind] \in Event
    BY Appended DEF Event
  <2>3. sent' \in [Fibers -> Seq(Event)]
    BY <2>1, <2>2, Appended
  <2> QED
    BY <1>1, <2>3 DEF Observe
<1>2. ASSUME NEW f \in Fibers, Hand(f) PROVE TypeOK'
  <2>1. at[f] \in Targets /\ at' = [at EXCEPT ![f] = @ + 1]
    BY <1>2 DEF Hand, Targets
  <2>2. sent[f] # <<>> /\ Last(sent[f]) \in Event
    BY <2>1 DEF Numbered, Last
  <2>3. received' = received \/ received' = [received EXCEPT ![at[f]] = Append(@, Last(sent[f]))]
    BY <1>2 DEF Hand
  <2>4. received' \in [Targets -> Seq(Event)]
    <3>1. received[at[f]] \in Seq(Event)
      BY <2>1
    <3>2. Append(received[at[f]], Last(sent[f])) \in Seq(Event)
      BY <2>2, <3>1, Appended
    <3> QED
      BY <2>1, <2>3, <3>2
  <2> QED
    BY <1>2, <2>1, <2>4 DEF Hand
<1>3. ASSUME NEW f \in Fibers, Return(f) PROVE TypeOK'
  BY <1>3 DEF Return
<1>4. CASE Flush
  BY <1>4 DEF Flush
<1>5. CASE FlushSkip
  <2>1. flushAt \in Targets
    BY <1>5 DEF FlushSkip, Targets
  <2> QED
    BY <1>5, <2>1 DEF FlushSkip
<1>6. CASE FlushTarget
  <2>1. flushAt \in Targets
    BY <1>6 DEF FlushTarget, Targets
  <2> QED
    BY <1>6, <2>1 DEF FlushTarget
<1>7. ASSUME UNCHANGED vars PROVE TypeOK'
  BY <1>7 DEF vars
<1> QED
  BY <1>1, <1>2, <1>3, <1>4, <1>5, <1>6, <1>7 DEF Next, Done

-----------------------------------------------------------------------------
(* What a walk has handed round.                                             *)

\* Another event behind a fiber's numbered events is numbered too.
LEMMA StepNumbered == TypeOK /\ Numbered /\ [Next]_vars => Numbered'
<1> SUFFICES ASSUME TypeOK, Numbered, [Next]_vars PROVE Numbered'
  OBVIOUS
<1> USE TargetsType DEF TypeOK
<1>1. ASSUME NEW f \in Fibers, Observe(f) PROVE Numbered'
  <2>1. PICK kind \in Kinds :
          sent' = [sent EXCEPT ![f] = Append(sent[f],
                     [fiber |-> f, number |-> Len(sent[f]) + 1, kind |-> kind])]
    BY <1>1 DEF Observe
  <2> DEFINE event == [fiber |-> f, number |-> Len(sent[f]) + 1, kind |-> kind]
  <2>2. event \in Event /\ sent[f] \in Seq(Event)
    <3>1. sent[f] \in Seq(Event) /\ Len(sent[f]) \in Nat
      BY Places
    <3> QED
      BY <3>1 DEF Event
  <2>3. sent'[f] = Append(sent[f], event) /\ \A g \in Fibers \ {f} : sent'[g] = sent[g]
    BY <2>1
  <2>4. \A n \in DOMAIN sent'[f] : sent'[f][n].fiber = f /\ sent'[f][n].number = n
    BY <2>2, <2>3, Appended DEF Numbered
  <2>5. sent'[f] # <<>>
    BY <2>2, <2>3, Appended, SMTT(40)
  <2>6. \A g \in Fibers \ {f} : at'[g] = at[g]
    BY <1>1 DEF Observe
  <2>7. ASSUME NEW g \in Fibers \ {f}
        PROVE  /\ \A n \in DOMAIN sent'[g] : sent'[g][n].fiber = g /\ sent'[g][n].number = n
               /\ at'[g] # 0 => sent'[g] # <<>>
    BY <2>3, <2>6 DEF Numbered
  <2> QED
    BY <2>4, <2>5, <2>7 DEF Numbered
<1>2. ASSUME NEW f \in Fibers, Hand(f) PROVE Numbered'
  BY <1>2 DEF Hand, Numbered
<1>3. ASSUME NEW f \in Fibers, Return(f) PROVE Numbered'
  BY <1>3 DEF Return, Numbered
<1>4. ASSUME Flush \/ FlushSkip \/ FlushTarget PROVE Numbered'
  BY <1>4 DEF Flush, FlushSkip, FlushTarget, Numbered
<1>5. ASSUME UNCHANGED vars PROVE Numbered'
  BY <1>5 DEF vars, Numbered
<1> QED
  BY <1>1, <1>2, <1>3, <1>4, <1>5 DEF Next, Done

\* What a target has of a fiber's events, and what it should have.
Got(f, t) == {i \in DOMAIN received[t] : received[t][i].fiber = f}
Due(f, t) == {n \in DOMAIN sent[f] : /\ sent[f][n].kind \in targets[t].keeps
                                     /\ n = Len(sent[f]) => Reached(f, t)}
Share(f, t) == /\ {received[t][i] : i \in Got(f, t)} = {sent[f][n] : n \in Due(f, t)}
               /\ \A i, j \in Got(f, t) : i < j => received[t][i].number < received[t][j].number

\* Each target's share, said fiber by fiber.
LEMMA Shares == EachSeesItsShare <=> \A f \in Fibers : \A t \in Targets : Share(f, t)
  BY DEF EachSeesItsShare, Share, Got, Due, Targets

\* A share depends on the fiber's own events and place and on the target's alone.
LEMMA ShareStays ==
    ASSUME NEW f \in Fibers, NEW t \in Targets, Share(f, t),
           sent'[f] = sent[f], received'[t] = received[t], Reached(f, t)' <=> Reached(f, t)
    PROVE  Share(f, t)'
<1>1. Got(f, t)' = Got(f, t) /\ Due(f, t)' = Due(f, t)
  BY DEF Got, Due
<1> QED
  BY <1>1 DEF Share

\* An event just emitted is nobody's share yet.
LEMMA ObserveShares ==
    ASSUME IInv, NEW f \in Fibers, Observe(f) PROVE EachSeesItsShare'
<1> USE TargetsType DEF IInv, TypeOK
<1>1. PICK kind \in Kinds :
        sent' = [sent EXCEPT ![f] = Append(sent[f],
                   [fiber |-> f, number |-> Len(sent[f]) + 1, kind |-> kind])]
  BY DEF Observe
<1> DEFINE event == [fiber |-> f, number |-> Len(sent[f]) + 1, kind |-> kind]
<1>2. event \in Event /\ sent[f] \in Seq(Event)
  <2>1. sent[f] \in Seq(Event) /\ Len(sent[f]) \in Nat
    BY Places
  <2> QED
    BY <2>1 DEF Event
<1>3. sent'[f] = Append(sent[f], event) /\ \A g \in Fibers \ {f} : sent'[g] = sent[g]
  BY <1>1
<1>4. at[f] = 0 /\ at'[f] = 1 /\ received' = received /\ \A g \in Fibers \ {f} : at'[g] = at[g]
  BY DEF Observe
<1>5. ASSUME NEW t \in Targets PROVE Share(f, t)'
  <2>1. Reached(f, t) /\ ~Reached(f, t)'
    BY <1>4 DEF Reached
  <2>2. Got(f, t)' = Got(f, t)
    BY <1>4 DEF Got
  <2>3. /\ DOMAIN sent'[f] = DOMAIN sent[f] \cup {Len(sent[f]) + 1}
        /\ Len(sent'[f]) = Len(sent[f]) + 1
        /\ DOMAIN sent[f] = 1..Len(sent[f]) /\ Len(sent[f]) \in Nat
        /\ \A n \in DOMAIN sent[f] : sent'[f][n] = sent[f][n]
    <3> HIDE DEF event
    <3> QED
      BY <1>2, <1>3, Appended
  <2>4. Due(f, t)' = Due(f, t)
    BY <2>1, <2>3 DEF Due
  <2>5. Due(f, t) \subseteq DOMAIN sent[f]
    BY DEF Due
  <2>6. Share(f, t)
    BY Shares
  <2>7. {received'[t][i] : i \in Got(f, t)'} = {received[t][i] : i \in Got(f, t)}
    BY <1>4, <2>2
  <2>8. {sent'[f][n] : n \in Due(f, t)'} = {sent[f][n] : n \in Due(f, t)}
    BY <2>3, <2>4, <2>5
  <2> QED
    BY <1>4, <2>2, <2>6, <2>7, <2>8 DEF Share
<1>6. ASSUME NEW g \in Fibers \ {f}, NEW t \in Targets PROVE Share(g, t)'
  <2>1. Reached(g, t)' <=> Reached(g, t)
    BY <1>4 DEF Reached
  <2>2. Share(g, t)
    BY Shares
  <2> QED
    BY <1>3, <1>4, <2>1, <2>2, ShareStays
<1>7. \A g \in Fibers : \A t \in Targets : Share(g, t)'
  BY <1>5, <1>6
<1> QED
  BY <1>7 DEF EachSeesItsShare, Share, Got, Due, Targets

\* The target the walk is at gets its share of the event, and no other share changes.
LEMMA HandShares ==
    ASSUME IInv, NEW f \in Fibers, Hand(f) PROVE EachSeesItsShare'
<1> USE TargetsType DEF IInv, TypeOK
<1>0. PICK u \in Targets : u = at[f]
  BY DEF Hand, Targets
<1> DEFINE event == Last(sent[f])
           kept == event.kind \in targets[u].keeps
<1>1. /\ u \in Targets /\ at[f] = u /\ sent' = sent
      /\ at'[f] = u + 1 /\ \A g \in Fibers \ {f} : at'[g] = at[g]
      /\ received' = IF kept THEN [received EXCEPT ![u] = Append(@, event)] ELSE received
  BY <1>0 DEF Hand
<1>2. /\ sent[f] \in Seq(Event) /\ sent[f] # <<>> /\ event = sent[f][Len(sent[f])]
      /\ Len(sent[f]) \in Nat /\ DOMAIN sent[f] = 1..Len(sent[f])
      /\ Len(sent[f]) \in DOMAIN sent[f]
  BY <1>1 DEF Numbered, Last
<1>3. event \in Event /\ event.fiber = f /\ event.number = Len(sent[f])
  BY <1>2 DEF Numbered
<1>4. \A t \in Targets \ {u} : received'[t] = received[t]
  BY <1>1
<1>5. \A g \in Fibers : \A t \in Targets : ~(g = f /\ t = u) => (Reached(g, t)' <=> Reached(g, t))
  BY <1>1, SMTT(40) DEF Reached
<1>6. ~Reached(f, u) /\ Reached(f, u)'
  BY <1>1 DEF Reached
<1>7. Share(f, u)
  BY <1>1, Shares
<1>8. Due(f, u)' = Due(f, u) \cup (IF kept THEN {Len(sent[f])} ELSE {})
  BY <1>1, <1>2, <1>6 DEF Due
<1>9. CASE kept
  <2> HIDE DEF event
  <2>1. received[u] \in Seq(Event) /\ received'[u] = Append(received[u], event)
    BY <1>1, <1>9
  <2>2. /\ DOMAIN received'[u] = DOMAIN received[u] \cup {Len(received[u]) + 1}
        /\ DOMAIN received[u] = 1..Len(received[u]) /\ Len(received[u]) \in Nat
        /\ \A i \in DOMAIN received[u] : received'[u][i] = received[u][i]
        /\ received'[u][Len(received[u]) + 1] = event
    BY <1>3, <2>1, Appended
  <2>3. Got(f, u)' = Got(f, u) \cup {Len(received[u]) + 1}
    BY <1>3, <2>2 DEF Got
  <2>4. ASSUME NEW g \in Fibers \ {f} PROVE Got(g, u)' = Got(g, u)
    BY <1>3, <2>2 DEF Got
  <2>5. Got(f, u) \subseteq DOMAIN received[u] /\ Due(f, u) \subseteq DOMAIN sent[f]
    BY DEF Got, Due
  <2>6. {received'[u][i] : i \in Got(f, u)'} = {received[u][i] : i \in Got(f, u)} \cup {event}
    BY <2>2, <2>3, <2>5
  <2>7. {sent'[f][n] : n \in Due(f, u)'} = {sent[f][n] : n \in Due(f, u)} \cup {event}
    BY <1>1, <1>2, <1>8, <1>9
  <2>8. ASSUME NEW i \in Got(f, u) PROVE received[u][i].number < Len(sent[f])
    <3>1. PICK n \in Due(f, u) : received[u][i] = sent[f][n]
      BY <1>7 DEF Share
    <3>2. n \in DOMAIN sent[f] /\ n # Len(sent[f])
      BY <1>6, <3>1 DEF Due
    <3>3. sent[f][n].number = n
      BY <3>2 DEF Numbered
    <3> QED
      BY <1>2, <3>1, <3>2, <3>3
  <2>9. ASSUME NEW i \in Got(f, u)', NEW j \in Got(f, u)', i < j
        PROVE  received'[u][i].number < received'[u][j].number
    <3>1. i \in Got(f, u)
      BY <2>2, <2>3, <2>5, <2>9
    <3>2. CASE j \in Got(f, u)
      BY <1>7, <2>2, <2>5, <2>9, <3>1, <3>2 DEF Share
    <3>3. CASE j = Len(received[u]) + 1
      BY <1>3, <2>2, <2>5, <2>8, <3>1, <3>3
    <3> QED
      BY <2>3, <3>2, <3>3
  <2>10. Share(f, u)'
    BY <1>7, <2>6, <2>7, <2>9 DEF Share
  <2>11. ASSUME NEW g \in Fibers \ {f} PROVE Share(g, u)'
    <3>1. Due(g, u)' = Due(g, u)
      BY <1>1, <1>5 DEF Due
    <3>2. Got(g, u) \subseteq DOMAIN received[u] /\ Share(g, u)
      BY <1>1, Shares DEF Got
    <3>3. {received'[u][i] : i \in Got(g, u)'} = {received[u][i] : i \in Got(g, u)}
      BY <2>2, <2>4, <3>2
    <3>4. {sent'[g][n] : n \in Due(g, u)'} = {sent[g][n] : n \in Due(g, u)}
      BY <1>1, <3>1
    <3> QED
      BY <2>2, <2>4, <3>2, <3>3, <3>4 DEF Share
  <2>12. \A g \in Fibers : Share(g, u)'
    BY <2>10, <2>11
  <2>13. ASSUME NEW g \in Fibers, NEW t \in Targets \ {u} PROVE Share(g, t)'
    BY <1>1, <1>4, <1>5, Shares, ShareStays
  <2>14. \A g \in Fibers : \A t \in Targets : Share(g, t)'
    BY <2>12, <2>13
  <2> QED
    BY <2>14 DEF EachSeesItsShare, Share, Got, Due, Targets
<1>10. CASE ~kept
  <2>1. received' = received /\ Due(f, u)' = Due(f, u)
    BY <1>1, <1>8, <1>10
  <2>2. Share(f, u)'
    <3>1. Got(f, u)' = Got(f, u)
      BY <2>1 DEF Got
    <3>2. {received'[u][i] : i \in Got(f, u)'} = {received[u][i] : i \in Got(f, u)}
      BY <2>1, <3>1
    <3>3. {sent'[f][n] : n \in Due(f, u)'} = {sent[f][n] : n \in Due(f, u)}
      BY <1>1, <2>1
    <3> QED
      BY <1>7, <2>1, <3>1, <3>2, <3>3 DEF Share
  <2>3. ASSUME NEW g \in Fibers, NEW t \in Targets, ~(g = f /\ t = u) PROVE Share(g, t)'
    BY <1>1, <1>5, <2>1, <2>3, Shares, ShareStays
  <2>4. \A g \in Fibers : \A t \in Targets : Share(g, t)'
    BY <2>2, <2>3
  <2> QED
    BY <2>4 DEF EachSeesItsShare, Share, Got, Due, Targets
<1> QED
  BY <1>9, <1>10

\* Leaving Observe, every target has been passed already.
LEMMA ReturnShares ==
    ASSUME IInv, NEW f \in Fibers, Return(f) PROVE EachSeesItsShare'
<1> USE TargetsType DEF IInv, TypeOK
<1>1. /\ at[f] = Len(targets) + 1 /\ at'[f] = 0 /\ \A g \in Fibers \ {f} : at'[g] = at[g]
      /\ sent' = sent /\ received' = received
  BY DEF Return
<1>2. \A g \in Fibers : \A t \in Targets : Reached(g, t)' <=> Reached(g, t)
  BY <1>1 DEF Reached
<1>3. \A g \in Fibers : \A t \in Targets : Share(g, t)'
  BY <1>1, <1>2, Shares, ShareStays
<1> QED
  BY <1>3 DEF EachSeesItsShare, Share, Got, Due, Targets

\* In the beginning nobody has emitted or been asked to flush.
LEMMA InitHolds == Init => IInv /\ Answered
<1> SUFFICES ASSUME Init PROVE IInv /\ Answered
  OBVIOUS
<1> USE TargetsType DEF Init, Targets
<1>1. TypeOK /\ Numbered /\ Answered
  BY DEF TypeOK, Numbered, Answered
<1>2. EachSeesItsShare
  BY DEF EachSeesItsShare
<1> QED
  BY <1>1, <1>2 DEF IInv

\* Every step keeps each target's share.
LEMMA StepKeeps == IInv /\ [Next]_vars => IInv'
<1> SUFFICES ASSUME IInv, [Next]_vars PROVE IInv'
  OBVIOUS
<1>1. TypeOK' /\ Numbered'
  BY StepType, StepNumbered DEF IInv
<1>2. CASE \E f \in Fibers : Observe(f) \/ Hand(f) \/ Return(f)
  BY <1>1, <1>2, ObserveShares, HandShares, ReturnShares DEF IInv
<1>3. CASE Flush \/ FlushSkip \/ FlushTarget \/ UNCHANGED vars
  <2>1. UNCHANGED <<sent, at, received>>
    BY <1>3 DEF Flush, FlushSkip, FlushTarget, vars
  <2>2. \A f \in Fibers : \A t \in Targets : Share(f, t)'
    BY <2>1, Shares, ShareStays DEF IInv, Reached
  <2>3. EachSeesItsShare'
    BY <2>2 DEF EachSeesItsShare, Share, Got, Due, Targets
  <2> QED
    BY <1>1, <2>3 DEF IInv
<1> QED
  BY <1>2, <1>3 DEF Next, Done

\* Every observer sees, of each fiber, exactly what its filter keeps of the events
\* that have come to it, in the order they were emitted, however the walks of the
\* fibers interleave and whatever the other observers' filters reject.
THEOREM EachGetsItsShare == Spec => []EachSeesItsShare
<1>1. IInv => EachSeesItsShare
  BY DEF IInv
<1>2. Init => IInv
  BY InitHolds
<1> QED
  BY <1>1, <1>2, StepKeeps, PTL DEF Spec

-----------------------------------------------------------------------------
(* What Flush answers.                                                       *)

\* Every step of Flush keeps the error in hand that of the first to fail.
LEMMA StepAnswered == TypeOK /\ Answered /\ [Next]_vars => Answered'
<1> SUFFICES ASSUME TypeOK, Answered, [Next]_vars PROVE Answered'
  OBVIOUS
<1> USE TargetsType DEF TypeOK, Answered
<1>1. CASE UNCHANGED <<flushAt, fate, first>>
  BY <1>1
<1>2. CASE Flush
  BY <1>2 DEF Flush
<1>3. CASE FlushSkip
  BY <1>3 DEF FlushSkip
<1>4. CASE FlushTarget
  <2>1. PICK answer \in {"nil", "error"} :
          /\ fate' = [fate EXCEPT ![flushAt] = answer]
          /\ first' = IF answer = "error" /\ first = 0 THEN flushAt ELSE first
    BY <1>4 DEF FlushTarget
  <2>2. flushAt \in Targets /\ flushAt' = flushAt + 1
    BY <1>4 DEF FlushTarget, Targets
  <2>3. fate'[flushAt] = answer /\ \A t \in Targets \ {flushAt} : fate'[t] = fate[t]
    BY <2>1, <2>2
  <2>4. first # 0 => first \in Targets /\ first < flushAt
    BY <2>2
  <2> QED
    BY <2>1, <2>2, <2>3, <2>4
<1> QED
  BY <1>1, <1>2, <1>3, <1>4 DEF Next, Done, Observe, Hand, Return, vars

\* The least of a set of numbers is the one no other is below.
LEMMA LeastIsMin ==
    ASSUME NEW S \in SUBSET Int, NEW m \in S, \A x \in S : m <= x
    PROVE  Min(S) = m
<1>1. \E x \in S : \A y \in S : x <= y
  OBVIOUS
<1>2. Min(S) \in S /\ \A y \in S : Min(S) <= y
  BY <1>1 DEF Min
<1>3. Min(S) \in Int /\ m \in Int /\ Min(S) <= m /\ m <= Min(S)
  BY <1>2
<1> QED
  BY <1>3

\* Once Flush has gone through the observers, every one that buffers has been asked,
\* whoever failed before it, and what Flush reports is the first failure.
THEOREM FlushSkipsNobody == Spec => []FlushReachesAll
<1>1. TypeOK /\ Answered => FlushReachesAll
  <2> SUFFICES ASSUME TypeOK, Answered, Flushed PROVE FlushReachesAll
    BY DEF FlushReachesAll
  <2> USE TargetsType DEF TypeOK
  <2>1. flushAt = Len(targets) + 1
    BY DEF Flushed
  <2>2. \A t \in Targets : targets[t].buffers => fate[t] # "none"
    BY <2>1 DEF Answered
  <2> DEFINE failed == {t \in Targets : fate[t] = "error"}
  <2>3. CASE first = 0
    <3>1. failed = {}
      BY <2>3 DEF Answered
    <3> QED
      BY <2>2, <2>3, <3>1 DEF FlushReachesAll, Targets
  <2>4. CASE first # 0
    <3>1. first \in failed /\ \A t \in failed : first <= t
      BY <2>4 DEF Answered
    <3>2. failed \in SUBSET Int
      OBVIOUS
    <3>3. Min(failed) = first
      <4> HIDE DEF failed
      <4> QED
        BY <3>1, <3>2, LeastIsMin
    <3> QED
      BY <2>2, <3>1, <3>3 DEF FlushReachesAll, Targets
  <2> QED
    BY <2>3, <2>4
<1>2. IInv => TypeOK
  BY DEF IInv
<1>3. Init => IInv /\ Answered
  BY InitHolds
<1> QED
  BY <1>1, <1>2, <1>3, StepKeeps, StepAnswered, PTL DEF Spec
=============================================================================
