---------------------------- MODULE AeTimeProofs ----------------------------
(***************************************************************************)
(* Proofs about AeTime, for every set of addresses, any number of timers   *)
(* and any clock.                                                          *)
(***************************************************************************)
EXTENDS AeTime, TLAPS

-----------------------------------------------------------------------------
(* The inductive invariant, by parts.                                      *)

\* The types the argument needs.
TypeInv ==
    /\ head \in Pointer /\ te \in Pointer
    /\ next \in [Node -> Pointer] /\ prev \in [Node -> Pointer]
    /\ id \in [Node -> Int] /\ data \in [Node -> Nat]
    /\ alloc \subseteq Node
    /\ nextId \in Nat /\ maxId \in Int

\* The list is linked both ways, over allocated nodes only.
LinksInv ==
    /\ head # NULL => head \in alloc /\ prev[head] = NULL
    /\ \A n \in alloc :
        /\ next[n] # NULL => next[n] \in alloc /\ prev[next[n]] = n
        /\ prev[n] # NULL => prev[n] \in alloc /\ next[prev[n]] = n
        /\ prev[n] = NULL => n = head

\* The timers have numbers of their own, and newer ones come first.
OrderInv ==
    /\ \A n \in alloc : data[n] < nextId /\ id[n] \in {AE_DELETED_EVENT_ID, data[n]}
    /\ \A m, n \in alloc : data[m] = data[n] => m = n
    /\ \A n \in alloc : next[n] # NULL => data[next[n]] < data[n]

\* The scan stands on a timer that is older than the scan, or is over.
ScanInv ==
    pc \in {"scan", "intimer"} =>
        /\ te # NULL => te \in alloc /\ data[te] <= maxId
        /\ pc = "intimer" => te # NULL
        /\ maxId >= -1

IInv == TypeInv /\ LinksInv /\ OrderInv /\ ScanInv

-----------------------------------------------------------------------------
LEMMA NullIsNoNode == NULL \notin Node
BY AeTimeAssumption

LEMMA InitInv == Init => IInv /\ FinalizedWhenFreed
BY NullIsNoNode DEF Init, IInv, TypeInv, LinksInv, OrderInv, ScanInv, Pointer, AE_DELETED_EVENT_ID,
    FinalizedWhenFreed

\* aeCreateTimeEvent puts the new timer before the head.
LEMMA CreateStep ==
    ASSUME IInv, FinalizedWhenFreed, NEW d \in Delays, aeCreateTimeEvent(d)
    PROVE  IInv' /\ FinalizedWhenFreed'
<1>1. PICK n \in Node \ alloc :
        /\ nextId' = nextId + 1
        /\ id' = [id EXCEPT ![n] = nextId]
        /\ data' = [data EXCEPT ![n] = nextId]
        /\ next' = [next EXCEPT ![n] = head]
        /\ prev' = IF head # NULL THEN [prev EXCEPT ![n] = NULL, ![head] = n]
                                  ELSE [prev EXCEPT ![n] = NULL]
        /\ head' = n /\ alloc' = alloc \union {n}
        /\ UNCHANGED <<loopVars, finalized>>
  BY Zenon DEF aeCreateTimeEvent
<1>2. n # NULL /\ n # head
  BY NullIsNoNode DEF IInv, TypeInv, LinksInv
<1>3. TypeInv'
  BY <1>1, <1>2, NullIsNoNode DEF IInv, TypeInv, LinksInv, Pointer, loopVars
<1>4. /\ next'[n] = head /\ prev'[n] = NULL /\ data'[n] = nextId /\ id'[n] = nextId
      /\ head # NULL => prev'[head] = n
      /\ \A m \in alloc : /\ m # n /\ next'[m] = next[m] /\ data'[m] = data[m] /\ id'[m] = id[m]
                          /\ m # head => prev'[m] = prev[m]
  BY <1>1, <1>2 DEF IInv, TypeInv, LinksInv, Pointer
<1>5. LinksInv'
  <2>1. head # NULL => \A m \in alloc : next[m] # head
    BY NullIsNoNode DEF IInv, LinksInv, TypeInv
  <2>2. head' = n /\ alloc' = alloc \union {n} /\ prev'[n] = NULL /\ next'[n] = head
    BY <1>1, <1>4
  <2>3. head # NULL => head \in alloc /\ prev'[head] = n
    BY <1>4 DEF IInv, LinksInv
  <2>4. ASSUME NEW m \in alloc
        PROVE  /\ next'[m] # NULL => next'[m] \in alloc' /\ prev'[next'[m]] = m
               /\ prev'[m] # NULL => prev'[m] \in alloc' /\ next'[prev'[m]] = m
               /\ prev'[m] # NULL
    <3>1. next'[m] = next[m] /\ (next[m] # NULL => next[m] \in alloc /\ prev[next[m]] = m)
      BY <1>4 DEF IInv, LinksInv
    <3>2. next[m] # NULL => next[m] # head
      BY <2>1
    <3>3. next[m] # NULL => prev'[next[m]] = m
      BY <1>4, <3>1, <3>2
    <3>4. CASE m = head
      BY <1>2, <1>4, <2>2, <2>3, <3>1, <3>3, <3>4, NullIsNoNode DEF IInv, TypeInv
    <3>5. CASE m # head
      <4>1. prev'[m] = prev[m] /\ prev[m] # NULL /\ prev[m] \in alloc /\ next[prev[m]] = m
        BY <1>4, <3>5 DEF IInv, LinksInv
      <4> QED
        BY <1>4, <2>2, <3>1, <3>3, <4>1
    <3> QED
      BY <3>4, <3>5
  <2> QED
    BY <1>2, <2>2, <2>3, <2>4 DEF LinksInv
<1>6. OrderInv'
  BY <1>1, <1>2, <1>4 DEF IInv, OrderInv, LinksInv, TypeInv
<1>7. ScanInv'
  BY <1>1, <1>4 DEF IInv, ScanInv, loopVars
<1>8. FinalizedWhenFreed'
  <2>1. {data'[m] : m \in alloc'} = {data[m] : m \in alloc} \union {nextId}
    BY <1>1, <1>4
  <2>2. 0..(nextId' - 1) = (0..(nextId - 1)) \union {nextId}
    BY <1>1 DEF IInv, TypeInv
  <2>3. nextId \notin {data[m] : m \in alloc} /\ nextId \notin 0..(nextId - 1)
    BY DEF IInv, TypeInv, OrderInv
  <2>4. finalized' = finalized
    BY <1>1
  <2>5. finalized' = (0..(nextId' - 1)) \ {data'[m] : m \in alloc'}
    BY <2>1, <2>2, <2>3, <2>4 DEF FinalizedWhenFreed
  <2> QED
    BY <1>6, <2>5 DEF FinalizedWhenFreed, OrderInv
<1> QED
  BY <1>3, <1>5, <1>6, <1>7, <1>8 DEF IInv

\* Reap unlinks the timer the scan stands on, and goes on to the next.
LEMMA ReapStep ==
    ASSUME IInv, FinalizedWhenFreed, Reap
    PROVE  IInv' /\ FinalizedWhenFreed'
<1>1. /\ te \in alloc /\ te \in Node /\ te # NULL
      /\ next[te] # te /\ prev[te] # te
  BY NullIsNoNode DEF Reap, IInv, TypeInv, ScanInv, OrderInv, LinksInv
<1>2. /\ alloc' = alloc \ {te} /\ id' = id /\ nextId' = nextId /\ maxId' = maxId /\ pc' = pc
      /\ te' = next[te] /\ data' = [data EXCEPT ![te] = 0]
      /\ finalized' = finalized \union {data[te]}
      /\ head' = IF prev[te] = NULL THEN next[te] ELSE head
      /\ next' = [m \in Node |-> IF m = te THEN NULL
                                 ELSE IF m = prev[te] THEN next[te] ELSE next[m]]
      /\ prev' = [m \in Node |-> IF m = te THEN NULL
                                 ELSE IF m = next[te] THEN prev[te] ELSE prev[m]]
  BY DEF Reap, Unlink
<1>3. TypeInv'
  BY <1>1, <1>2 DEF IInv, TypeInv, Pointer
<1>4. \A m \in alloc' :
        /\ m \in alloc /\ m # te /\ data'[m] = data[m]
        /\ next'[m] = IF m = prev[te] THEN next[te] ELSE next[m]
        /\ prev'[m] = IF m = next[te] THEN prev[te] ELSE prev[m]
  BY <1>1, <1>2 DEF IInv, TypeInv
<1>5. LinksInv'
  <2>1. head' # NULL => head' \in alloc' /\ prev'[head'] = NULL
    BY <1>1, <1>2, <1>4, NullIsNoNode DEF IInv, LinksInv, TypeInv
  <2>2. ASSUME NEW m \in alloc'
        PROVE  next'[m] # NULL => next'[m] \in alloc' /\ prev'[next'[m]] = m
    BY <1>1, <1>2, <1>4 DEF IInv, LinksInv, TypeInv
  <2>3. ASSUME NEW m \in alloc'
        PROVE  prev'[m] # NULL => prev'[m] \in alloc' /\ next'[prev'[m]] = m
    BY <1>1, <1>2, <1>4 DEF IInv, LinksInv, TypeInv
  <2>4. ASSUME NEW m \in alloc', prev'[m] = NULL PROVE m = head'
    BY <1>1, <1>2, <1>4, <2>4 DEF IInv, LinksInv, TypeInv
  <2> QED
    BY <2>1, <2>2, <2>3, <2>4 DEF LinksInv
<1>6. OrderInv'
  <2>1. ASSUME NEW m \in alloc', next'[m] # NULL PROVE data'[next'[m]] < data'[m]
    <3>1. next'[m] \in alloc'
      BY <1>5, <2>1 DEF LinksInv
    <3>2. data'[m] = data[m] /\ data'[next'[m]] = data[next'[m]]
      BY <1>4, <3>1
    <3>3. CASE m # prev[te]
      BY <1>4, <2>1, <3>2, <3>3 DEF IInv, OrderInv
    <3>4. CASE m = prev[te]
      <4>1. next[m] = te /\ next'[m] = next[te]
        BY <1>1, <1>4, <3>4, NullIsNoNode DEF IInv, LinksInv, TypeInv
      <4>2. data[te] < data[m] /\ data[next[te]] < data[te]
        BY <1>1, <1>4, <2>1, <4>1 DEF IInv, OrderInv
      <4> QED
        BY <1>1, <1>4, <3>1, <3>2, <4>1, <4>2 DEF IInv, TypeInv
    <3> QED
      BY <3>3, <3>4
  <2> QED
    BY <1>2, <1>4, <2>1 DEF IInv, OrderInv
<1>7. ScanInv'
  <2>1. CASE next[te] = NULL
    BY <1>2, <2>1 DEF Reap, IInv, ScanInv
  <2>2. CASE next[te] # NULL
    <3>1. next[te] \in alloc' /\ data'[next[te]] = data[next[te]]
      BY <1>1, <1>2, <1>4, <2>2 DEF IInv, LinksInv
    <3>2. data[next[te]] < data[te] /\ data[te] <= maxId /\ maxId >= -1
      BY <1>1, <2>2 DEF Reap, IInv, OrderInv, ScanInv
    <3> QED
      BY <1>1, <1>2, <3>1, <3>2 DEF Reap, IInv, TypeInv, ScanInv
  <2> QED
    BY <2>1, <2>2
<1>8. FinalizedWhenFreed'
  <2>1. {data'[m] : m \in alloc'} = {data[m] : m \in alloc} \ {data[te]}
    BY <1>1, <1>2, <1>4 DEF IInv, OrderInv
  <2>2. data[te] \in 0..(nextId - 1)
    BY <1>1 DEF IInv, OrderInv, TypeInv
  <2>3. finalized' = (0..(nextId' - 1)) \ {data'[m] : m \in alloc'}
    BY <1>1, <1>2, <2>1, <2>2 DEF FinalizedWhenFreed
  <2> QED
    BY <1>6, <2>3 DEF FinalizedWhenFreed, OrderInv
<1> QED
  BY <1>3, <1>5, <1>6, <1>7, <1>8 DEF IInv

\* The steps that change neither the list nor the numbers of the timers.
LEMMA QuietStep ==
    ASSUME IInv, FinalizedWhenFreed,
           UNCHANGED <<listVars, nextId, finalized>>,
           id' \in [Node -> Int],
           \A n \in alloc : id'[n] \in {AE_DELETED_EVENT_ID, data[n]},
           te' \in Pointer, maxId' \in Int, ScanInv'
    PROVE  IInv' /\ FinalizedWhenFreed'
<1>1. TypeInv'
  BY DEF IInv, TypeInv, listVars
<1>2. LinksInv'
  BY DEF IInv, LinksInv, listVars
<1>3. OrderInv'
  BY DEF IInv, OrderInv, listVars
<1>4. FinalizedWhenFreed'
  BY DEF FinalizedWhenFreed, listVars
<1> QED
  BY <1>1, <1>2, <1>3, <1>4 DEF IInv

\* The scan goes on to the next timer, which is older.
LEMMA NextStep ==
    ASSUME IInv, pc \in {"scan", "intimer"}, te # NULL, te' = next[te], pc' = "scan",
           UNCHANGED <<listVars, maxId>>
    PROVE  te' \in Pointer /\ maxId' \in Int /\ ScanInv'
<1>1. te \in alloc /\ te \in Node /\ data[te] <= maxId /\ maxId >= -1
  BY DEF IInv, ScanInv, TypeInv
<1>2. next[te] # NULL => next[te] \in alloc /\ data[next[te]] < data[te]
  BY <1>1 DEF IInv, LinksInv, OrderInv
<1>3. next[te] # NULL => data[next[te]] <= maxId
  BY <1>1, <1>2 DEF IInv, TypeInv
<1> QED
  BY <1>1, <1>2, <1>3 DEF IInv, TypeInv, ScanInv, listVars

LEMMA Step == IInv /\ FinalizedWhenFreed /\ [Next]_vars => IInv' /\ FinalizedWhenFreed'
<1> SUFFICES ASSUME IInv, FinalizedWhenFreed, [Next]_vars
             PROVE  IInv' /\ FinalizedWhenFreed'
  OBVIOUS
<1>0. /\ id \in [Node -> Int] /\ \A n \in alloc : id[n] \in {AE_DELETED_EVENT_ID, data[n]}
      /\ te \in Pointer /\ maxId \in Int /\ alloc \subseteq Node /\ AE_DELETED_EVENT_ID \in Int
  BY DEF IInv, TypeInv, OrderInv, AE_DELETED_EVENT_ID
<1>1. ASSUME NEW d \in Delays, aeCreateTimeEvent(d) PROVE IInv' /\ FinalizedWhenFreed'
  BY <1>1, CreateStep
<1>2. ASSUME NEW i \in 0..MaxTimers, aeDeleteTimeEvent(i) PROVE IInv' /\ FinalizedWhenFreed'
  <2>1. PICK n \in alloc : /\ id' = [id EXCEPT ![n] = AE_DELETED_EVENT_ID]
                           /\ UNCHANGED <<listVars, nextId, loopVars, finalized>>
    BY <1>2, Zenon DEF aeDeleteTimeEvent
  <2>2. ScanInv'
    BY <2>1 DEF IInv, ScanInv, listVars, loopVars
  <2> QED
    BY <1>0, <2>1, <2>2, QuietStep DEF loopVars
<1>3. CASE StartPoll \/ PollReturns \/ ScanEnds
  <2>1. /\ UNCHANGED <<listVars, id, nextId, finalized, te>>
        /\ pc' \notin {"scan", "intimer"} /\ maxId' \in Int
    BY <1>0, <1>3 DEF StartPoll, PollReturns, ScanEnds
  <2> QED
    BY <1>0, <2>1, QuietStep DEF ScanInv
<1>4. CASE processTimeEvents
  <2>1. /\ UNCHANGED <<listVars, id, nextId, finalized>>
        /\ te' = head /\ maxId' = nextId - 1 /\ pc' = "scan"
    BY <1>4 DEF processTimeEvents
  <2>2. ScanInv'
    BY <2>1 DEF IInv, TypeInv, LinksInv, OrderInv, ScanInv, listVars
  <2> QED
    BY <1>0, <2>1, <2>2, QuietStep DEF IInv, TypeInv
<1>5. CASE Reap
  BY <1>5, ReapStep
<1>6. CASE Skip
  <2>1. /\ UNCHANGED <<listVars, id, nextId, finalized, maxId>>
        /\ pc = "scan" /\ pc' = "scan" /\ te # NULL /\ te' = next[te]
    BY <1>6 DEF Skip
  <2> QED
    BY <1>0, <2>1, NextStep, QuietStep
<1>7. CASE TimerReturns
  <2>1. /\ UNCHANGED <<listVars, nextId, finalized, maxId>>
        /\ pc = "intimer" /\ pc' = "scan" /\ te # NULL /\ te' = next[te]
        /\ id' = id \/ id' = [id EXCEPT ![te] = AE_DELETED_EVENT_ID]
    BY <1>7 DEF TimerReturns, IInv, ScanInv
  <2> QED
    BY <1>0, <2>1, NextStep, QuietStep
<1>8. CASE Fire
  <2>1. UNCHANGED <<listVars, id, nextId, finalized, te, maxId>> /\ pc = "scan" /\ te # NULL
    BY <1>8 DEF Fire
  <2>2. ScanInv'
    BY <2>1 DEF IInv, ScanInv, listVars
  <2> QED
    BY <1>0, <2>1, <2>2, QuietStep
<1>9. CASE Tick \/ ClockSetBack \/ UNCHANGED vars
  <2>1. UNCHANGED <<listVars, id, nextId, finalized, te, maxId, pc>>
    BY <1>9 DEF Tick, ClockSetBack, vars, loopVars
  <2>2. ScanInv'
    BY <2>1 DEF IInv, ScanInv, listVars
  <2> QED
    BY <1>0, <2>1, <2>2, QuietStep
<1> QED
  BY <1>1, <1>2, <1>3, <1>4, <1>5, <1>6, <1>7, <1>8, <1>9 DEF Next

\* processTimeEvents never stands on a freed timer, whatever its handlers delete.
THEOREM ScanIsSafe == Spec => []CursorIsAllocated
<1>1. IInv => CursorIsAllocated
  BY DEF IInv, ScanInv, CursorIsAllocated
<1> QED
  BY <1>1, InitInv, Step, PTL DEF Spec

\* Every timer is finalized exactly when it is freed, and its number is its own until it
\* is deleted, whatever order timers are created, deleted and reaped in.
THEOREM TimersAreFinalized == Spec => []FinalizedWhenFreed
BY InitInv, Step, PTL DEF Spec

\* The scan never meets a timer that was created since it began, so that the test of
\* its number against maxId never fails.
THEOREM NewTimersAreSkipped == Spec => []NoNewTimerMet
<1>1. IInv => NoNewTimerMet
  <2> SUFFICES ASSUME IInv, pc = "scan", te \in alloc
               PROVE  id[te] <= maxId
    BY DEF NoNewTimerMet
  <2>1. te # NULL /\ maxId \in Int /\ data[te] \in Nat /\ id[te] \in {-1, data[te]}
    BY NullIsNoNode DEF IInv, TypeInv, OrderInv, AE_DELETED_EVENT_ID
  <2>2. data[te] <= maxId /\ maxId >= -1
    BY <2>1 DEF IInv, ScanInv
  <2> QED
    BY <2>1, <2>2
<1> QED
  BY <1>1, InitInv, Step, PTL DEF Spec

-----------------------------------------------------------------------------
(* The sleep of aeProcessEvents.                                            *)

\* The numbers the sleep is computed from.
TimeInv ==
    /\ alloc \subseteq Node /\ when \in [Node -> Nat]
    /\ now \in Nat /\ called \in Nat
    /\ timeout \in Int /\ timeout >= -1

\* While the loop sleeps only the clock moves: it shortens what is left of the sleep,
\* and the timers stay as they were when the loop read the clock.
LEMMA SleepStep ==
    TimeInv /\ SleepDelaysNoTimer /\ [Next]_vars => TimeInv' /\ SleepDelaysNoTimer'
<1> SUFFICES ASSUME TimeInv, SleepDelaysNoTimer, [Next]_vars
             PROVE  TimeInv' /\ SleepDelaysNoTimer'
  OBVIOUS
<1> USE AeTimeAssumption
<1>1. ASSUME NEW d \in Delays, aeCreateTimeEvent(d) PROVE TimeInv' /\ SleepDelaysNoTimer'
  <2>1. PICK n \in Node : alloc' = alloc \union {n} /\ when' = [when EXCEPT ![n] = now + d]
    BY <1>1, Zenon DEF aeCreateTimeEvent
  <2>2. pc' # "sleep" /\ UNCHANGED <<now, called, timeout>>
    BY <1>1 DEF aeCreateTimeEvent, ServerRuns, loopVars
  <2> QED
    BY <2>1, <2>2 DEF TimeInv, SleepDelaysNoTimer
<1>2. ASSUME NEW i \in 0..MaxTimers, aeDeleteTimeEvent(i) PROVE TimeInv' /\ SleepDelaysNoTimer'
  BY <1>2 DEF aeDeleteTimeEvent, ServerRuns, loopVars, listVars, TimeInv, SleepDelaysNoTimer
<1>3. CASE StartPoll
  <2>1. UNCHANGED <<alloc, id, when, now>> /\ called' = now
    BY <1>3 DEF StartPoll, listVars
  <2>2. CASE alloc = {}
    BY <1>3, <2>1, <2>2 DEF StartPoll, TimeInv, SleepDelaysNoTimer, Forever
  <2>3. CASE alloc # {}
    <3>1. PICK n \in alloc :
            /\ \A m \in alloc : when[n] <= when[m]
            /\ timeout' = IF when[n] > now THEN when[n] - now ELSE 0
      BY <1>3, <2>3 DEF StartPoll, aeSearchNearestTimer
    <3>2. timeout' \in Nat /\ (timeout' = 0 \/ called' + timeout' = when[n])
      BY <2>1, <3>1 DEF TimeInv
    <3>3. ASSUME NEW m \in alloc
          PROVE  timeout' # Forever /\ (timeout' = 0 \/ called' + timeout' <= when[m])
      BY <3>1, <3>2 DEF Forever
    <3> QED
      BY <2>1, <3>2, <3>3 DEF TimeInv, SleepDelaysNoTimer
  <2> QED
    BY <2>2, <2>3
<1>4. CASE PollReturns \/ Skip \/ Fire \/ ScanEnds
  BY <1>4 DEF PollReturns, Skip, Fire, ScanEnds, listVars, TimeInv, SleepDelaysNoTimer, Forever
<1>5. CASE processTimeEvents
  <2>1. when' \in [Node -> Nat]
    BY <1>5 DEF processTimeEvents, TimeInv
  <2> QED
    BY <1>5, <2>1 DEF processTimeEvents, listVars, TimeInv, SleepDelaysNoTimer
<1>6. CASE Reap
  BY <1>6, Zenon DEF Reap, TimeInv, SleepDelaysNoTimer
<1>7. CASE TimerReturns
  <2>1. when' = when \/ \E d \in Delays : when' = [when EXCEPT ![te] = now + d]
    BY <1>7 DEF TimerReturns
  <2>2. when' \in [Node -> Nat]
    BY <2>1 DEF TimeInv
  <2> QED
    BY <1>7, <2>2 DEF TimerReturns, listVars, TimeInv, SleepDelaysNoTimer
<1>8. CASE Tick
  <2>1. /\ UNCHANGED <<alloc, id, when, called, pc>> /\ now' = now + 1
        /\ timeout' = IF timeout > 0 THEN timeout - 1 ELSE timeout
    BY <1>8 DEF Tick, listVars
  <2>2. TimeInv'
    BY <2>1 DEF TimeInv
  <2>3. ASSUME pc = "sleep", NEW n \in alloc, Live(n)
        PROVE  timeout' # Forever /\ (timeout' = 0 \/ called' + timeout' <= when[n])
    <3>1. timeout # Forever /\ (timeout = 0 \/ called + timeout <= when[n])
      BY <2>3 DEF SleepDelaysNoTimer
    <3>2. when[n] \in Nat
      BY DEF TimeInv
    <3> QED
      BY <2>1, <3>1, <3>2 DEF TimeInv, Forever
  <2> QED
    BY <2>1, <2>2, <2>3 DEF SleepDelaysNoTimer, Live
<1>9. CASE ClockSetBack
  BY <1>9 DEF ClockSetBack, listVars, loopVars, TimeInv, SleepDelaysNoTimer, Live
<1>10. CASE UNCHANGED vars
  BY <1>10 DEF vars, listVars, loopVars, TimeInv, SleepDelaysNoTimer, Live
<1> QED
  BY <1>1, <1>2, <1>3, <1>4, <1>5, <1>6, <1>7, <1>8, <1>9, <1>10 DEF Next

\* No sleep of the event loop is longer than the time left, by the clock the loop read,
\* until any of its timers is due, for any timers and however the clock moves.
THEOREM SleepIsShort == Spec => []SleepDelaysNoTimer
<1>1. Init => TimeInv /\ SleepDelaysNoTimer
  BY DEF Init, TimeInv, SleepDelaysNoTimer, Forever
<1> QED
  BY <1>1, SleepStep, PTL DEF Spec
=============================================================================
