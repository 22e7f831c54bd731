------------------------------- MODULE AeTime -------------------------------
(***************************************************************************)
(* The time events of the ae event loop (ae.c): a doubly linked list of    *)
(* timers, deleted lazily, the sleep of aeProcessEvents until the nearest  *)
(* one, and processTimeEvents with its detection of a clock set back.      *)
(*                                                                         *)
(* The clock is in ticks, TicksPerSecond to the second: when_sec and       *)
(* when_ms are one number.  Handlers of file events, beforeSleep and the   *)
(* timers' own handlers create and delete timers while they run.           *)
(***************************************************************************)
EXTENDS Integers, FiniteSets

CONSTANTS
    Node,            \* the addresses zmalloc can return for a timer
    NULL,            \* the null pointer
    MaxTimers,       \* bound: timers created
    MaxNow,          \* bound: the clock
    Delays,          \* the delays timers are created with, in ticks
    TicksPerSecond,  \* resolution of time(NULL)
    SetBack          \* whether somebody sets the system clock back

ASSUME AeTimeAssumption ==
    /\ NULL \notin Node
    /\ MaxTimers \in Nat /\ MaxNow \in Nat
    /\ Delays \subseteq Nat
    /\ TicksPerSecond \in Nat \ {0}
    /\ SetBack \in BOOLEAN

AE_DELETED_EVENT_ID == -1
AE_NOMORE == -1
Forever == -1

VARIABLES
    head,     \* eventLoop->timeEventHead
    next,     \* te->next
    prev,     \* te->prev
    id,       \* te->id
    when,     \* te->when_sec and te->when_ms
    data,     \* te->clientData: the number the timer was created with
    alloc,    \* the nodes that are allocated
    nextId,   \* eventLoop->timeEventNextId
    lastTime, \* eventLoop->lastTime
    now,      \* the system clock
    pc,       \* where the loop is
    timeout,  \* what is left of the sleep of aeApiPoll, or Forever
    called,   \* ghost: when the running aeProcessEvents was called
    te,       \* te of processTimeEvents
    maxId,    \* maxId of processTimeEvents
    finalized \* ghost: the timers whose finalizerProc was called

listVars == <<head, next, prev, alloc, data>>
loopVars == <<pc, timeout, called, te, maxId>>
vars == <<listVars, id, when, nextId, lastTime, now, loopVars, finalized>>

Pointer == Node \union {NULL}
Second(t) == t \div TicksPerSecond
Live(n) == n \in alloc /\ id[n] # AE_DELETED_EVENT_ID
Due(n) == now >= when[n]

\* Code of the server runs and may call the API.
ServerRuns == pc \in {"beforesleep", "files", "intimer"}

-----------------------------------------------------------------------------
\* Faulty variants of the definitions below.
DeleteNow(i) ==
    \E n \in alloc :
        /\ ServerRuns
        /\ id[n] = i
        /\ id' = [id EXCEPT ![n] = AE_DELETED_EVENT_ID]
        /\ alloc' = alloc \ {n}
        /\ UNCHANGED <<head, next, prev, data, when, nextId, lastTime, now,
                       loopVars, finalized>>

FarthestTimer ==
    {n \in alloc : \A m \in alloc : when[m] <= when[n]}

-----------------------------------------------------------------------------
\* A new timer goes to the head of the list.
aeCreateTimeEvent(d) ==
    \E n \in Node \ alloc :
        /\ ServerRuns
        /\ nextId < MaxTimers
        /\ nextId' = nextId + 1
        /\ id' = [id EXCEPT ![n] = nextId]
        /\ when' = [when EXCEPT ![n] = now + d]
        /\ data' = [data EXCEPT ![n] = nextId]
        /\ next' = [next EXCEPT ![n] = head]
        /\ prev' = IF head # NULL THEN [prev EXCEPT ![n] = NULL, ![head] = n]
                                  ELSE [prev EXCEPT ![n] = NULL]
        /\ head' = n
        /\ alloc' = alloc \union {n}
        /\ UNCHANGED <<lastTime, now, loopVars, finalized>>

\* The node stays in the list until processTimeEvents meets it.
aeDeleteTimeEvent(i) ==
    \E n \in alloc :
        /\ ServerRuns
        /\ id[n] = i
        /\ id' = [id EXCEPT ![n] = AE_DELETED_EVENT_ID]
        /\ UNCHANGED <<listVars, when, nextId, lastTime, now, loopVars, finalized>>

\* The nearest timer, the deleted ones included.
aeSearchNearestTimer ==
    {n \in alloc : \A m \in alloc : when[n] <= when[m]}

\* Faulty variant of the next definition.
SleepUnclamped ==
    /\ pc = "beforesleep"
    /\ pc' = "sleep"
    /\ called' = now
    /\ IF alloc = {}
       THEN timeout' = Forever
       ELSE \E n \in aeSearchNearestTimer : timeout' = when[n] - now
    /\ UNCHANGED <<listVars, id, when, nextId, lastTime, now, te, maxId, finalized>>

\* aeProcessEvents computes how long it may sleep, and polls.
StartPoll ==
    /\ pc = "beforesleep"
    /\ pc' = "sleep"
    /\ called' = now
    /\ IF alloc = {}
       THEN timeout' = Forever
       ELSE \E n \in aeSearchNearestTimer :
               timeout' = IF when[n] > now THEN when[n] - now ELSE 0
    /\ UNCHANGED <<listVars, id, when, nextId, lastTime, now, te, maxId, finalized>>

\* The poll ends: the time is over, or a file event is ready.  File events
\* are handled before time events.
PollReturns ==
    /\ pc = "sleep"
    /\ pc' = "files"
    /\ timeout' = Forever
    /\ UNCHANGED <<listVars, id, when, nextId, lastTime, now, called, te, maxId,
                   finalized>>

\* Head of processTimeEvents: when the clock went back every timer is forced.
processTimeEvents ==
    /\ pc = "files"
    /\ pc' = "scan"
    /\ when' = IF Second(now) < lastTime
               THEN [n \in Node |-> IF n \in alloc THEN when[n] % TicksPerSecond
                                                   ELSE when[n]]
               ELSE when
    /\ lastTime' = Second(now)
    /\ te' = head
    /\ maxId' = nextId - 1
    /\ called' = 0
    /\ UNCHANGED <<listVars, id, nextId, now, timeout, finalized>>

\* The fields of a freed node are dead, and reset.
Unlink(n) ==
    /\ head' = IF prev[n] = NULL THEN next[n] ELSE head
    /\ next' = [m \in Node |-> IF m = n THEN NULL
                              ELSE IF m = prev[n] THEN next[n] ELSE next[m]]
    /\ prev' = [m \in Node |-> IF m = n THEN NULL
                              ELSE IF m = next[n] THEN prev[n] ELSE prev[m]]

\* Faulty variant of the next definition.
ReapUnfinalized ==
    /\ pc = "scan" /\ te # NULL
    /\ id[te] = AE_DELETED_EVENT_ID
    /\ Unlink(te)
    /\ alloc' = alloc \ {te}
    /\ te' = next[te]
    /\ UNCHANGED <<id, when, data, nextId, lastTime, now, pc, timeout, called, maxId,
                   finalized>>

\* A deleted timer is unlinked, finalized and freed.
Reap ==
    /\ pc = "scan" /\ te # NULL
    /\ id[te] = AE_DELETED_EVENT_ID
    /\ Unlink(te)
    /\ finalized' = finalized \union {data[te]}
    /\ alloc' = alloc \ {te}
    /\ when' = [when EXCEPT ![te] = 0]
    /\ data' = [data EXCEPT ![te] = 0]
    /\ te' = next[te]
    /\ UNCHANGED <<id, nextId, lastTime, now, pc, timeout, called, maxId>>

\* A timer that is not due, or was created since the scan began.
Skip ==
    /\ pc = "scan" /\ te # NULL
    /\ id[te] # AE_DELETED_EVENT_ID
    /\ id[te] > maxId \/ ~Due(te)
    /\ te' = next[te]
    /\ UNCHANGED <<listVars, id, when, nextId, lastTime, now, pc, timeout, called,
                   maxId, finalized>>

Fire ==
    /\ pc = "scan" /\ te # NULL
    /\ id[te] # AE_DELETED_EVENT_ID
    /\ id[te] <= maxId /\ Due(te)
    /\ pc' = "intimer"
    /\ UNCHANGED <<listVars, id, when, nextId, lastTime, now, timeout, called, te,
                   maxId, finalized>>

\* timeProc returns the delay until the next call, or AE_NOMORE.
TimerReturns ==
    \E retval \in Delays \union {AE_NOMORE} :
        /\ pc = "intimer"
        /\ pc' = "scan"
        /\ IF retval # AE_NOMORE
           THEN when' = [when EXCEPT ![te] = now + retval] /\ UNCHANGED id
           ELSE id' = [id EXCEPT ![te] = AE_DELETED_EVENT_ID] /\ UNCHANGED when
        /\ te' = next[te]
        /\ UNCHANGED <<listVars, nextId, lastTime, now, timeout, called, maxId,
                       finalized>>

ScanEnds ==
    /\ pc = "scan" /\ te = NULL
    /\ pc' = "beforesleep"
    /\ maxId' = -1
    /\ UNCHANGED <<listVars, id, when, nextId, lastTime, now, timeout, called, te,
                   finalized>>

-----------------------------------------------------------------------------
\* The clock runs, and may be set back by somebody else.
Tick ==
    /\ now < MaxNow
    /\ now' = now + 1
    /\ timeout' = IF timeout > 0 THEN timeout - 1 ELSE timeout
    /\ UNCHANGED <<listVars, id, when, nextId, lastTime, pc, called, te, maxId,
                   finalized>>

ClockSetBack ==
    /\ SetBack
    /\ now' \in 0..(now - 1)
    /\ UNCHANGED <<listVars, id, when, nextId, lastTime, loopVars, finalized>>

Init ==
    /\ head = NULL
    /\ next = [n \in Node |-> NULL]
    /\ prev = [n \in Node |-> NULL]
    /\ id = [n \in Node |-> AE_DELETED_EVENT_ID]
    /\ when = [n \in Node |-> 0]
    /\ data = [n \in Node |-> 0]
    /\ alloc = {}
    /\ nextId = 0
    /\ now = 0
    /\ lastTime = Second(now)
    /\ pc = "beforesleep"
    /\ timeout = Forever
    /\ called = 0
    /\ te = NULL
    /\ maxId = -1
    /\ finalized = {}

\* The loop's own steps; with nothing to wake it the poll goes on.
LoopStep ==
    \/ StartPoll
    \/ timeout = 0 /\ PollReturns
    \/ processTimeEvents
    \/ Reap \/ Skip \/ Fire \/ TimerReturns \/ ScanEnds

Next ==
    \/ \E d \in Delays : aeCreateTimeEvent(d)
    \/ \E i \in 0..MaxTimers : aeDeleteTimeEvent(i)
    \/ StartPoll
    \/ PollReturns
    \/ processTimeEvents
    \/ Reap
    \/ Skip
    \/ Fire
    \/ TimerReturns
    \/ ScanEnds
    \/ Tick
    \/ ClockSetBack

Spec == Init /\ [][Next]_vars

\* aeMain calls aeProcessEvents for ever, poll returns when its timeout is
\* over, and every handler returns.
FairSpec == Spec /\ WF_vars(LoopStep)

-----------------------------------------------------------------------------
\* processTimeEvents never stands on a freed timer, whatever the handler it
\* has just called deleted: the reason why timers are deleted lazily.
CursorIsAllocated == pc \in {"scan", "intimer"} => te \in alloc \union {NULL}

\* The check of te->id against maxId never finds a timer that was created
\* during the scan, as its comment says, because timers are created at the
\* head.
NoNewTimerMet ==
    pc = "scan" /\ te \in alloc => id[te] <= maxId

\* The sleep of a call is never longer than the time that, by the clock it
\* read, is left until any timer is due: aeSearchNearestTimer is used "to know
\* how many time the select can be put in sleep without to delay any event".
SleepDelaysNoTimer ==
    pc = "sleep" =>
        \A n \in alloc : Live(n) =>
            timeout # Forever /\ (timeout = 0 \/ called + timeout <= when[n])

\* Every timer is finalized exactly when it leaves the list.
FinalizedWhenFreed ==
    /\ finalized = (0..(nextId - 1)) \ {data[n] : n \in alloc}
    /\ \A n \in alloc : id[n] \in {AE_DELETED_EVENT_ID, data[n]}

\* A timer that is due runs, unless it is deleted or the clock is set back
\* first: neither handlers that create and delete timers nor file events
\* starve it.
DueTimerFires ==
    \A n \in Node :
        (Live(n) /\ Due(n)) ~> (~Live(n) \/ ~Due(n) \/ (pc = "intimer" /\ te = n))

=============================================================================
