------------------------------- MODULE Clients -------------------------------
(***************************************************************************)
(* The clients of the server (networking.c): how they are created, read    *)
(* from, executed, written to and freed, and the queues that name them.    *)
(*                                                                         *)
(* The main thread runs the handlers of file events; with threaded reads a *)
(* handler only queues the client, and before the loop sleeps the threads  *)
(* read and parse the queued clients (IOThreads has the handshake, IOBatch *)
(* what it promises) and the main thread walks over the queue and executes *)
(* what they parsed.  While a command runs for long the server handles     *)
(* events inside it (processEventsWhileBlocked).                           *)
(*                                                                         *)
(* Data is abstracted: a query buffer is the number of complete commands   *)
(* in it, an output buffer is empty or not, and a queue of which only the  *)
(* members matter counts how often it holds a client.  The queue of reads  *)
(* is a sequence: its nodes are removed and added under an iterator.       *)
(***************************************************************************)
EXTENDS Integers, Sequences, FiniteSets

CONSTANTS
    Client,         \* the clients
    NULL,           \* no client
    MaxCommands,    \* bound: commands a connection sends
    Commands(_),    \* the kinds of command a client's readable handler runs
    BatchCommands,  \* the kinds run while the queue of reads is walked over
    Malformed       \* the clients whose peers send malformed input

CommandKinds == {"reply", "push", "kill", "quit", "block", "unblock",
                 "pause", "busy", "off"}

ASSUME ClientsAssumption ==
    /\ NULL \notin Client
    /\ MaxCommands \in Nat
    /\ \A c \in Client : Commands(c) \subseteq CommandKinds
    /\ BatchCommands \subseteq CommandKinds
    /\ Malformed \subseteq Client

PENDING_WRITE == "CLIENT_PENDING_WRITE"
PENDING_READ == "CLIENT_PENDING_READ"
PENDING_COMMAND == "CLIENT_PENDING_COMMAND"
CLOSE_ASAP == "CLIENT_CLOSE_ASAP"
CLOSE_AFTER_REPLY == "CLIENT_CLOSE_AFTER_REPLY"
BLOCKED == "CLIENT_BLOCKED"
UNBLOCKED == "CLIENT_UNBLOCKED"
PROTECTED == "CLIENT_PROTECTED"
REPLY_OFF == "CLIENT_REPLY_OFF"
Flag == {PENDING_WRITE, PENDING_READ, PENDING_COMMAND, CLOSE_ASAP,
         CLOSE_AFTER_REPLY, BLOCKED, UNBLOCKED, PROTECTED, REPLY_OFF}
R == "AE_READABLE"
W == "AE_WRITABLE"

VARIABLES
    live,     \* the clients that are allocated and in server.clients
    cl,       \* the state of each client, see Free
    sent,     \* how many commands the peer has sent so far
    pr,       \* server.clients_pending_read
    active,   \* io_threads_active
    paused,   \* server.clients_paused
    pc,       \* what the main thread does
    cur,      \* the client it does it for
    from,     \* the caller of the running processInputBuffer or command
    rest,     \* the nodes of pr the iterator has not returned yet
    stopping, \* 1 while stopThreadedIO handles the queue of reads
    dangling, \* 1 when the iterator points to a freed node
    todo,     \* the clients the threads have not read from yet
    loaded,   \* threads between loading and storing the list head
    ready     \* the clients whose readable event this poll has yet to handle

mainVars == <<pc, cur, from, rest, stopping, dangling>>
vars == <<live, cl, sent, pr, active, paused, mainVars, todo, loaded, ready>>

-----------------------------------------------------------------------------
(* A client, and the functions that change one client. *)

\* pw, close and unb count the client in clients_pending_write,
\* clients_to_close and unblocked_clients.
Free == [flags |-> {}, inb |-> 0, out |-> 0, ev |-> {},
         pw |-> 0, close |-> 0, unb |-> 0]

Has(r, f) == f \in r.flags
Set(r, f) == [r EXCEPT !.flags = @ \union {f}]
Clear(r, f) == [r EXCEPT !.flags = @ \ {f}]
Elements(s) == {s[i] : i \in 1..Len(s)}

\* s without the first node that holds c.
Remove(s, c) ==
    LET at == CHOOSE i \in 1..Len(s) : s[i] = c /\ \A k \in 1..(i - 1) : s[k] # c
    IN  IF c \in Elements(s)
        THEN [i \in 1..(Len(s) - 1) |-> IF i < at THEN s[i] ELSE s[i + 1]]
        ELSE s

\* s without the nodes that hold a member of S.
Without(s, S) ==
    LET kept == {i \in 1..Len(s) : s[i] \notin S}
        At(n) == CHOOSE i \in kept : Cardinality({k \in kept : k <= i}) = n
    IN  [n \in 1..Cardinality(kept) |-> s[At(n)]]

\* Faulty variants of the definitions below.
KeepPendingWrite(r) ==
    [Free EXCEPT !.pw = r.pw,
                 !.unb = IF Has(r, UNBLOCKED) THEN r.unb - 1 ELSE r.unb,
                 !.close = IF Has(r, CLOSE_ASAP) THEN r.close - 1 ELSE r.close]
FreeAsyncFlagOnly(r) == Set(r, CLOSE_ASAP)
WriteForgetsClose(r, outcome, installed) ==
    CASE outcome = "error" /\ r.out = 1 -> [Set(r, CLOSE_ASAP) EXCEPT !.close = 1]
      [] outcome = "some" /\ r.out = 1  -> r
      [] OTHER -> IF installed THEN [r EXCEPT !.out = 0, !.ev = @ \ {W}]
                               ELSE [r EXCEPT !.out = 0]
WriteKeepsFlag(r0, outcome, installs, threaded) ==
    [r0 EXCEPT !.pw = @ - 1, !.out = 0]
WriteWithoutHandler(r0, outcome, installs, threaded) ==
    [r0 EXCEPT !.pw = @ - 1, !.flags = @ \ {PENDING_WRITE},
               !.out = IF outcome = "all" THEN 0 ELSE @]
EndPauseOnly ==
    /\ pc = "events" /\ paused = 1
    /\ paused' = 0
    /\ UNCHANGED <<live, cl, sent, pr, active, mainVars, todo, loaded, ready>>

clientInstallWriteHandler(r) ==
    IF Has(r, PENDING_WRITE) THEN r
    ELSE [Set(r, PENDING_WRITE) EXCEPT !.pw = @ + 1]

\* A client with output pending is already queued or has its handler.
prepareClientToWrite(r) ==
    IF r.out = 1 THEN r ELSE clientInstallWriteHandler(r)

\* Nothing is added for a client that is to be closed after its reply.
addReply(r) ==
    IF Has(r, REPLY_OFF) THEN r
    ELSE [prepareClientToWrite(r) EXCEPT
             !.out = IF Has(r, CLOSE_AFTER_REPLY) THEN @ ELSE 1]

freeClientAsync(r) ==
    IF Has(r, CLOSE_ASAP) THEN r
    ELSE [Set(r, CLOSE_ASAP) EXCEPT !.close = @ + 1]

\* External (blocked.c): the client is queued for reprocessing.
queueClientForReprocessing(r) ==
    IF Has(r, UNBLOCKED) THEN r ELSE [Set(r, UNBLOCKED) EXCEPT !.unb = @ + 1]
unblockClient(r) == queueClientForReprocessing(Clear(r, BLOCKED))

\* What is left of a client in the queues once it was freed: each queue is
\* searched only when the flag for it is set.  A blocked client is unblocked
\* first, which queues it.
unlinkClient(r) ==
    [Free EXCEPT !.pw = IF Has(r, PENDING_WRITE) THEN r.pw - 1 ELSE r.pw,
                 !.unb = IF Has(r, UNBLOCKED) THEN r.unb - 1 ELSE r.unb,
                 !.close = IF Has(r, CLOSE_ASAP) THEN r.close - 1 ELSE r.close]
Unlinked(r) == unlinkClient(IF Has(r, BLOCKED) THEN unblockClient(r) ELSE r)

protectClient(r) == [Set(r, PROTECTED) EXCEPT !.ev = {}]

unprotectClient(r) ==
    LET u == [Clear(r, PROTECTED) EXCEPT !.ev = @ \union {R}]
    IN  IF r.out = 1 THEN clientInstallWriteHandler(u) ELSE u

\* One call of writeToClient: everything, some or nothing can be written.
WriteOutcomes == {"all", "some", "error"}
writeToClient(r, outcome, installed) ==
    LET done == IF installed THEN [r EXCEPT !.out = 0, !.ev = @ \ {W}]
                             ELSE [r EXCEPT !.out = 0]
    IN  CASE outcome = "error" /\ r.out = 1 -> freeClientAsync(r)
          [] outcome = "some" /\ r.out = 1  -> r
          [] OTHER -> IF Has(r, CLOSE_AFTER_REPLY) THEN freeClientAsync(done)
                                                   ELSE done

\* One client of handleClientsWithPendingWrites, or of a batch of writes and
\* the walk after it; the handler may fail to install.  The walk after a batch
\* installs it even for a client whose write failed.
WriteOrInstall(r0, outcome, installs, threaded) ==
    LET r == [Clear(r0, PENDING_WRITE) EXCEPT !.pw = @ - 1]
        w == writeToClient(r, outcome, FALSE)
    IN  IF Has(r, PROTECTED) /\ ~threaded THEN r
        ELSE IF w.out = 0 \/ (outcome = "error" /\ ~threaded) THEN w
        ELSE IF installs THEN [w EXCEPT !.ev = @ \union {W}]
        ELSE freeClientAsync(w)

\* The conditions under which processInputBuffer goes on with the buffer.
MayProcess(r) ==
    /\ r.inb > 0
    /\ paused = 0
    /\ r.flags \intersect {BLOCKED, PENDING_COMMAND, CLOSE_AFTER_REPLY, CLOSE_ASAP} = {}

-----------------------------------------------------------------------------
(* Handlers of file events, from aeMain or from processEventsWhileBlocked. *)

Polling == pc \in {"events", "nested"}
SetClient(c, r) == cl' = [cl EXCEPT ![c] = r]
Enter(where, c, caller) == pc' = where /\ cur' = c /\ from' = caller

\* acceptCommonHandler for a connection that is kept; memory that a queue still names
\* would be named by the new client.  One that is refused (beyond maxclients, or in
\* protected mode) is freed in the same call, before a queue or a handler has named it:
\* a step that changes nothing here.
acceptTcpHandler(c) ==
    /\ Polling
    /\ c \notin live
    /\ live' = live \union {c}
    /\ SetClient(c, [cl[c] EXCEPT !.ev = {R}])
    /\ UNCHANGED <<sent, pr, active, paused, mainVars, todo, loaded, ready>>

postponeClientRead(c) ==
    /\ Polling
    /\ c \in live /\ R \in cl[c].ev /\ c \in ready
    /\ active = 1 /\ ~Has(cl[c], PENDING_READ)
    /\ SetClient(c, Set(cl[c], PENDING_READ))
    /\ pr' = <<c>> \o pr
    /\ ready' = ready \ {c}
    /\ UNCHANGED <<live, sent, active, paused, mainVars, todo, loaded>>

\* The client reads n commands, or with n = 0 that its peer has gone.
Received(r, n) ==
    IF n = 0 THEN freeClientAsync(r) ELSE [r EXCEPT !.inb = @ + n]

\* Nested in a command that runs for long, commands are refused with an error.
Refuse(r) ==
    IF ~MayProcess(r) THEN r
    ELSE IF Has(r, PENDING_READ) THEN [Set(r, PENDING_COMMAND) EXCEPT !.inb = @ - 1]
    ELSE [addReply(r) EXCEPT !.inb = 0]

readQueryFromClient(c, n) ==
    LET r == Received(cl[c], n)
    IN  /\ Polling
        /\ c \in live /\ R \in cl[c].ev /\ c \in ready
        /\ active = 0 \/ Has(cl[c], PENDING_READ)
        /\ sent[c] + n <= MaxCommands
        /\ sent' = [sent EXCEPT ![c] = @ + n]
        /\ IF pc = "events" /\ n > 0
           THEN SetClient(c, r) /\ Enter("input", c, "events")
           ELSE SetClient(c, IF n > 0 THEN Refuse(r) ELSE r)
                /\ UNCHANGED <<pc, cur, from>>
        /\ ready' = ready \ {c}
        /\ UNCHANGED <<live, pr, active, paused, rest, stopping, dangling, todo, loaded>>

sendReplyToClient(c, outcome) ==
    /\ Polling
    /\ c \in live /\ W \in cl[c].ev
    /\ SetClient(c, writeToClient(cl[c], outcome, TRUE))
    /\ UNCHANGED <<live, sent, pr, active, paused, mainVars, todo, loaded, ready>>

\* All queued clients are written to; nothing else runs meanwhile.
WriteAll(threaded) ==
    \E outcome \in [Client -> WriteOutcomes], installs \in BOOLEAN :
        cl' = [c \in Client |->
                  IF cl[c].pw = 0 THEN cl[c]
                  ELSE WriteOrInstall(cl[c], outcome[c], installs, threaded)]

\* The synchronous code, from processEventsWhileBlocked and before sleeping.
handleClientsWithPendingWrites ==
    /\ pc \in {"nested", "sync"}
    /\ WriteAll(FALSE)
    /\ pc' = IF pc = "nested" THEN pc ELSE "events"
    /\ ready' = Client
    /\ UNCHANGED <<live, sent, pr, active, paused, cur, from, rest, stopping, dangling,
                   todo, loaded>>

-----------------------------------------------------------------------------
(* Processing what was read. *)

Back == CASE from = "events" -> "events"
          [] from = "batch" -> "collect"
          [] from = "unblocked" -> "unblocked"

\* One round of the loop of processInputBuffer.
processInputBuffer ==
    LET r == cl[cur]
        parsed == [r EXCEPT !.inb = @ - 1]
    IN  /\ pc = "input"
        /\ \/ /\ ~MayProcess(r)
              /\ Enter(Back, NULL, "events")
              /\ UNCHANGED cl
           \/ /\ MayProcess(r)
              /\ cur \in Malformed
              /\ SetClient(cur, Set(addReply(parsed), CLOSE_AFTER_REPLY))
              /\ UNCHANGED <<pc, cur, from>>
           \/ /\ MayProcess(r)
              /\ IF Has(r, PENDING_READ)
                 THEN SetClient(cur, Set(parsed, PENDING_COMMAND)) /\ UNCHANGED pc
                 ELSE SetClient(cur, parsed) /\ pc' = "command"
              /\ UNCHANGED <<cur, from>>
        /\ UNCHANGED <<live, sent, pr, active, paused, rest, stopping, dangling, todo,
                       loaded, ready>>

Kinds == IF from = "batch" THEN BatchCommands ELSE Commands(cur)

Running(kind) == pc = "command" /\ kind \in Kinds

\* When the pause ends is left open.
pauseClients == paused' = 1

\* Commands that change the client that sent them.
CommandOnSelf(kind) ==
    /\ Running(kind)
    /\ pc' = IF kind = "busy" THEN "nested" ELSE "input"
    /\ \/ kind = "reply" /\ SetClient(cur, addReply(cl[cur])) /\ UNCHANGED paused
       \/ kind = "quit" /\ UNCHANGED paused
             /\ SetClient(cur, Set(addReply(cl[cur]), CLOSE_AFTER_REPLY))
       \/ kind = "block" /\ SetClient(cur, Set(cl[cur], BLOCKED)) /\ UNCHANGED paused
       \/ kind = "off" /\ SetClient(cur, Set(cl[cur], REPLY_OFF)) /\ UNCHANGED paused
       \/ kind = "pause" /\ SetClient(cur, addReply(cl[cur])) /\ pauseClients
       \/ kind = "busy" /\ SetClient(cur, protectClient(cl[cur])) /\ UNCHANGED paused
    /\ ready' = IF kind = "busy" THEN Client ELSE ready
    /\ UNCHANGED <<live, sent, pr, active, cur, from, rest, stopping, dangling, todo,
                   loaded>>

\* The long command is over.  The entries of the poll it interrupted were
\* overwritten, so any client's event may still come.
EndBusy ==
    /\ pc = "nested"
    /\ SetClient(cur, addReply(unprotectClient(cl[cur])))
    /\ pc' = "input"
    /\ ready' = Client
    /\ UNCHANGED <<live, sent, pr, active, paused, cur, from, rest, stopping, dangling,
                   todo, loaded>>

\* PUBLISH to d, whose output may reach its limit, and CLIENT UNBLOCK d.
CommandOnOther(kind, d) ==
    /\ Running(kind)
    /\ d \in live \ {cur}
    /\ \/ kind = "push"
             /\ \E r \in {addReply(cl[d]), freeClientAsync(addReply(cl[d]))} :
                   cl' = [cl EXCEPT ![d] = r, ![cur] = addReply(@)]
       \/ kind = "unblock" /\ Has(cl[d], BLOCKED)
             /\ cl' = [cl EXCEPT ![d] = unblockClient(addReply(@)), ![cur] = addReply(@)]
    /\ pc' = "input"
    /\ UNCHANGED <<live, sent, pr, active, paused, cur, from, rest, stopping, dangling,
                   todo, loaded, ready>>

\* CLIENT KILL d: freeClient and unlinkClient.  Deleting the node that the
\* iterator holds leaves the iterator dangling.
clientKill(d) ==
    LET queued == Has(cl[d], PENDING_READ)
    IN  /\ Running("kill")
        /\ d \in live \ {cur}
        /\ IF Has(cl[d], PROTECTED)
           THEN /\ cl' = [cl EXCEPT ![d] = freeClientAsync(@), ![cur] = addReply(@)]
                /\ UNCHANGED <<live, pr, rest, dangling>>
           ELSE /\ cl' = [cl EXCEPT ![d] = Unlinked(@), ![cur] = addReply(@)]
                /\ live' = live \ {d}
                /\ pr' = IF queued THEN Remove(pr, d) ELSE pr
                /\ rest' = IF queued THEN Remove(rest, d) ELSE rest
                /\ dangling' = IF queued /\ rest # <<>> /\ Head(rest) = d
                               THEN 1 ELSE dangling
        /\ pc' = "input"
        /\ UNCHANGED <<sent, active, paused, cur, from, stopping, todo, loaded, ready>>

-----------------------------------------------------------------------------
(* Before the loop sleeps (beforeSleep, external, calls these in turn). *)

\* The queued clients are handed to the threads.
StartBatch ==
    /\ pc' = "threads"
    /\ todo' = Elements(pr)
    /\ ready' = Client
    /\ UNCHANGED <<live, cl, sent, pr, active, paused, cur, from, rest, dangling, loaded>>

handleClientsWithPendingReadsUsingThreads ==
    /\ pc = "events"
    /\ \/ active = 1 /\ pr # <<>> /\ StartBatch /\ UNCHANGED stopping
       \/ ~(active = 1 /\ pr # <<>>) /\ pc' = "unblocked" /\ ready' = Client
             /\ UNCHANGED <<live, cl, sent, pr, active, paused, cur, from, rest,
                            stopping, dangling, todo, loaded>>

\* A thread reads from c, or finds nothing to read, and parses the first
\* command.  Malformed input is answered at once.
ThreadRead(c, n) ==
    LET r == Received(cl[c], n)
        parsed == [r EXCEPT !.inb = @ - 1]
        refused == Set(addReply(parsed), CLOSE_AFTER_REPLY)
    IN  /\ pc = "threads" /\ c \in todo /\ loaded[c] = <<>>
        /\ sent[c] + n <= MaxCommands
        /\ sent' = [sent EXCEPT ![c] = @ + n]
        /\ \/ /\ SetClient(c, IF n > 0 /\ MayProcess(r)
                              THEN Set(parsed, PENDING_COMMAND) ELSE r)
              /\ todo' = todo \ {c}
              /\ UNCHANGED loaded
           \/ /\ n = 0
              /\ todo' = todo \ {c}
              /\ UNCHANGED <<cl, loaded>>
           \/ /\ n > 0 /\ MayProcess(r) /\ c \in Malformed
              /\ SetClient(c, [refused EXCEPT !.pw = r.pw])
              /\ IF refused.pw = r.pw
                 THEN todo' = todo \ {c} /\ UNCHANGED loaded
                 ELSE loaded' = [loaded EXCEPT ![c] = [d \in Client |-> cl[d].pw]]
                      /\ UNCHANGED todo
        /\ UNCHANGED <<live, pr, active, paused, mainVars, ready>>

\* The store of listAddNodeHead for the error reply of a thread: no lock
\* protects the list, so what was linked since the load is lost.
ThreadLink(c) ==
    /\ c \in todo /\ loaded[c] # <<>>
    /\ cl' = [d \in Client |->
                 [cl[d] EXCEPT !.pw = loaded[c][d] + IF d = c THEN 1 ELSE 0]]
    /\ loaded' = [loaded EXCEPT ![c] = <<>>]
    /\ todo' = todo \ {c}
    /\ UNCHANGED <<live, sent, pr, active, paused, mainVars, ready>>

ThreadsDone ==
    /\ pc = "threads" /\ todo = {}
    /\ pc' = "collect"
    /\ rest' = pr
    /\ UNCHANGED <<live, cl, sent, pr, active, paused, cur, from, stopping, dangling,
                   todo, loaded, ready>>

\* The walk over the queue: the parsed command is run without a further
\* check, and then the rest of the buffer is processed.
Collect ==
    LET c == Head(rest)
        r == Clear(cl[c], PENDING_READ)
    IN  /\ pc = "collect" /\ dangling = 0 /\ rest # <<>>
        /\ rest' = Tail(rest)
        /\ SetClient(c, Clear(r, PENDING_COMMAND))
        /\ Enter(IF Has(r, PENDING_COMMAND) THEN "command" ELSE "input", c, "batch")
        /\ UNCHANGED <<live, sent, pr, active, paused, stopping, dangling, todo,
                       loaded, ready>>

\* listEmpty; when stopThreadedIO asked for it the threads stop.
CollectEnd ==
    /\ pc = "collect" /\ dangling = 0 /\ rest = <<>>
    /\ pr' = <<>>
    /\ pc' = IF stopping = 1 THEN "sync" ELSE "unblocked"
    /\ active' = IF stopping = 1 THEN 0 ELSE active
    /\ stopping' = 0
    /\ UNCHANGED <<live, cl, sent, paused, cur, from, rest, dangling, todo, loaded,
                   ready>>

\* External (blocked.c): clients that were unblocked go on with their buffer.
processUnblockedClients ==
    /\ pc = "unblocked"
    /\ IF \E c \in Client : cl[c].unb > 0
       THEN \E c \in Client :
              /\ cl[c].unb > 0
              /\ SetClient(c, [Clear(cl[c], UNBLOCKED) EXCEPT !.unb = @ - 1])
              /\ IF Has(cl[c], BLOCKED) THEN UNCHANGED <<pc, cur, from>>
                                        ELSE Enter("input", c, "unblocked")
       ELSE pc' = "writes" /\ UNCHANGED <<cl, cur, from>>
    /\ UNCHANGED <<live, sent, pr, active, paused, rest, stopping, dangling, todo,
                   loaded, ready>>

\* Few clients to write to stop the threads, once the queue of reads is empty.
stopThreadedIO ==
    /\ pc = "writes" /\ active = 1
    /\ \E c \in Client : cl[c].pw > 0
    /\ \/ /\ pr = <<>>
          /\ active' = 0
          /\ pc' = "sync"
          /\ UNCHANGED <<live, cl, sent, pr, paused, cur, from, rest, stopping,
                         dangling, todo, loaded, ready>>
       \/ pr # <<>> /\ StartBatch /\ stopping' = 1

\* Nobody to write to, few clients, or enough of them for the threads.
handleClientsWithPendingWritesUsingThreads ==
    /\ pc = "writes"
    /\ \/ /\ \A c \in Client : cl[c].pw = 0
          /\ pc' = "events"
          /\ UNCHANGED <<cl, active>>
       \/ /\ \E c \in Client : cl[c].pw > 0
          /\ active = 0
          /\ pc' = "sync"
          /\ UNCHANGED <<cl, active>>
       \/ /\ \E c \in Client : cl[c].pw > 0
          /\ active' = 1
          /\ WriteAll(TRUE)
          /\ pc' = "events"
    /\ UNCHANGED <<live, sent, pr, paused, cur, from, rest, stopping, dangling, todo,
                   loaded, ready>>

-----------------------------------------------------------------------------
(* Called by serverCron (external). *)

freeClientsInAsyncFreeQueue ==
    LET S == {c \in Client : cl[c].close > 0}
    IN  /\ pc = "events"
        /\ S # {}
        /\ cl' = [c \in Client |->
                     IF c \in S
                     THEN [Unlinked(Clear(cl[c], CLOSE_ASAP)) EXCEPT !.close = @ - 1]
                     ELSE cl[c]]
        /\ live' = live \ S
        /\ pr' = Without(pr, {c \in S : Has(cl[c], PENDING_READ)})
        /\ UNCHANGED <<sent, active, paused, mainVars, todo, loaded, ready>>

\* The pause is over: clients that are not blocked go on with their buffer.
clientsArePaused ==
    /\ pc = "events" /\ paused = 1
    /\ paused' = 0
    /\ cl' = [c \in Client |->
                 IF c \in live /\ ~Has(cl[c], BLOCKED)
                 THEN queueClientForReprocessing(cl[c]) ELSE cl[c]]
    /\ UNCHANGED <<live, sent, pr, active, mainVars, todo, loaded, ready>>

-----------------------------------------------------------------------------
Init ==
    /\ live = {}
    /\ cl = [c \in Client |-> Free]
    /\ sent = [c \in Client |-> 0]
    /\ pr = <<>> /\ rest = <<>>
    /\ active = 0 /\ paused = 0 /\ stopping = 0 /\ dangling = 0
    /\ pc = "events" /\ from = "events"
    /\ cur = NULL
    /\ ready = Client
    /\ todo = {}
    /\ loaded = [c \in Client |-> <<>>]

\* Handlers that a poll of the event loop calls.
HandlerStep ==
    \/ \E c \in Client : acceptTcpHandler(c)
    \/ \E c \in Client : postponeClientRead(c)
    \/ \E c \in Client, n \in 0..MaxCommands : readQueryFromClient(c, n)
    \/ \E c \in Client, outcome \in WriteOutcomes : sendReplyToClient(c, outcome)
    \/ pc = "nested" /\ handleClientsWithPendingWrites

\* What the main thread does without waiting for anything outside the server.
MainStep ==
    \/ processInputBuffer
    \/ \E kind \in CommandKinds : CommandOnSelf(kind)
    \/ EndBusy
    \/ \E kind \in CommandKinds, d \in Client : CommandOnOther(kind, d)
    \/ \E d \in Client : clientKill(d)
    \/ handleClientsWithPendingReadsUsingThreads
    \/ ThreadsDone
    \/ Collect
    \/ CollectEnd
    \/ processUnblockedClients
    \/ stopThreadedIO
    \/ handleClientsWithPendingWritesUsingThreads
    \/ pc = "sync" /\ handleClientsWithPendingWrites

ThreadStep ==
    \/ \E c \in Client, n \in 0..MaxCommands : ThreadRead(c, n)
    \/ \E c \in Client : ThreadLink(c)

Next ==
    \/ HandlerStep
    \/ MainStep
    \/ ThreadStep
    \/ freeClientsInAsyncFreeQueue
    \/ clientsArePaused

Spec == Init /\ [][Next]_vars

\* The threads run, the main thread goes round its loop, and serverCron, a
\* time event of that loop, comes again and again.
FairSpec ==
    /\ Spec
    /\ WF_vars(MainStep) /\ WF_vars(ThreadStep)
    /\ SF_vars(freeClientsInAsyncFreeQueue)
    /\ SF_vars(clientsArePaused)

-----------------------------------------------------------------------------
\* The queue of reads is being walked over.
Walking == pc = "collect" \/ (from = "batch" /\ pc \in {"input", "command", "nested"})

\* The assertions of unlinkClient and freeClient: a client that carries the
\* flag of a queue is in that queue, once a thread that is queueing it is done
\* (networking.c:929, 937, 946, 1042).
UnlinkAssertsHold ==
    \A c \in live :
        /\ Has(cl[c], PENDING_WRITE) /\ loaded[c] = <<>> => cl[c].pw > 0
        /\ Has(cl[c], PENDING_READ) => c \in Elements(pr)
        /\ Has(cl[c], UNBLOCKED) => cl[c].unb > 0
        /\ Has(cl[c], CLOSE_ASAP) => cl[c].close > 0

\* No queue names a client that was freed, or a client twice, or one that
\* does not carry its flag: a queue is walked over without looking at whether
\* its clients still exist.
QueuesNameFlagged ==
    /\ \A c \in Client :
        /\ cl[c].pw <= (IF Has(cl[c], PENDING_WRITE) THEN 1 ELSE 0)
        /\ cl[c].unb <= (IF Has(cl[c], UNBLOCKED) THEN 1 ELSE 0)
        /\ cl[c].close <= (IF Has(cl[c], CLOSE_ASAP) THEN 1 ELSE 0)
        /\ c \notin live => cl[c] = Free
    /\ LET q == IF Walking THEN rest ELSE pr
       IN  \A i \in 1..Len(q) :
             /\ q[i] \in live /\ Has(cl[q[i]], PENDING_READ)
             /\ \A k \in 1..(i - 1) : q[k] # q[i]

\* Output that is pending is never forgotten: the client is queued to be
\* written, or its writable handler is installed, or it is about to be closed,
\* or it is protected (unprotectClient queues it again), or a thread is
\* queueing it at this moment.
NoReplyStranded ==
    \A c \in live :
        cl[c].out = 1 =>
            \/ cl[c].pw > 0
            \/ W \in cl[c].ev
            \/ cl[c].flags \intersect {CLOSE_ASAP, PROTECTED} # {}
            \/ loaded[c] # <<>>

\* The iterator over the queue of reads points to a node of the queue:
\* "It's valid to remove the currently returned element using listDelNode(),
\* but not to remove other elements" (adlist.c:216-217).
IteratorValid == dangling = 0

\* "While clients are paused no command is processed from clients"
\* (networking.c:2474).
NoCommandWhilePaused == pc = "command" => paused = 0

\* A client is flagged to be closed after its reply "only after we queued the
\* reply" (networking.c:2076-2077): it has one pending, whose end closes it,
\* or is being closed already.  Not so when the client turned replies off:
\* then nothing is queued and it stays connected.
ClosingHasReply ==
    \A c \in live :
        Has(cl[c], CLOSE_AFTER_REPLY) /\ ~Has(cl[c], REPLY_OFF) =>
            cl[c].out = 1 \/ Has(cl[c], CLOSE_ASAP) \/ cl[c].pw > 0

\* A client flagged to be closed as soon as possible is eventually freed, even
\* when it is in the middle of a batch, blocked or protected at that moment.
ClosingIsFreed ==
    \A c \in Client :
        (c \in live /\ Has(cl[c], CLOSE_ASAP)) ~> c \notin live

\* A command that was read is eventually run, also when it waited for the end
\* of a pause, unless its client is blocked or about to be closed.
CommandsAreServed ==
    \A c \in Client :
        (cl[c].inb > 0 \/ Has(cl[c], PENDING_COMMAND))
            ~> \/ cl[c].inb = 0 /\ ~Has(cl[c], PENDING_COMMAND)
               \/ cl[c].flags \intersect {BLOCKED, CLOSE_AFTER_REPLY, CLOSE_ASAP} # {}

=============================================================================
