----------------------------- MODULE IOThreads -----------------------------
(***************************************************************************)
(* The threaded I/O of networking.c: the handshake between the main thread *)
(* and the io_threads_num threads that read from, or write to, the sockets *)
(* of a batch of clients.                                                  *)
(*                                                                         *)
(* The shared state is the code's: one atomic counter, one mutex and one   *)
(* list of clients per thread, and the global io_threads_op.  Every access *)
(* the code makes to one of them is a step of its own, so the main thread  *)
(* and the threads interleave between any two of them.  The main thread is *)
(* the only one that runs while no batch is being served; its local        *)
(* variables are pc, it (the loop index), acc (the sum it accumulates      *)
(* while it waits) and ret (where a nested call returns to).               *)
(*                                                                         *)
(* What the read or write of one client does to that client is not here:   *)
(* a thread only visits the clients of its list.  The ghost variable       *)
(* visits counts the visits of the batch under way.                        *)
(***************************************************************************)
EXTENDS Naturals, Sequences, FiniteSets

CONSTANTS
  Client,               \* the connected clients
  Replica,              \* those that are a master or a replica of this server
  io_threads_num,       \* server.io_threads_num
  io_threads_do_reads   \* server.io_threads_do_reads

IO_THREADS_MAX_NUM == 128

ASSUME ConfigAssumption ==
  /\ io_threads_num \in 1 .. IO_THREADS_MAX_NUM
  /\ io_threads_do_reads \in BOOLEAN
  /\ Replica \subseteq Client

Thread == 0 .. io_threads_num - 1

\* initThreadedIO spawns nothing when a single thread is configured.
Spawned == IF io_threads_num = 1 THEN {} ELSE Thread

VARIABLES
  pc, it, acc, ret,     \* main thread
  batch,                \* the queue the current (or last) batch was taken from
  queue,                \* server.clients_pending_read and clients_pending_write
  io_threads_active,
  io_threads_op,
  io_threads_pending,
  io_threads_mutex,     \* who holds each mutex
  io_threads_list,
  tpc,                  \* where each thread is in IOThreadMain
  tnext,                \* the thread's list iterator: index of the next node
  visits                \* ghost

mainVars   == <<pc, it, acc, ret, batch, queue, io_threads_active, io_threads_op>>
threadVars == <<tpc, tnext, visits>>
sharedVars == <<io_threads_pending, io_threads_mutex, io_threads_list>>
vars       == <<mainVars, threadVars, sharedVars>>

Op == {"read", "write"}
Elements(s) == {s[i] : i \in DOMAIN s}

\* listSearchKey and listDelNode: the node of c, if any, is unlinked.
Without(s, c) ==
  IF c \notin Elements(s) THEN s
  ELSE LET i == CHOOSE i \in DOMAIN s : s[i] = c
       IN  [k \in 1 .. Len(s) - 1 |-> IF k < i THEN s[k] ELSE s[k + 1]]

----------------------------------------------------------------------------
(* Initialisation: initThreadedIO leaves the threads stopped.              *)

Init ==
  /\ pc = "loop" /\ it = 0 /\ acc = 0 /\ ret = "loop" /\ batch = "read"
  /\ queue = [o \in Op |-> <<>>]
  /\ io_threads_active = 0
  /\ io_threads_op = "read"
  /\ io_threads_pending = [j \in Thread |-> 0]
  /\ io_threads_mutex = [j \in Thread |-> IF j \in Spawned THEN "main" ELSE "none"]
  /\ io_threads_list = [j \in Thread |-> <<>>]
  /\ tpc = [j \in Thread |-> "spin"]
  /\ tnext = [j \in Thread |-> 1]
  /\ visits = [c \in Client |-> 0]

----------------------------------------------------------------------------
(* Faulty variants of steps defined below.  Each is the step with one      *)
(* plausible mistake, and breaks a property the step keeps.                *)

\* The queue is not searched: the PENDING_READ flag is not tested.
PostponeTwice(c) ==
  /\ pc = "loop"
  /\ io_threads_active = 1 /\ io_threads_do_reads /\ c \notin Replica
  /\ Len(queue["read"]) < 3
  /\ queue' = [queue EXCEPT !["read"] = <<c>> \o @]
  /\ UNCHANGED <<pc, it, acc, ret, batch, io_threads_active, io_threads_op,
                 threadVars, sharedVars>>

\* The threads are stopped without serving the pending reads first.
StopWithoutReads ==
  /\ pc = "loop" /\ queue["write"] # <<>>
  /\ IF Len(queue["write"]) < io_threads_num * 2
     THEN /\ pc' = IF io_threads_active = 1 THEN "lock" ELSE "loop"
          /\ queue' = IF io_threads_active = 1 THEN queue ELSE [queue EXCEPT !["write"] = <<>>]
          /\ UNCHANGED batch
     ELSE /\ pc' = IF io_threads_active = 1 THEN "distribute" ELSE "unlock"
          /\ batch' = "write" /\ UNCHANGED queue
  /\ it' = 0 /\ ret' = "loop"
  /\ UNCHANGED <<acc, io_threads_active, io_threads_op, threadVars, sharedVars>>

\* The counter of the last thread is not waited for.
WaitForAllButLast ==
  /\ pc = "wait"
  /\ IF it < io_threads_num - 1
     THEN acc' = acc + io_threads_pending[it] /\ it' = it + 1 /\ UNCHANGED pc
     ELSE /\ acc' = 0 /\ it' = 0
          /\ pc' = IF acc = 0 THEN "collect" ELSE "wait"
  /\ UNCHANGED <<ret, batch, queue, io_threads_active, io_threads_op, threadVars,
                 sharedVars>>

\* The thread spins with its mutex held.
HoldWhileIdle(j) ==
  /\ tpc[j] = "unlock"
  /\ IF io_threads_pending[j] = 0 THEN UNCHANGED <<tpc, io_threads_mutex>>
     ELSE /\ io_threads_mutex' = [io_threads_mutex EXCEPT ![j] = "none"]
          /\ tpc' = [tpc EXCEPT ![j] = "spin"]
  /\ UNCHANGED <<mainVars, tnext, visits, io_threads_pending, io_threads_list>>

\* The counter is not reset.
DropForgotten(j) ==
  /\ tpc[j] = "drop"
  /\ tpc' = [tpc EXCEPT ![j] = "spin"]
  /\ UNCHANGED <<mainVars, tnext, visits, sharedVars>>

----------------------------------------------------------------------------
(* The main thread, outside of the batches: event handlers and commands.   *)

\* A reply is produced for c: it is queued unless it already is.
clientInstallWriteHandler(c) ==
  /\ pc = "loop"
  /\ c \notin Elements(queue["write"])
  /\ queue' = [queue EXCEPT !["write"] = <<c>> \o @]
  /\ UNCHANGED <<pc, it, acc, ret, batch, io_threads_active, io_threads_op,
                 threadVars, sharedVars>>

\* The readable handler of c queues it for the threads.
postponeClientRead(c) ==
  /\ pc = "loop"
  /\ io_threads_active = 1 /\ io_threads_do_reads
  /\ c \notin Replica
  /\ c \notin Elements(queue["read"])
  /\ queue' = [queue EXCEPT !["read"] = <<c>> \o @]
  /\ UNCHANGED <<pc, it, acc, ret, batch, io_threads_active, io_threads_op,
                 threadVars, sharedVars>>

\* c is freed: it leaves the queues it is in.
unlinkClient(c) ==
  /\ pc = "loop"
  /\ \E o \in Op : c \in Elements(queue[o])
  /\ queue' = [o \in Op |-> Without(queue[o], c)]
  /\ UNCHANGED <<pc, it, acc, ret, batch, io_threads_active, io_threads_op,
                 threadVars, sharedVars>>

\* Entry of handleClientsWithPendingReadsUsingThreads when it has work to do.
ReadsToServe == /\ io_threads_active = 1 /\ io_threads_do_reads
                /\ queue["read"] # <<>>

handleClientsWithPendingReadsUsingThreads ==
  /\ pc = "loop"
  /\ ReadsToServe
  /\ pc' = "distribute" /\ it' = 0 /\ batch' = "read" /\ ret' = "loop"
  /\ UNCHANGED <<acc, queue, io_threads_active, io_threads_op, threadVars, sharedVars>>

\* stopThreadedIOIfNeeded: too few pending writes to keep the threads busy.
TooFewClients == \/ io_threads_num = 1
                 \/ Len(queue["write"]) < io_threads_num * 2

(* Entry of handleClientsWithPendingWritesUsingThreads.  With too few      *)
(* clients the threads are stopped if they run, which first serves the     *)
(* pending reads, and handleClientsWithPendingWrites drains the queue in   *)
(* the main thread; otherwise the threads are started if they do not run.  *)
handleClientsWithPendingWritesUsingThreads ==
  /\ pc = "loop"
  /\ queue["write"] # <<>>
  /\ \/ /\ TooFewClients /\ io_threads_active = 0
        /\ queue' = [queue EXCEPT !["write"] = <<>>]
        /\ UNCHANGED <<pc, it, batch, ret>>
     \/ /\ TooFewClients /\ io_threads_active = 1
        /\ ret' = "lock" /\ it' = 0
        /\ IF ReadsToServe THEN pc' = "distribute" /\ batch' = "read"
                           ELSE pc' = "lock" /\ UNCHANGED batch
        /\ UNCHANGED queue
     \/ /\ ~TooFewClients
        /\ pc' = IF io_threads_active = 1 THEN "distribute" ELSE "unlock"
        /\ it' = 0 /\ batch' = "write" /\ ret' = "loop"
        /\ UNCHANGED queue
  /\ UNCHANGED <<acc, io_threads_active, io_threads_op, threadVars, sharedVars>>

----------------------------------------------------------------------------
(* The main thread, starting and stopping the threads.                     *)

startThreadedIO ==
  /\ pc = "unlock"
  /\ IF it < io_threads_num
     THEN /\ io_threads_mutex' = [io_threads_mutex EXCEPT ![it] = "none"]
          /\ it' = it + 1
          /\ UNCHANGED <<pc, io_threads_active>>
     ELSE /\ io_threads_active' = 1
          /\ pc' = "distribute" /\ it' = 0
          /\ UNCHANGED io_threads_mutex
  /\ UNCHANGED <<acc, ret, batch, queue, io_threads_op, threadVars,
                 io_threads_pending, io_threads_list>>

\* Blocks on a mutex its thread holds.  Once all are locked the queued
\* writes are served by the main thread itself.
stopThreadedIO ==
  /\ pc = "lock"
  /\ IF it < io_threads_num
     THEN /\ io_threads_mutex[it] = "none"
          /\ io_threads_mutex' = [io_threads_mutex EXCEPT ![it] = "main"]
          /\ it' = it + 1
          /\ UNCHANGED <<pc, io_threads_active, queue>>
     ELSE /\ io_threads_active' = 0
          /\ pc' = "loop" /\ it' = 0
          /\ queue' = [queue EXCEPT !["write"] = <<>>]
          /\ UNCHANGED io_threads_mutex
  /\ ret' = IF pc' = "loop" THEN "loop" ELSE ret
  /\ UNCHANGED <<acc, batch, io_threads_op, threadVars,
                 io_threads_pending, io_threads_list>>

----------------------------------------------------------------------------
(* The main thread, serving a batch.                                       *)

\* Client number it of the queue goes to thread it % io_threads_num; at the
\* end io_threads_op is set.
Distribute ==
  /\ pc = "distribute"
  /\ IF it < Len(queue[batch])
     THEN /\ io_threads_list' = [io_threads_list EXCEPT ![it % io_threads_num] =
                                   Append(@, queue[batch][it + 1])]
          /\ it' = it + 1
          /\ UNCHANGED <<pc, io_threads_op>>
     ELSE /\ io_threads_op' = batch
          /\ pc' = "publish" /\ it' = 0
          /\ UNCHANGED io_threads_list
  /\ UNCHANGED <<acc, ret, batch, queue, io_threads_active, threadVars,
                 io_threads_pending, io_threads_mutex>>

\* The start condition: the counter of each thread gets its list's length.
Publish ==
  /\ pc = "publish"
  /\ IF it < io_threads_num
     THEN /\ io_threads_pending' = [io_threads_pending EXCEPT ![it] =
                                      Len(io_threads_list[it])]
          /\ it' = it + 1
          /\ UNCHANGED <<pc, acc>>
     ELSE /\ pc' = "wait" /\ it' = 0 /\ acc' = 0
          /\ UNCHANGED io_threads_pending
  /\ UNCHANGED <<ret, batch, queue, io_threads_active, io_threads_op, threadVars,
                 io_threads_mutex, io_threads_list>>

\* One read of a counter, or the test at the end of a round over them.
Wait ==
  /\ pc = "wait"
  /\ IF it < io_threads_num
     THEN acc' = acc + io_threads_pending[it] /\ it' = it + 1 /\ UNCHANGED pc
     ELSE /\ acc' = 0 /\ it' = 0
          /\ pc' = IF acc = 0 THEN "collect" ELSE "wait"
  /\ UNCHANGED <<ret, batch, queue, io_threads_active, io_threads_op, threadVars,
                 sharedVars>>

\* The second run over the queue.  After a read batch the client's command
\* is executed, which may queue a reply; after a write batch the write
\* handler is installed.  At the end the queue is emptied.
Collect ==
  /\ pc = "collect"
  /\ IF it < Len(queue[batch])
     THEN /\ it' = it + 1
          /\ LET c == queue[batch][it + 1]
             IN \/ UNCHANGED queue
                \/ /\ batch = "read" /\ c \notin Elements(queue["write"])
                   /\ queue' = [queue EXCEPT !["write"] = <<c>> \o @]
          /\ UNCHANGED <<pc, batch, visits>>
     ELSE /\ queue' = [queue EXCEPT ![batch] = <<>>]
          /\ pc' = ret /\ it' = 0 /\ batch' = "read"
          /\ visits' = [c \in Client |-> 0]
  /\ UNCHANGED <<acc, ret, io_threads_active, io_threads_op, tpc, tnext,
                 sharedVars>>

----------------------------------------------------------------------------
(* The threads: IOThreadMain.                                              *)

\* The bounded busy wait ends, with or without the counter having been seen
\* different from zero.
Spin(j) ==
  /\ tpc[j] = "spin"
  /\ tpc' = [tpc EXCEPT ![j] = "check"]
  /\ UNCHANGED <<mainVars, tnext, visits, sharedVars>>

Check(j) ==
  /\ tpc[j] = "check"
  /\ tpc' = [tpc EXCEPT ![j] = IF io_threads_pending[j] = 0 THEN "lock" ELSE "work"]
  /\ UNCHANGED <<mainVars, tnext, visits, sharedVars>>

\* "Give the main thread a chance to stop this thread."
Lock(j) ==
  /\ tpc[j] = "lock"
  /\ io_threads_mutex[j] = "none"
  /\ io_threads_mutex' = [io_threads_mutex EXCEPT ![j] = "thread"]
  /\ tpc' = [tpc EXCEPT ![j] = "unlock"]
  /\ UNCHANGED <<mainVars, tnext, visits, io_threads_pending, io_threads_list>>

Unlock(j) ==
  /\ tpc[j] = "unlock"
  /\ io_threads_mutex' = [io_threads_mutex EXCEPT ![j] = "none"]
  /\ tpc' = [tpc EXCEPT ![j] = "spin"]
  /\ UNCHANGED <<mainVars, tnext, visits, io_threads_pending, io_threads_list>>

\* One client is read from or written to, or the list is emptied.
Work(j) ==
  /\ tpc[j] = "work"
  /\ IF tnext[j] <= Len(io_threads_list[j])
     THEN /\ visits' = [visits EXCEPT ![io_threads_list[j][tnext[j]]] = @ + 1]
          /\ tnext' = [tnext EXCEPT ![j] = @ + 1]
          /\ UNCHANGED <<tpc, io_threads_list>>
     ELSE /\ io_threads_list' = [io_threads_list EXCEPT ![j] = <<>>]
          /\ tpc' = [tpc EXCEPT ![j] = "drop"]
          /\ tnext' = [tnext EXCEPT ![j] = 1]
          /\ UNCHANGED visits
  /\ UNCHANGED <<mainVars, io_threads_pending, io_threads_mutex>>

Drop(j) ==
  /\ tpc[j] = "drop"
  /\ io_threads_pending' = [io_threads_pending EXCEPT ![j] = 0]
  /\ tpc' = [tpc EXCEPT ![j] = "spin"]
  /\ UNCHANGED <<mainVars, tnext, visits, io_threads_mutex, io_threads_list>>

IOThreadMain(j) == Spin(j) \/ Check(j) \/ Lock(j) \/ Unlock(j) \/ Work(j) \/ Drop(j)

----------------------------------------------------------------------------

EventLoop ==
  \/ \E c \in Client : clientInstallWriteHandler(c) \/ postponeClientRead(c)
                       \/ unlinkClient(c)
  \/ handleClientsWithPendingReadsUsingThreads
  \/ handleClientsWithPendingWritesUsingThreads

MainBusy == startThreadedIO \/ stopThreadedIO \/ Distribute \/ Publish \/ Wait \/ Collect

Next == EventLoop \/ MainBusy \/ \E j \in Spawned : IOThreadMain(j)

(* The operating system runs every thread that can run.  A mutex is        *)
(* eventually granted to the main thread when it is free again and again:  *)
(* the thread's million-fold spin between two acquisitions is what the     *)
(* code counts on for that.  Nothing says that events keep coming.         *)
Fairness ==
  /\ WF_vars(MainBusy)
  /\ SF_vars(stopThreadedIO)
  /\ \A j \in Spawned : WF_vars(IOThreadMain(j))

Spec     == Init /\ [][Next]_vars
FairSpec == Spec /\ Fairness

----------------------------------------------------------------------------
(* What the handshake promises: the batches of IOBatch, each client of a   *)
(* batch served once, in any order, before the batch ends.                 *)

Serving == pc \in {"publish", "wait"}

Abstract == INSTANCE IOBatch WITH
  op   <- IF Serving THEN io_threads_op ELSE "none",
  todo <- IF Serving THEN {c \in Elements(queue[batch]) : visits[c] = 0} ELSE {}

\* The handshake implements the batches of IOBatch, their end included: the
\* busy wait of the main thread for the counters is over at some point.
AbstractSpec == Abstract!Spec

----------------------------------------------------------------------------
(* Properties.                                                             *)

MainTypeOK ==
  /\ pc \in {"loop", "unlock", "lock", "distribute", "publish", "wait", "collect"}
  /\ it \in Nat /\ acc \in Nat
  /\ ret \in {"loop", "lock"}

QueueTypeOK ==
  /\ batch \in Op /\ io_threads_op \in Op
  /\ queue \in [Op -> Seq(Client)]
  /\ io_threads_active \in {0, 1}

SharedTypeOK ==
  /\ io_threads_pending \in [Thread -> Nat]
  /\ io_threads_mutex \in [Thread -> {"none", "main", "thread"}]
  /\ io_threads_list \in [Thread -> Seq(Client)]

ThreadTypeOK ==
  /\ tpc \in [Thread -> {"spin", "check", "lock", "unlock", "work", "drop"}]
  /\ tnext \in [Thread -> Nat \ {0}]
  /\ visits \in [Client -> Nat]

\* Every variable stays in its range: in particular an iterator never points
\* before the first node, and a counter is never negative.
TypeOK == MainTypeOK /\ QueueTypeOK /\ SharedTypeOK /\ ThreadTypeOK

Working(j) == tpc[j] \in {"work", "drop"}

\* "the main thread will never touch our list before we drop the pending
\* count to 0" (IOThreadMain): while a thread works on its list the main
\* thread is publishing the counters of later threads or waiting, so it
\* touches neither the lists nor any client, and the thread's counter is not
\* zero (the thread's own serverAssert).
MainWaitsWhileThreadsWork ==
  \A j \in Thread : Working(j) =>
    /\ io_threads_pending[j] # 0
    /\ \/ pc = "wait"
       \/ pc = "publish" /\ j < it

\* No client is in the hands of two threads, nor twice in those of one: the
\* threads use the client structures without any lock.
ClientHasOneThread ==
  \A i, j \in Thread : \A m \in DOMAIN io_threads_list[i], n \in DOMAIN io_threads_list[j] :
    io_threads_list[i][m] = io_threads_list[j][n] => i = j /\ m = n

\* Stopping the threads leaves no client waiting for them: when they are not
\* active nobody would run clients_pending_read again.
NoReadLeftBehind ==
  io_threads_active = 0 /\ pc = "loop" => queue["read"] = <<>>

\* The mutexes tell whether the threads may run: the main thread holds all of
\* them when the threads are stopped, those not yet unlocked while it starts
\* them, and so never unlocks one it does not hold.
StoppedThreadsAreParked ==
  /\ io_threads_active = 0 /\ pc = "loop" =>
       \A j \in Spawned : io_threads_mutex[j] = "main"
  /\ pc = "unlock" => \A j \in Thread : j >= it => io_threads_mutex[j] = "main"

\* The kind of operation, a plain global that every thread reads once per
\* client, never changes while a thread works or has been told to.
OpFrozenDuringBatch ==
  [][io_threads_op' # io_threads_op =>
       \A j \in Thread : ~Working(j) /\ io_threads_pending[j] = 0]_vars

\* Stopping the threads terminates, although each of them keeps taking the
\* mutex the main thread wants.
StopTerminates == pc = "lock" ~> pc = "loop" /\ io_threads_active = 0
=============================================================================
