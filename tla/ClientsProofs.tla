---------------------------- MODULE ClientsProofs ----------------------------
(***************************************************************************)
(* Proofs about Clients, for any number of clients, commands and batches: the *)
(* steps before the loop sleeps and those of the threads, and the theorems.  *)
(* A theorem that needs Sequential or NoBusy says so.                       *)
(***************************************************************************)
EXTENDS ClientsInvariant

-----------------------------------------------------------------------------
(* Before the loop sleeps.                                                 *)

LEMMA StartKeeps ==
    ASSUME IInv, StartBatch, pc \in {"events", "writes"}
    PROVE  IInv'
<1>1. /\ pc' = "threads" /\ todo' = Elements(pr)
      /\ UNCHANGED <<live, cl, pr, cur, from, rest, loaded>>
  BY DEF StartBatch
<1>2. todo = {} /\ TypeInv
  BY NotThreads, Zenon
<1>3. Elements(pr) \subseteq Client
  BY <1>2 DEF TypeInv, Elements
<1>4. TypeInv' /\ MainInv' /\ (Walking' <=> Walking)
  BY <1>1, <1>2, <1>3 DEF TypeInv, MainInv, Walking, Places, Inside
<1> QED
  BY <1>1, <1>2, <1>4, MoveOn

LEMMA PendingReadsKeeps ==
    ASSUME IInv, handleClientsWithPendingReadsUsingThreads
    PROVE  IInv'
<1>1. pc = "events"
  BY DEF handleClientsWithPendingReadsUsingThreads
<1>2. CASE StartBatch
  BY <1>1, <1>2, StartKeeps
<1>3. CASE pc' = "unblocked" /\ UNCHANGED <<live, cl, pr, cur, from, rest, todo, loaded>>
  <2>1. todo = {} /\ TypeInv
    BY <1>1, NotThreads
  <2>2. TypeInv' /\ MainInv' /\ (Walking' <=> Walking)
    BY <1>1, <1>3, <2>1 DEF TypeInv, MainInv, Walking, Places, Inside
  <2>3. todo' \subseteq Elements(pr)
    BY <1>3, <2>1
  <2> QED
    BY <1>3, <2>1, <2>2, <2>3, MoveOn
<1> QED
  BY <1>2, <1>3 DEF handleClientsWithPendingReadsUsingThreads

LEMMA StopThreadedKeeps ==
    ASSUME IInv, stopThreadedIO
    PROVE  IInv'
<1>1. pc = "writes"
  BY DEF stopThreadedIO
<1>2. CASE StartBatch
  BY <1>1, <1>2, StartKeeps
<1>3. CASE pc' = "sync" /\ UNCHANGED <<live, cl, pr, cur, from, rest, todo, loaded>>
  <2>1. todo = {} /\ TypeInv
    BY <1>1, NotThreads
  <2>2. TypeInv' /\ MainInv' /\ (Walking' <=> Walking)
    BY <1>1, <1>3, <2>1 DEF TypeInv, MainInv, Walking, Places, Inside
  <2>3. todo' \subseteq Elements(pr)
    BY <1>3, <2>1
  <2> QED
    BY <1>3, <2>1, <2>2, <2>3, MoveOn
<1> QED
  BY <1>2, <1>3 DEF stopThreadedIO

LEMMA WritesThreadedKeeps ==
    ASSUME IInv, handleClientsWithPendingWritesUsingThreads
    PROVE  IInv'
<1>1. /\ pc = "writes" /\ pc' \in {"events", "sync"} /\ (cl' = cl \/ WriteAll(TRUE))
      /\ UNCHANGED <<live, pr, cur, from, rest, todo, loaded>>
  BY Zenon DEF handleClientsWithPendingWritesUsingThreads
<1>2. todo = {} /\ TypeInv /\ pc # "threads"
  BY <1>1, NotThreads
<1>3. TypeInv' /\ MainInv' /\ (Walking' <=> Walking)
  BY <1>1, <1>2 DEF TypeInv, MainInv, Walking, Places, Inside
<1>4. CASE cl' = cl
  <2>1. todo' = {} /\ todo' \subseteq Elements(pr)
    BY <1>1, <1>2
  <2> QED
    BY <1>1, <1>2, <1>3, <1>4, <2>1, MoveOn
<1>5. CASE WriteAll(TRUE)
  <2>1. /\ DOMAIN cl' = Client /\ cl' = [c \in Client |-> cl'[c]]
        /\ \A c \in Client : Makes(cl[c], cl'[c], FALSE)
        /\ Sequential => \A c \in Client \ live : cl'[c] = cl[c]
    BY <1>2, <1>5, WriteAllMakes, TRUE \in BOOLEAN, Zenon
  <2> QED
    BY <1>1, <1>2, <1>3, <2>1, ManyClients, Zenon
<1> QED
  BY <1>1, <1>4, <1>5, Zenon

LEMMA UnblockedKeeps ==
    ASSUME IInv, processUnblockedClients
    PROVE  IInv'
<1>1. pc = "unblocked" /\ UNCHANGED <<live, pr, rest, todo, loaded>>
  BY DEF processUnblockedClients
<1>2. /\ todo = {} /\ TypeInv /\ \A d \in Client : loaded[d] = <<>> /\ RecInv(cl[d], FALSE)
  BY <1>1, NotThreads, Zenon
<1>3. CASE pc' = "writes" /\ UNCHANGED <<cl, cur, from>>
  <2>1. TypeInv' /\ MainInv' /\ (Walking' <=> Walking) /\ todo' \subseteq Elements(pr)
    BY <1>1, <1>2, <1>3 DEF TypeInv, MainInv, Walking, Places, Inside
  <2> QED
    BY <1>1, <1>2, <1>3, <2>1, MoveOn
<1>4. ASSUME NEW c \in Client, cl[c].unb > 0,
             cl' = [cl EXCEPT ![c] = [Clear(cl[c], UNBLOCKED) EXCEPT !.unb = @ - 1]],
             UNCHANGED <<pc, cur, from>> \/ (pc' = "input" /\ cur' = c /\ from' = "unblocked")
      PROVE  IInv'
  <2>1. PICK n : n = [Clear(cl[c], UNBLOCKED) EXCEPT !.unb = @ - 1]
    BY Zenon
  <2>2. Makes(cl[c], n, FALSE)
    <3>1. RecInv(cl[c], FALSE)
      BY <1>2, Zenon
    <3> QED
      BY <1>4, <2>1, <3>1, DequeueMakes, FALSE \in BOOLEAN, Zenon
  <2>3. Sequential => c \in live
    BY <1>4 DEF IInv, Order, FreeInv, Free
  <2>4. TypeInv' /\ (Sequential => MainInv') /\ (Walking' <=> Walking)
    BY <1>1, <1>2, <1>4, <2>3 DEF TypeInv, MainInv, Walking, Places, Inside
  <2> QED
    BY <1>1, <1>2, <1>4, <2>1, <2>2, <2>3, <2>4, OneClient, Zenon
<1>5. CASE \E c \in Client : cl[c].unb > 0
  <2>1. PICK c \in Client :
          /\ cl[c].unb > 0
          /\ cl' = [cl EXCEPT ![c] = [Clear(cl[c], UNBLOCKED) EXCEPT !.unb = @ - 1]]
          /\ UNCHANGED <<pc, cur, from>> \/ (pc' = "input" /\ cur' = c /\ from' = "unblocked")
    BY <1>5 DEF processUnblockedClients, SetClient, Enter
  <2> QED
    BY <1>4, <2>1, Zenon
<1> QED
  BY <1>3, <1>5 DEF processUnblockedClients

\* The walk starts with the whole queue.
LEMMA ThreadsDoneKeeps ==
    ASSUME IInv, ThreadsDone
    PROVE  IInv'
<1>1. /\ pc = "threads" /\ todo = {} /\ pc' = "collect" /\ rest' = pr
      /\ UNCHANGED <<live, cl, pr, cur, from, todo, loaded>>
  BY DEF ThreadsDone
<1>2. TypeInv /\ Core /\ \A c \in Client : RecInv(cl[c], FALSE)
  BY <1>1, QuietFacts, Zenon DEF IInv, Core
<1>3. TypeInv'
  BY <1>1, <1>2 DEF TypeInv, Places, Inside
<1>4. Core'
  BY <1>1, <1>2, <1>3, QuietStep, Zenon DEF Core, RecordsInv
<1>5. ASSUME Sequential PROVE Order'
  <2>1. FreeInv' /\ MainInv'
    BY <1>1, <1>5 DEF IInv, Order, FreeInv, MainInv, Inside
  <2>2. QueueInv /\ Queue = pr /\ Queue' = pr
    BY <1>1, <1>5 DEF IInv, Order, Queue, Walking
  <2>3. /\ Distinct(Queue)' /\ Elements(Queue)' = Elements(pr)
        /\ Elements(rest)' = Elements(pr) /\ Elements(pr)' = Elements(pr)
    BY <1>1, <2>2 DEF QueueInv, Distinct, Elements
  <2>4. QueueInv'
    BY ONLY <1>1, <2>2, <2>3 DEF QueueInv
  <2> QED
    BY <2>1, <2>4 DEF Order
<1> QED
  BY <1>4, <1>5 DEF IInv

\* A client comes off the queue with its flag cleared.
LEMMA CollectKeeps ==
    ASSUME IInv, Collect
    PROVE  IInv'
<1>1. PICK c : c = Head(rest)
  OBVIOUS
<1>2. PICK x : x = Clear(Clear(cl[c], PENDING_READ), PENDING_COMMAND)
  OBVIOUS
<1>3. /\ pc = "collect" /\ rest # <<>> /\ rest' = Tail(rest) /\ cl' = [cl EXCEPT ![c] = x]
      /\ pc' \in {"command", "input"} /\ cur' = c /\ from' = "batch"
      /\ UNCHANGED <<live, pr, todo, loaded>>
  BY <1>1, <1>2 DEF Collect, SetClient, Enter
<1>4. /\ todo = {} /\ TypeInv /\ \A d \in Client : loaded[d] = <<>> /\ RecInv(cl[d], FALSE)
  BY <1>3, NotThreads, Zenon
<1>5. /\ rest \in Seq(Client) /\ pr \in Seq(Client) /\ c \in Client /\ rest' \in Seq(Client)
      /\ cl \in [Client -> Rec]
  BY <1>1, <1>3, <1>4 DEF TypeInv, IInv, Core, RecordsInv
<1>6. RecInv(x, FALSE) /\ PENDING_READ \notin x.flags /\ x \in Rec
  <2>1. PICK y : y = Clear(cl[c], PENDING_READ)
    OBVIOUS
  <2>2. RecInv(y, FALSE) /\ PENDING_READ \notin y.flags
    BY <1>4, <1>5, <2>1, SetReadMakes, FALSE \in BOOLEAN, Zenon
  <2>3. Makes(y, Clear(y, PENDING_COMMAND), FALSE)
    <3>1. PENDING_COMMAND \in {BLOCKED, PENDING_COMMAND}
      OBVIOUS
    <3> QED
      BY <2>2, <3>1, SetNeutralMakes, FALSE \in BOOLEAN, Zenon
  <2> QED
    BY <1>2, <2>1, <2>2, <2>3, Zenon DEF Makes, RecInv
<1>7. \A d \in Client : cl'[d] = IF d = c THEN x ELSE cl[d]
  BY <1>3, <1>5
<1>8. TypeInv'
  BY <1>3, <1>4, <1>5 DEF TypeInv, Places, Inside
<1>9. Core'
  <2>1. cl' \in [Client -> Rec]
    BY <1>3, <1>5, <1>6
  <2>2. \A d \in Client : RecInv(cl'[d], FALSE)
    BY <1>4, <1>6, <1>7, Zenon
  <2> QED
    BY <1>3, <1>4, <1>8, <2>1, <2>2, QuietStep, Zenon DEF IInv
<1>10. ASSUME Sequential PROVE Order'
  <2>1. QueueInv /\ Queue = rest /\ Queue' = rest' /\ Walking /\ Walking'
    BY <1>3, <1>10 DEF IInv, Order, Queue, Walking, Inside
  <2>2. Distinct(rest) /\ \A d \in Elements(rest) : d \in live /\ PENDING_READ \in cl[d].flags
    BY <2>1 DEF QueueInv
  <2>3. Distinct(rest') /\ c \in Elements(rest) /\ Elements(rest') = Elements(rest) \ {c}
    BY <1>1, <1>3, <1>5, <2>2, TailFacts
  <2>4. FreeInv'
    BY <1>3, <1>7, <1>10, <2>2, <2>3 DEF IInv, Order, FreeInv
  <2>5. MainInv'
    BY <1>3, <2>2, <2>3 DEF MainInv
  <2>6. /\ Distinct(Queue)' /\ Elements(Queue)' = Elements(rest) \ {c}
        /\ Elements(rest)' = Elements(rest) \ {c} /\ Elements(pr)' = Elements(pr)
    <3>1. Distinct(Queue)'
      BY ONLY <2>1, <2>3 DEF Distinct
    <3>2. Elements(Queue)' = Elements(rest')
      BY ONLY <2>1 DEF Elements
    <3>3. Elements(rest)' = Elements(rest')
      BY ONLY Zenon DEF Elements
    <3>4. Elements(pr)' = Elements(pr)
      BY ONLY <1>3, Zenon DEF Elements
    <3> QED
      BY ONLY <2>3, <3>1, <3>2, <3>3, <3>4
  <2>7. /\ Elements(rest) \subseteq Elements(pr) /\ Elements(rest) \subseteq Client
        /\ NoBusy => \A d \in Client : PENDING_READ \in cl[d].flags => d \in Elements(rest)
    <3>1. Elements(rest) \subseteq Client
      BY <1>5 DEF Elements
    <3> QED
      BY <2>1, <3>1 DEF QueueInv
  <2>8. QueueInv'
    BY ONLY <1>3, <1>4, <1>6, <1>7, <2>2, <2>6, <2>7 DEF QueueInv
  <2> QED
    BY <2>4, <2>5, <2>8 DEF Order
<1> QED
  BY <1>9, <1>10 DEF IInv

LEMMA CollectEndKeeps ==
    ASSUME IInv, CollectEnd
    PROVE  IInv'
<1>1. /\ pc = "collect" /\ rest = <<>> /\ pr' = <<>> /\ pc' \in {"sync", "unblocked"}
      /\ UNCHANGED <<live, cl, cur, from, rest, todo, loaded>>
  BY DEF CollectEnd
<1>2. /\ todo = {} /\ TypeInv /\ \A d \in Client : loaded[d] = <<>> /\ RecInv(cl[d], FALSE)
  BY <1>1, NotThreads, Zenon
<1>3. TypeInv'
  BY <1>1, <1>2 DEF TypeInv, Places, Inside
<1>4. Core'
  BY <1>1, <1>2, <1>3, QuietStep, Zenon DEF IInv, Core, RecordsInv
<1>5. ASSUME Sequential PROVE Order'
  <2>1. FreeInv' /\ MainInv'
    BY <1>1, <1>5 DEF IInv, Order, FreeInv, MainInv, Inside
  <2>2. QueueInv /\ Queue = <<>> /\ Queue' = <<>> /\ ~Walking'
    BY <1>1, <1>5 DEF IInv, Order, Queue, Walking
  <2>3. Distinct(Queue)' /\ Elements(Queue)' = {} /\ Elements(Queue) = {}
    BY <2>2 DEF Distinct, Elements
  <2>4. NoBusy => \A d \in Client : PENDING_READ \notin cl[d].flags
    BY <2>2, <2>3 DEF QueueInv
  <2>5. QueueInv'
    BY ONLY <1>1, <1>2, <2>2, <2>3, <2>4 DEF QueueInv
  <2> QED
    BY <2>1, <2>5 DEF Order
<1> QED
  BY <1>4, <1>5 DEF IInv

-----------------------------------------------------------------------------
(* Called by serverCron.                                                   *)

\* The client was taken off the queue of clients to close before it is freed.
AsyncFreed(r) == [Unlinked(Clear(r, CLOSE_ASAP)) EXCEPT !.close = @ - 1]

LEMMA AsyncFreeMakes ==
    ASSUME NEW r, RecInv(r, FALSE), r.close > 0
    PROVE  /\ RecInv(AsyncFreed(r), FALSE) /\ AsyncFreed(r).flags = {}
           /\ Sequential => AsyncFreed(r) = Free
<1>0. PICK y : y = AsyncFreed(r)
  OBVIOUS
<1>1. PICK k : k = Clear(r, CLOSE_ASAP)
  OBVIOUS
<1>2. r \in Rec /\ r.close = 1 /\ r.flags \ {CLOSE_ASAP} \in SUBSET Flag
  BY DEF RecInv, Rec
<1>3. /\ k \in Rec /\ k.flags = r.flags \ {CLOSE_ASAP} /\ k.pw = r.pw /\ k.close = 1
      /\ k.unb = r.unb
  BY <1>1, <1>2 DEF Clear, Rec
<1>4. /\ k.unb = (IF UNBLOCKED \in k.flags THEN 1 ELSE 0) /\ CLOSE_ASAP \notin k.flags
      /\ Sequential => k.pw = IF PENDING_WRITE \in k.flags THEN 1 ELSE 0
  BY <1>3 DEF RecInv, FlagInv, WriteInv, PwInv, UNBLOCKED, CLOSE_ASAP, PENDING_WRITE
<1>5. PICK u : u = IF Has(k, BLOCKED) THEN unblockClient(k) ELSE k
  OBVIOUS
<1>6. /\ u.unb = (IF UNBLOCKED \in u.flags THEN 1 ELSE 0) /\ CLOSE_ASAP \notin u.flags
      /\ u.close = 1 /\ u.pw \in Int
      /\ Sequential => u.pw = IF PENDING_WRITE \in u.flags THEN 1 ELSE 0
  <2>1. CASE ~Has(k, BLOCKED)
    BY <1>3, <1>4, <1>5, <2>1 DEF Rec
  <2>2. CASE Has(k, BLOCKED)
    <3>1. PICK b : b = Clear(k, BLOCKED)
      OBVIOUS
    <3>2. /\ b \in Rec /\ b.flags = k.flags \ {BLOCKED} /\ b.pw = k.pw /\ b.close = 1 /\ b.unb = k.unb
      <4>1. k.flags \ {BLOCKED} \in SUBSET Flag
        BY <1>3 DEF Rec
      <4> QED
        BY <1>3, <3>1, <4>1 DEF Clear, Rec
    <3>3. /\ b.unb = (IF UNBLOCKED \in b.flags THEN 1 ELSE 0) /\ CLOSE_ASAP \notin b.flags
          /\ Sequential => b.pw = IF PENDING_WRITE \in b.flags THEN 1 ELSE 0
      BY <1>4, <3>2 DEF UNBLOCKED, BLOCKED, PENDING_WRITE
    <3>4. u = IF UNBLOCKED \in b.flags THEN b
              ELSE [b EXCEPT !.flags = @ \union {UNBLOCKED}, !.unb = @ + 1]
      BY <1>5, <2>2, <3>1, <3>2, Zenon DEF unblockClient, queueClientForReprocessing, Has, Set, Rec
    <3>5. CASE UNBLOCKED \in b.flags
      BY <3>2, <3>3, <3>4, <3>5 DEF Rec
    <3>6. CASE UNBLOCKED \notin b.flags
      <4>1. b.unb + 1 = 1 /\ u = [b EXCEPT !.flags = @ \union {UNBLOCKED}, !.unb = @ + 1]
        BY <3>3, <3>4, <3>6
      <4>2. /\ u.flags = b.flags \union {UNBLOCKED} /\ u.unb = 1 /\ u.close = 1 /\ u.pw = b.pw
            /\ b.pw \in Int
        BY <3>2, <4>1 DEF Rec
      <4> QED
        BY <3>3, <4>2 DEF UNBLOCKED, CLOSE_ASAP, PENDING_WRITE
    <3> QED
      BY <3>5, <3>6, Zenon
  <2> QED
    BY <2>1, <2>2
<1>7. PICK n : n = IF Has(u, PENDING_WRITE) THEN u.pw - 1 ELSE u.pw
  OBVIOUS
<1>8. n \in Int /\ (Sequential => n = 0)
  BY <1>6, <1>7 DEF Has
<1>9. Unlinked(k) = [Free EXCEPT !.pw = n, !.unb = 0, !.close = 1]
  <2>1. /\ (IF Has(u, UNBLOCKED) THEN u.unb - 1 ELSE u.unb) = 0
        /\ (IF Has(u, CLOSE_ASAP) THEN u.close - 1 ELSE u.close) = 1
    BY <1>6 DEF Has
  <2> QED
    BY <1>5, <1>7, <2>1, Zenon DEF Unlinked, unlinkClient
<1>10. y = [flags |-> {}, inb |-> 0, out |-> 0, ev |-> {}, pw |-> n, close |-> 0, unb |-> 0]
  <2>1. Unlinked(k) = [flags |-> {}, inb |-> 0, out |-> 0, ev |-> {}, pw |-> n, close |-> 1, unb |-> 0]
    BY <1>9, Zenon DEF Free
  <2>2. Unlinked(k).close - 1 = 0
    BY <2>1
  <2> QED
    BY <1>0, <1>1, <2>1, <2>2 DEF AsyncFreed
<1>11. y \in Rec
  BY ONLY <1>8, <1>10 DEF Rec
<1>12. y.flags = {} /\ y.out = 0 /\ y.pw = n /\ y.close = 0 /\ y.unb = 0
  BY ONLY <1>10
<1>13. FlagInv(y) /\ (Sequential => WriteInv(y, FALSE))
  BY <1>8, <1>12 DEF FlagInv, WriteInv, PwInv, OutInv
<1>14. Sequential => y = Free
  BY <1>8, <1>10 DEF Free
<1> QED
  BY <1>0, <1>11, <1>12, <1>13, <1>14, Zenon DEF RecInv

LEMMA AsyncFreeKeeps ==
    ASSUME IInv, freeClientsInAsyncFreeQueue
    PROVE  IInv'
<1> DEFINE S == {c \in Client : cl[c].close > 0}
           Q == {c \in S : PENDING_READ \in cl[c].flags}
           Y(c) == AsyncFreed(cl[c])
<1>1. /\ pc = "events" /\ cl' = [c \in Client |-> IF c \in S THEN Y(c) ELSE cl[c]]
      /\ live' = live \ S /\ pr' = Without(pr, Q)
      /\ UNCHANGED <<pc, cur, from, rest, todo, loaded>>
  BY DEF freeClientsInAsyncFreeQueue, mainVars, Has, AsyncFreed
<1>2. /\ todo = {} /\ TypeInv /\ \A d \in Client : loaded[d] = <<>> /\ RecInv(cl[d], FALSE)
  BY <1>1, NotThreads, Zenon
<1>3. ASSUME NEW c \in S PROVE RecInv(Y(c), FALSE) /\ Y(c).flags = {} /\ (Sequential => Y(c) = Free)
  <2>1. RecInv(cl[c], FALSE) /\ cl[c].close > 0
    BY <1>2, <1>3, Zenon
  <2> QED
    BY ONLY <2>1, AsyncFreeMakes, Zenon
<1> HIDE DEF Y
<1>4. \A c \in Client : cl'[c] = IF c \in S THEN Y(c) ELSE cl[c]
  BY <1>1
<1>5. pr \in Seq(Client) /\ rest \in Seq(Client)
  BY <1>2 DEF TypeInv
<1>6. /\ pr' \in Seq(Client) /\ Elements(pr') = Elements(pr) \ Q
      /\ Distinct(pr) => Distinct(pr')
  <2> HIDE DEF Q
  <2> QED
    BY <1>1, <1>5, WithoutFacts
<1>7. TypeInv'
  BY <1>1, <1>2, <1>6 DEF TypeInv
<1>8. Core'
  <2>1. \A c \in Client : RecInv(cl'[c], FALSE) /\ cl'[c] \in Rec
    BY <1>2, <1>3, <1>4, Zenon DEF RecInv
  <2>2. cl' \in [Client -> Rec]
    <3>1. DOMAIN cl' = Client /\ cl' = [c \in Client |-> cl'[c]]
      BY <1>1
    <3> QED
      BY <2>1, <3>1, Zenon
  <2> QED
    BY <1>1, <1>2, <1>7, <2>1, <2>2, QuietStep, Zenon DEF IInv
<1>9. ASSUME Sequential PROVE Order'
  <2>1. FreeInv'
    <3>1. \A c \in Client \ live' : c \in S \/ c \notin live
      BY <1>1
    <3> QED
      BY <1>3, <1>4, <1>9, <3>1, Zenon DEF IInv, Order, FreeInv
  <2>2. MainInv'
    BY <1>1 DEF MainInv, Inside
  <2>3. QueueInv /\ Queue = pr /\ Queue' = pr' /\ ~Walking'
    BY <1>1, <1>9 DEF IInv, Order, Queue, Walking
  <2>4. /\ \A c \in Elements(pr) : c \in live /\ PENDING_READ \in cl[c].flags
        /\ NoBusy => \A c \in Client : PENDING_READ \in cl[c].flags => c \in Elements(pr)
    BY <2>3 DEF QueueInv
  <2>5. Elements(pr) \subseteq Client
    BY <1>5 DEF Elements
  <2>6. \A c \in Client : /\ c \in S => PENDING_READ \notin cl'[c].flags
                          /\ c \notin S => cl'[c] = cl[c]
    BY <1>3, <1>4, Zenon
  <2>7. \A c \in Elements(pr) : c \in Q <=> c \in S
    BY <2>4
  <2> HIDE DEF S, Q
  <2>8. Distinct(Queue)' /\ Elements(Queue)' = Elements(pr) \ S
    <3>1. Distinct(pr') /\ Elements(pr') = Elements(pr) \ S
      BY <1>6, <2>3, <2>7 DEF QueueInv
    <3> QED
      BY ONLY <2>3, <3>1 DEF Distinct, Elements
  <2>9. QueueInv'
    BY ONLY <1>1, <1>2, <2>3, <2>4, <2>5, <2>6, <2>8, Zenon DEF QueueInv
  <2> QED
    BY <2>1, <2>2, <2>9 DEF Order
<1> QED
  BY <1>8, <1>9 DEF IInv

LEMMA PauseEndKeeps ==
    ASSUME IInv, clientsArePaused
    PROVE  IInv'
<1>1. /\ pc = "events"
      /\ cl' = [c \in Client |-> IF c \in live /\ ~Has(cl[c], BLOCKED)
                                 THEN queueClientForReprocessing(cl[c]) ELSE cl[c]]
      /\ UNCHANGED <<live, pr, pc, cur, from, rest, todo, loaded>>
  BY DEF clientsArePaused, mainVars
<1>2. /\ todo = {} /\ TypeInv /\ \A d \in Client : loaded[d] = <<>> /\ RecInv(cl[d], FALSE)
  BY <1>1, NotThreads, Zenon
<1>3. ASSUME NEW c \in Client PROVE Makes(cl[c], cl'[c], FALSE)
  <2>1. Makes(cl[c], queueClientForReprocessing(cl[c]), FALSE)
    BY <1>2, QueueMakes, FALSE \in BOOLEAN, Zenon
  <2>2. Makes(cl[c], cl[c], FALSE)
    BY <1>2, Zenon DEF Makes
  <2> QED
    BY <1>1, <2>1, <2>2, Zenon
<1>4. /\ DOMAIN cl' = Client /\ cl' = [c \in Client |-> cl'[c]]
      /\ \A c \in Client \ live : cl'[c] = cl[c]
  BY <1>1
<1>5. TypeInv' /\ MainInv' /\ (Walking' <=> Walking)
  BY <1>1, <1>2 DEF TypeInv, MainInv, Walking, Inside
<1> QED
  BY <1>1, <1>2, <1>3, <1>4, <1>5, ManyClients, Zenon

-----------------------------------------------------------------------------
(* The threads.                                                            *)

\* An error reply of a thread, up to the store that links the client.
Parsed(r) == [r EXCEPT !.inb = @ - 1]
Refused(r) == Set(addReply(Parsed(r)), CLOSE_AFTER_REPLY)
Unstored(r) == [Refused(r) EXCEPT !.pw = r.pw]

LEMMA RefusedMakes ==
    ASSUME NEW r, RecInv(r, FALSE)
    PROVE  /\ Unstored(r).pw = r.pw
           /\ PENDING_READ \in Unstored(r).flags <=> PENDING_READ \in r.flags
           /\ Refused(r).pw = r.pw => RecInv(Unstored(r), FALSE)
           /\ Refused(r).pw # r.pw => RecInv(Unstored(r), TRUE)
<1> PICK p : p = Parsed(r)
  OBVIOUS
<1> PICK f : f = Refused(r)
  OBVIOUS
<1> PICK s : s = Unstored(r)
  OBVIOUS
<1>a. p = [r EXCEPT !.inb = @ - 1] /\ f = Set(addReply(p), CLOSE_AFTER_REPLY)
      /\ s = [f EXCEPT !.pw = r.pw]
  BY DEF Parsed, Refused, Unstored
<1>1. Makes(r, p, FALSE) /\ Makes(r, f, FALSE)
  <2>1. /\ Makes(r, p, FALSE)
        /\ Makes(r, Set(addReply(p), CLOSE_AFTER_REPLY), FALSE)
    BY ONLY <1>a, RecInv(r, FALSE), ParsedMakes, FALSE \in BOOLEAN, Zenon
  <2> QED
    BY ONLY <1>a, <2>1, Zenon
<1>2. p.flags = r.flags
  BY <1>a DEF RecInv, Rec
<1>3. PICK a : a = addReply(p)
  OBVIOUS
<1>4. a.flags \in {p.flags, p.flags \union {PENDING_WRITE}} /\ a \in Rec
  BY <1>1, <1>3, AddReplyMakes, FALSE \in BOOLEAN, Zenon DEF Makes, RecInv
<1>5. f.flags = a.flags \union {CLOSE_AFTER_REPLY} /\ f \in Rec /\ r \in Rec
  <2>1. f = Set(a, CLOSE_AFTER_REPLY)
    BY <1>a, <1>3
  <2>2. f \in Rec /\ r \in Rec
    BY <1>1 DEF Makes, RecInv
  <2> QED
    BY ONLY <1>4, <2>1, <2>2 DEF Set, Rec
<1>6. PENDING_WRITE \in r.flags => PENDING_WRITE \in f.flags
  BY <1>2, <1>4, <1>5
<1>7. /\ s \in Rec /\ s.pw = r.pw /\ s.flags = f.flags /\ s.out = f.out /\ s.ev = f.ev
      /\ s.close = f.close /\ s.unb = f.unb
  <2>1. s = [f EXCEPT !.pw = r.pw] /\ r.pw \in Int
    BY <1>a, <1>5 DEF Rec
  <2> QED
    BY ONLY <1>5, <2>1 DEF Rec
<1>8. RecInv(f, FALSE) /\ (PENDING_READ \in f.flags <=> PENDING_READ \in r.flags)
  BY <1>1, Zenon DEF Makes
<1>9. FlagInv(s) /\ (Sequential => OutInv(s))
  BY ONLY <1>7, <1>8, Zenon DEF RecInv, FlagInv, WriteInv, OutInv
<1>10. Sequential => /\ f.pw = r.pw => PwInv(s, FALSE)
                     /\ f.pw # r.pw => PwInv(s, TRUE)
  BY ONLY <1>6, <1>7, <1>8, RecInv(r, FALSE) DEF RecInv, WriteInv, PwInv
<1> QED
  BY <1>7, <1>8, <1>9, <1>10, Zenon DEF RecInv, WriteInv

\* What a thread does with its client, none of it to the queue of writes.
LEMMA ThreadOneClient ==
    ASSUME IInv, pc = "threads", NEW c \in Client, c \in todo, NEW x,
           cl' = [cl EXCEPT ![c] = x], x.pw = cl[c].pw,
           PENDING_READ \in x.flags <=> PENDING_READ \in cl[c].flags,
           RecInv(x, loaded'[c] # <<>>),
           UNCHANGED <<live, pr, pc, cur, from, rest>>, todo' \in {todo, todo \ {c}},
           loaded' \in [Client -> {<<>>} \union [Client -> Int]],
           \A d \in Client : d # c => loaded'[d] = loaded[d],
           loaded'[c] # <<>> => /\ c \in todo' /\ c \in Malformed
                                /\ loaded'[c] = [d \in Client |-> cl[d].pw]
    PROVE  IInv'
<1>1. TypeInv /\ RecordsInv /\ ThreadInv /\ cl \in [Client -> Rec] /\ x \in Rec
  BY Zenon DEF IInv, Core, RecordsInv, RecInv
<1>2. \A d \in Client : cl'[d] = IF d = c THEN x ELSE cl[d]
  BY <1>1
<1>3. TypeInv'
  BY <1>1 DEF TypeInv
<1>4. RecordsInv'
  <2>1. cl' \in [Client -> Rec]
    BY <1>1
  <2>2. ASSUME NEW d \in Client PROVE RecInv(cl'[d], loaded'[d] # <<>>)
    <3>1. CASE d = c
      <4>1. cl'[d] = x
        BY <1>2, <3>1
      <4> QED
        BY <3>1, <4>1
    <3>2. CASE d # c
      <4>1. cl'[d] = cl[d] /\ loaded'[d] = loaded[d]
        BY <1>2, <3>2
      <4> QED
        BY <1>1, <4>1 DEF RecordsInv
    <3> QED
      BY <3>1, <3>2
  <2> QED
    BY <2>1, <2>2, Zenon DEF RecordsInv
<1>5. ThreadInv'
  <2>1. [d \in Client |-> cl'[d].pw] = [d \in Client |-> cl[d].pw]
    <3>1. \A d \in Client : cl'[d].pw = cl[d].pw
      BY <1>2
    <3> QED
      BY <3>1
  <2>2. ASSUME NEW d \in Client, loaded'[d] # <<>>
        PROVE  /\ d \in todo' /\ d \in Malformed
               /\ Sequential => loaded'[d] = [e \in Client |-> cl'[e].pw]
    <3>1. CASE d = c
      BY <2>1, <2>2, <3>1
    <3>2. CASE d # c
      BY <1>1, <2>1, <2>2, <3>2, Zenon DEF ThreadInv
    <3> QED
      BY <3>1, <3>2
  <2> QED
    BY <2>2 DEF ThreadInv
<1>6. ASSUME Sequential PROVE Order'
  <2>1. FreeInv /\ MainInv /\ QueueInv /\ Queue = pr
    BY <1>6, Zenon DEF IInv, Order, Queue, Walking
  <2>2. c \in live
    BY <2>1, Zenon DEF QueueInv
  <2>3. FreeInv'
    BY <1>2, <2>1, <2>2 DEF FreeInv
  <2>4. MainInv'
    BY <2>1 DEF MainInv
  <2>5. \A d \in Client : PENDING_READ \in cl'[d].flags <=> PENDING_READ \in cl[d].flags
    BY <1>2
  <2>6. todo' \subseteq Elements(pr) /\ (Walking' <=> Walking)
    BY <2>1, Zenon DEF QueueInv, Walking
  <2>7. QueueInv'
    BY <1>1, <2>1, <2>5, <2>6, QueueStays, Zenon DEF TypeInv
  <2> QED
    BY <2>3, <2>4, <2>7, Zenon DEF Order
<1> QED
  BY <1>3, <1>4, <1>5, <1>6 DEF IInv, Core

LEMMA ThreadReadKeeps ==
    ASSUME IInv, NEW c \in Client, NEW n \in 0..MaxCommands, ThreadRead(c, n)
    PROVE  IInv'
<1>1. PICK r : r = Received(cl[c], n)
  OBVIOUS
<1>2. PICK p : p = [r EXCEPT !.inb = @ - 1]
  BY Zenon
<1>3. PICK f : f = Set(addReply(p), CLOSE_AFTER_REPLY)
  OBVIOUS
<1>4. /\ pc = "threads" /\ c \in todo /\ loaded[c] = <<>>
      /\ UNCHANGED <<live, pr, pc, cur, from, rest>>
      /\ \/ /\ cl' = [cl EXCEPT ![c] = Set(p, PENDING_COMMAND)] \/ cl' = [cl EXCEPT ![c] = r]
            /\ todo' = todo \ {c} /\ loaded' = loaded
         \/ cl' = cl /\ todo' = todo \ {c} /\ loaded' = loaded
         \/ /\ c \in Malformed /\ cl' = [cl EXCEPT ![c] = [f EXCEPT !.pw = r.pw]]
            /\ IF f.pw = r.pw THEN todo' = todo \ {c} /\ loaded' = loaded
               ELSE loaded' = [loaded EXCEPT ![c] = [d \in Client |-> cl[d].pw]] /\ todo' = todo
  BY <1>1, <1>2, <1>3 DEF ThreadRead, SetClient, mainVars
<1>5. TypeInv /\ cl \in [Client -> Rec] /\ loaded \in [Client -> {<<>>} \union [Client -> Int]]
  BY DEF IInv, Core, RecordsInv, TypeInv
<1>6. RecInv(cl[c], FALSE)
  <2>1. RecInv(cl[c], loaded[c] # <<>>) /\ (loaded[c] # <<>>) = FALSE
    BY <1>4 DEF IInv, Core, RecordsInv
  <2> QED
    BY <2>1 DEF RecInv, WriteInv, PwInv
<1>7. n \in Nat
  BY ClientsAssumption
<1>8. Makes(cl[c], r, FALSE) /\ r.pw = cl[c].pw
  BY <1>1, <1>6, <1>7, ReceivedMakes, FALSE \in BOOLEAN, Zenon
<1>9. RecInv(r, FALSE) /\ (PENDING_READ \in r.flags <=> PENDING_READ \in cl[c].flags)
  BY <1>8, Zenon DEF Makes
<1>10. CASE loaded' = loaded
  <2>1. \A x : RecInv(x, FALSE) => RecInv(x, loaded'[c] # <<>>)
    BY <1>4, <1>10 DEF RecInv, WriteInv, PwInv
  <2>2. ASSUME NEW x, cl' = [cl EXCEPT ![c] = x], Makes(cl[c], x, FALSE), x.pw = cl[c].pw
        PROVE  IInv'
    <3>1. RecInv(x, loaded'[c] # <<>>) /\ (PENDING_READ \in x.flags <=> PENDING_READ \in cl[c].flags)
      BY <2>1, <2>2, Zenon DEF Makes
    <3>2. todo' \in {todo, todo \ {c}} /\ ~(loaded'[c] # <<>>)
      BY <1>4, <1>10
    <3> QED
      BY <1>4, <1>5, <1>10, <2>2, <3>1, <3>2, ThreadOneClient, Zenon
  <2>3. CASE cl' = [cl EXCEPT ![c] = Set(p, PENDING_COMMAND)]
    <3>1. Makes(r, Set(p, PENDING_COMMAND), FALSE) /\ Set(p, PENDING_COMMAND).pw = r.pw
      BY <1>2, <1>9, ParsedMakes, FALSE \in BOOLEAN, Zenon
    <3>2. Makes(cl[c], Set(p, PENDING_COMMAND), FALSE)
      BY <1>9, <3>1, Zenon DEF Makes
    <3> QED
      BY <1>8, <2>2, <2>3, <3>1, <3>2, Zenon
  <2>4. CASE cl' = [cl EXCEPT ![c] = r]
    BY <1>8, <2>2, <2>4, Zenon
  <2>5. CASE cl' = cl
    <3>1. cl' = [cl EXCEPT ![c] = cl[c]] /\ Makes(cl[c], cl[c], FALSE)
      BY <1>5, <1>6, <2>5, Zenon DEF Makes
    <3> QED
      BY <2>2, <3>1, Zenon
  <2>6. CASE cl' = [cl EXCEPT ![c] = [f EXCEPT !.pw = r.pw]] /\ f.pw = r.pw
    <3>1. PICK s : s = [f EXCEPT !.pw = r.pw]
      BY Zenon
    <3>2. s.pw = r.pw /\ (PENDING_READ \in s.flags <=> PENDING_READ \in r.flags) /\ RecInv(s, FALSE)
      <4>1. f = Refused(r) /\ s = Unstored(r)
        BY <1>2, <1>3, <3>1 DEF Parsed, Refused, Unstored
      <4> QED
        BY <1>9, <2>6, <4>1, RefusedMakes, Zenon
    <3>3. Makes(cl[c], s, FALSE)
      BY <1>9, <3>2, Zenon DEF Makes
    <3> QED
      BY <1>8, <2>2, <2>6, <3>1, <3>2, <3>3, Zenon
  <2>7. f.pw # r.pw /\ cl' = [cl EXCEPT ![c] = [f EXCEPT !.pw = r.pw]]
          => loaded' = [loaded EXCEPT ![c] = [d \in Client |-> cl[d].pw]]
             \/ cl' = [cl EXCEPT ![c] = Set(p, PENDING_COMMAND)] \/ cl' = [cl EXCEPT ![c] = r] \/ cl' = cl
    BY <1>4
  <2>8. loaded' # [loaded EXCEPT ![c] = [d \in Client |-> cl[d].pw]]
    <3>1. DOMAIN [d \in Client |-> cl[d].pw] = Client /\ DOMAIN <<>> = {}
      OBVIOUS
    <3>2. [d \in Client |-> cl[d].pw] # <<>>
      BY <3>1
    <3> QED
      BY <1>4, <1>5, <1>10, <3>2
  <2> QED
    BY <1>4, <2>3, <2>4, <2>5, <2>6, <2>7, <2>8
<1>11. CASE /\ c \in Malformed /\ f.pw # r.pw /\ cl' = [cl EXCEPT ![c] = [f EXCEPT !.pw = r.pw]]
            /\ loaded' = [loaded EXCEPT ![c] = [d \in Client |-> cl[d].pw]] /\ todo' = todo
  <2>1. PICK g : g = [d \in Client |-> cl[d].pw]
    BY Zenon
  <2>2. g # <<>> /\ g \in [Client -> Int]
    <3>1. DOMAIN g = Client /\ DOMAIN <<>> = {}
      BY <2>1
    <3>2. \A d \in Client : cl[d].pw \in Int
      BY <1>5 DEF Rec
    <3> QED
      BY <2>1, <3>1, <3>2
  <2>3. /\ loaded' \in [Client -> {<<>>} \union [Client -> Int]] /\ loaded'[c] = g
        /\ \A d \in Client : d # c => loaded'[d] = loaded[d]
    BY <1>5, <1>11, <2>1, <2>2
  <2>4. PICK s : s = [f EXCEPT !.pw = r.pw]
    BY Zenon
  <2>5. s.pw = r.pw /\ (PENDING_READ \in s.flags <=> PENDING_READ \in r.flags) /\ RecInv(s, TRUE)
    <3>1. f = Refused(r) /\ s = Unstored(r)
      BY <1>2, <1>3, <2>4 DEF Parsed, Refused, Unstored
    <3> QED
      BY <1>9, <1>11, <3>1, RefusedMakes, Zenon
  <2>6. RecInv(s, loaded'[c] # <<>>)
    BY <2>2, <2>3, <2>5 DEF RecInv, WriteInv, PwInv
  <2>7. cl' = [cl EXCEPT ![c] = s] /\ s.pw = cl[c].pw
        /\ (PENDING_READ \in s.flags <=> PENDING_READ \in cl[c].flags)
    BY <1>8, <1>9, <1>11, <2>4, <2>5
  <2>8. c \in todo' /\ c \in Malformed /\ loaded'[c] = [d \in Client |-> cl[d].pw]
    BY <1>4, <1>11, <2>1, <2>3
  <2> QED
    BY <1>4, <1>11, <2>3, <2>6, <2>7, <2>8, ThreadOneClient, Zenon
<1> QED
  BY <1>4, <1>10, <1>11

\* The store: the thread adds its client to the list it loaded, which is the
\* list as it is unless another thread stored in between.
LEMMA ThreadLinkKeeps ==
    ASSUME IInv, NEW c \in Client, ThreadLink(c)
    PROVE  IInv'
<1> DEFINE Pw(d) == loaded[c][d] + IF d = c THEN 1 ELSE 0
<1>1. /\ c \in todo /\ loaded[c] # <<>> /\ cl' = [d \in Client |-> [cl[d] EXCEPT !.pw = Pw(d)]]
      /\ loaded' = [loaded EXCEPT ![c] = <<>>] /\ todo' = todo \ {c}
      /\ UNCHANGED <<live, pr, pc, cur, from, rest>>
  BY DEF ThreadLink, mainVars
<1>2. /\ TypeInv /\ RecordsInv /\ ThreadInv /\ cl \in [Client -> Rec] /\ loaded[c] \in [Client -> Int]
      /\ loaded \in [Client -> {<<>>} \union [Client -> Int]] /\ pc = "threads"
  BY <1>1 DEF IInv, Core, RecordsInv, TypeInv, ThreadInv
<1>3. \A d \in Client : Pw(d) \in Int
  BY <1>2
<1>4. ASSUME Sequential
      PROVE  /\ c \in Malformed /\ \A d \in Client : d # c => loaded[d] = <<>>
             /\ \A d \in Client : Pw(d) = cl[d].pw + IF d = c THEN 1 ELSE 0
  <2>1. c \in Malformed /\ loaded[c] = [d \in Client |-> cl[d].pw]
    BY <1>1, <1>2, <1>4 DEF ThreadInv
  <2>2. \A d \in Client : loaded[d] # <<>> => d \in Malformed
    BY <1>2 DEF ThreadInv
  <2>3. \A d \in Client : d # c => loaded[d] = <<>>
    BY <1>4, <2>1, <2>2, ClientsAssumption DEF Sequential
  <2>4. \A d \in Client : loaded[c][d] = cl[d].pw
    BY <2>1
  <2> QED
    BY <2>1, <2>3, <2>4
<1> HIDE DEF Pw
<1>5. ASSUME NEW d \in Client
      PROVE  /\ cl'[d] = [cl[d] EXCEPT !.pw = Pw(d)] /\ cl'[d] \in Rec
             /\ cl'[d].flags = cl[d].flags /\ cl'[d].pw = Pw(d) /\ cl'[d].out = cl[d].out
             /\ cl'[d].ev = cl[d].ev /\ cl'[d].close = cl[d].close /\ cl'[d].unb = cl[d].unb
  <2>1. PICK r : r = cl[d] /\ r \in Rec
    BY <1>2
  <2>2. PICK n : n = Pw(d) /\ n \in Int
    BY <1>3
  <2>3. cl'[d] = [r EXCEPT !.pw = n]
    BY <1>1, <2>1, <2>2
  <2>4. PICK s : s = [r EXCEPT !.pw = n]
    BY Zenon
  <2>5. /\ s \in Rec /\ s.flags = r.flags /\ s.pw = n /\ s.out = r.out /\ s.ev = r.ev
        /\ s.close = r.close /\ s.unb = r.unb
    BY ONLY <2>1, <2>2, <2>4 DEF Rec
  <2> QED
    BY ONLY <2>1, <2>2, <2>3, <2>4, <2>5
<1>6. /\ loaded' \in [Client -> {<<>>} \union [Client -> Int]]
      /\ \A d \in Client : loaded'[d] = IF d = c THEN <<>> ELSE loaded[d]
  BY <1>1, <1>2
<1>7. TypeInv'
  BY <1>1, <1>2, <1>6 DEF TypeInv
<1>8. RecordsInv'
  <2>1. cl' \in [Client -> Rec]
    <3>1. DOMAIN cl' = Client /\ cl' = [d \in Client |-> cl'[d]]
      BY <1>1
    <3> QED
      BY <1>5, <3>1
  <2>2. ASSUME NEW d \in Client PROVE RecInv(cl'[d], loaded'[d] # <<>>)
    <3>1. RecInv(cl[d], loaded[d] # <<>>)
      BY <1>2 DEF RecordsInv
    <3>2. FlagInv(cl'[d])
      BY <1>5, <3>1, Zenon DEF RecInv, FlagInv
    <3>3. ASSUME Sequential PROVE WriteInv(cl'[d], loaded'[d] # <<>>)
      <4>1. WriteInv(cl[d], loaded[d] # <<>>)
        BY <3>1, <3>3 DEF RecInv
      <4>2. CASE d = c
        <5>1. cl[d].pw = 0 /\ PENDING_WRITE \in cl[d].flags
          BY <1>1, <4>1, <4>2 DEF WriteInv, PwInv
        <5>2. cl'[d].pw = 1
          <6>1. Pw(d) = cl[d].pw + 1
            BY <1>4, <3>3, <4>2
          <6>2. cl'[d].pw = Pw(d)
            BY <1>5, Zenon
          <6> QED
            BY ONLY <5>1, <6>1, <6>2
        <5> QED
          BY <1>5, <1>6, <4>1, <4>2, <5>1, <5>2, Zenon DEF WriteInv, PwInv, OutInv
      <4>3. CASE d # c
        <5>1. cl[d] \in Rec
          BY <1>2
        <5>2. cl'[d].pw = cl[d].pw
          BY <1>4, <1>5, <3>3, <4>3, <5>1 DEF Rec
        <5> QED
          BY <1>5, <1>6, <4>1, <4>3, <5>2, Zenon DEF WriteInv, PwInv, OutInv
      <4> QED
        BY <4>2, <4>3
    <3> QED
      BY <1>5, <3>2, <3>3, Zenon DEF RecInv
  <2> QED
    BY <2>1, <2>2 DEF RecordsInv
<1>9. ThreadInv'
  BY <1>1, <1>2, <1>4, <1>6 DEF ThreadInv
<1>10. ASSUME Sequential PROVE Order'
  <2>1. FreeInv /\ MainInv /\ QueueInv /\ Queue = pr
    BY <1>2, <1>10 DEF IInv, Order, Queue, Walking
  <2>2. c \in live
    BY <1>1, <2>1 DEF QueueInv
  <2>3. FreeInv'
    <3>1. ASSUME NEW d \in Client \ live PROVE cl'[d] = Free
      <4>1. cl[d] = Free /\ Pw(d) = 0
        <5>1. cl[d] = Free /\ d # c
          BY <2>1, <2>2, <3>1 DEF FreeInv
        <5>2. cl[d].pw = 0
          BY <5>1 DEF Free
        <5> QED
          BY <1>4, <1>10, <5>1, <5>2
      <4>2. [Free EXCEPT !.pw = 0] = Free
        BY DEF Free
      <4> QED
        BY <1>5, <4>1, <4>2
    <3> QED
      BY <1>1, <3>1 DEF FreeInv
  <2>4. MainInv'
    BY <1>1, <2>1 DEF MainInv
  <2>5. \A d \in Client : PENDING_READ \in cl'[d].flags <=> PENDING_READ \in cl[d].flags
    BY <1>5, Zenon
  <2>6. todo' \subseteq Elements(pr) /\ (Walking' <=> Walking)
    BY <1>1, <2>1 DEF QueueInv, Walking
  <2>7. QueueInv'
    BY <1>1, <1>2, <2>1, <2>5, <2>6, QueueStays, Zenon DEF TypeInv
  <2> QED
    BY <2>3, <2>4, <2>7 DEF Order
<1> QED
  BY <1>7, <1>8, <1>9, <1>10 DEF IInv, Core

-----------------------------------------------------------------------------
(* The invariant holds, and what follows from it.                          *)

LEMMA InitHolds == Init => IInv
<1> SUFFICES ASSUME Init PROVE IInv
  OBVIOUS
<1>1. /\ live = {} /\ cl = [c \in Client |-> Free] /\ pr = <<>> /\ rest = <<>> /\ todo = {}
      /\ pc = "events" /\ from = "events" /\ loaded = [c \in Client |-> <<>>]
  BY DEF Init
<1>2. TypeInv
  BY <1>1 DEF TypeInv, Places, Inside
<1>3. RecordsInv
  <2>1. \A c \in Client : cl[c] = Free /\ loaded[c] = <<>>
    BY <1>1
  <2>2. \A c \in Client : RecInv(cl[c], loaded[c] # <<>>)
    BY <2>1, FreeIsRec, Zenon DEF RecInv, WriteInv, PwInv
  <2> QED
    BY <1>1, <2>2, FreeIsRec DEF RecordsInv
<1>4. ThreadInv
  BY <1>1 DEF ThreadInv
<1>5. Order
  <2>1. FreeInv /\ MainInv
    BY <1>1 DEF FreeInv, MainInv, Inside
  <2>2. Queue = <<>> /\ ~Walking
    BY <1>1 DEF Queue, Walking
  <2>3. Distinct(Queue) /\ Elements(Queue) = {}
    BY <2>2 DEF Distinct, Elements
  <2>4. \A c \in Client : PENDING_READ \notin cl[c].flags
    BY <1>1, FreeIsRec
  <2> QED
    BY <1>1, <2>1, <2>2, <2>3, <2>4 DEF Order, QueueInv
<1> QED
  BY <1>2, <1>3, <1>4, <1>5 DEF IInv, Core

LEMMA StutterKeeps == IInv /\ UNCHANGED vars => IInv'
<1> SUFFICES ASSUME IInv, UNCHANGED vars PROVE IInv'
  OBVIOUS
<1>1. UNCHANGED <<live, cl, pr, rest, todo, loaded, pc, cur, from>>
  BY DEF vars, mainVars
<1>2. TypeInv' /\ RecordsInv' /\ ThreadInv'
  BY <1>1 DEF IInv, Core, TypeInv, RecordsInv, ThreadInv
<1>3. ASSUME Sequential PROVE Order'
  <2>1. FreeInv' /\ MainInv'
    BY <1>1, <1>3 DEF IInv, Order, FreeInv, MainInv
  <2>2. QueueInv /\ (Walking' <=> Walking) /\ todo' \subseteq Elements(pr)
    BY <1>1, <1>3 DEF IInv, Order, QueueInv, Walking
  <2>3. QueueInv'
    BY <1>1, <2>2, QueueStays DEF IInv, Core, TypeInv
  <2> QED
    BY <2>1, <2>3 DEF Order
<1> QED
  BY <1>2, <1>3 DEF IInv, Core

LEMMA NextKeeps == IInv /\ Next => IInv'
<1> SUFFICES ASSUME IInv, Next PROVE IInv'
  OBVIOUS
<1>1. CASE HandlerStep
  BY <1>1, AcceptKeeps, PostponeKeeps, ReadQueryKeeps, SendReplyKeeps, PendingWritesKeeps, Zenon
     DEF HandlerStep
<1>2. CASE MainStep
  <2>1. CASE processInputBuffer \/ EndBusy \/ \E kind \in CommandKinds : CommandOnSelf(kind)
    BY <2>1, InputKeeps, OnSelfKeeps, EndBusyKeeps, Zenon
  <2>2. CASE \/ \E kind \in CommandKinds, d \in Client : CommandOnOther(kind, d)
             \/ \E d \in Client : clientKill(d)
    BY <2>2, OnOtherKeeps, KillKeeps, Zenon
  <2>3. CASE handleClientsWithPendingReadsUsingThreads \/ ThreadsDone \/ Collect \/ CollectEnd
    BY <2>3, PendingReadsKeeps, ThreadsDoneKeeps, CollectKeeps, CollectEndKeeps
  <2>4. CASE \/ processUnblockedClients \/ stopThreadedIO
             \/ handleClientsWithPendingWritesUsingThreads \/ handleClientsWithPendingWrites
    BY <2>4, UnblockedKeeps, StopThreadedKeeps, WritesThreadedKeeps, PendingWritesKeeps
  <2> QED
    BY <1>2, <2>1, <2>2, <2>3, <2>4, Zenon DEF MainStep
<1>3. CASE ThreadStep
  BY <1>3, ThreadReadKeeps, ThreadLinkKeeps, Zenon DEF ThreadStep
<1>4. CASE freeClientsInAsyncFreeQueue \/ clientsArePaused
  BY <1>4, AsyncFreeKeeps, PauseEndKeeps
<1> QED
  BY <1>1, <1>2, <1>3, <1>4 DEF Next

LEMMA Inductive == Spec => []IInv
<1>1. IInv /\ [Next]_vars => IInv'
  BY NextKeeps, StutterKeeps
<1> QED
  BY <1>1, InitHolds, PTL DEF Spec

\* A client that is to be closed after its reply has the reply, or is being
\* closed: whatever the threads do to the queue of writes, processInputBuffer
\* and the QUIT command flag it only with the reply in the buffer, and what
\* empties the buffer (writeToClient) hands it to freeClientAsync.
THEOREM ClosingClientsHaveReplies == Spec => []ClosingHasReply
<1>1. IInv => ClosingHasReply
  <2> SUFFICES ASSUME IInv, NEW c \in live, Has(cl[c], CLOSE_AFTER_REPLY), ~Has(cl[c], REPLY_OFF)
               PROVE  cl[c].out = 1 \/ Has(cl[c], CLOSE_ASAP)
    BY DEF ClosingHasReply
  <2>1. c \in Client
    BY DEF IInv, Core, TypeInv
  <2>2. FlagInv(cl[c])
    BY <2>1 DEF IInv, Core, RecordsInv, RecInv
  <2> QED
    BY <2>2 DEF FlagInv, Has
<1> QED
  BY <1>1, Inductive, PTL

\* Output is never forgotten, when one client at most gets an error reply from
\* a thread: it is in the queue of writes, or has its handler installed, or its
\* client is being closed or protected, or is being queued by a thread.
THEOREM RepliesAreWritten ==
    ASSUME Sequential
    PROVE  Spec => []NoReplyStranded
<1>1. IInv => NoReplyStranded
  <2> SUFFICES ASSUME IInv, NEW c \in live, cl[c].out = 1
               PROVE  \/ cl[c].pw > 0 \/ W \in cl[c].ev
                      \/ cl[c].flags \intersect {CLOSE_ASAP, PROTECTED} # {} \/ loaded[c] # <<>>
    BY DEF NoReplyStranded
  <2>1. c \in Client
    BY DEF IInv, Core, TypeInv
  <2>2. WriteInv(cl[c], loaded[c] # <<>>)
    BY <2>1 DEF IInv, Core, RecordsInv, RecInv
  <2> QED
    BY <2>2 DEF WriteInv, PwInv, OutInv
<1> QED
  BY <1>1, Inductive, PTL

\* No queue names a freed client, a client twice, or one without its flag,
\* under the same condition: the walks over the queues need not look whether
\* their clients still exist.
THEOREM QueuesAreSound ==
    ASSUME Sequential
    PROVE  Spec => []QueuesNameFlagged
<1>1. IInv => QueuesNameFlagged
  <2> SUFFICES ASSUME IInv PROVE QueuesNameFlagged
    OBVIOUS
  <2>1. Order /\ Core
    BY DEF IInv
  <2>2. ASSUME NEW c \in Client
        PROVE  /\ cl[c].pw <= (IF Has(cl[c], PENDING_WRITE) THEN 1 ELSE 0)
               /\ cl[c].unb <= (IF Has(cl[c], UNBLOCKED) THEN 1 ELSE 0)
               /\ cl[c].close <= (IF Has(cl[c], CLOSE_ASAP) THEN 1 ELSE 0)
               /\ c \notin live => cl[c] = Free
    <3>1. RecInv(cl[c], loaded[c] # <<>>)
      BY <2>1 DEF Core, RecordsInv
    <3>2. FlagInv(cl[c]) /\ PwInv(cl[c], loaded[c] # <<>>)
      BY <3>1 DEF RecInv, WriteInv
    <3> QED
      BY <2>1, <3>2 DEF FlagInv, PwInv, Has, Order, FreeInv
  <2>3. Queue \in Seq(Client)
    BY <2>1 DEF Core, TypeInv, Queue
  <2>4. ASSUME NEW i \in 1..Len(Queue)
        PROVE  /\ Queue[i] \in live /\ Has(cl[Queue[i]], PENDING_READ)
               /\ \A k \in 1..(i - 1) : Queue[k] # Queue[i]
    <3>1. Queue[i] \in Elements(Queue)
      BY DEF Elements
    <3>2. \A k \in 1..(i - 1) : k \in 1..Len(Queue) /\ k # i
      BY <2>3
    <3> QED
      BY <2>1, <3>1, <3>2 DEF Order, QueueInv, Distinct, Has
  <2> QED
    BY <2>2, <2>4, Zenon DEF QueuesNameFlagged, Queue
<1> QED
  BY <1>1, Inductive, PTL

\* The assertions of unlinkClient and freeClient hold: a flagged client is in
\* the queue of its flag, when moreover no command that handles events runs
\* while the queue of reads is walked over.
THEOREM AssertsHold ==
    ASSUME Sequential, NoBusy
    PROVE  Spec => []UnlinkAssertsHold
<1>1. IInv => UnlinkAssertsHold
  <2> SUFFICES ASSUME IInv, NEW c \in live
               PROVE  /\ Has(cl[c], PENDING_WRITE) /\ loaded[c] = <<>> => cl[c].pw > 0
                      /\ Has(cl[c], PENDING_READ) => c \in Elements(pr)
                      /\ Has(cl[c], UNBLOCKED) => cl[c].unb > 0
                      /\ Has(cl[c], CLOSE_ASAP) => cl[c].close > 0
    BY DEF UnlinkAssertsHold
  <2>1. c \in Client /\ QueueInv
    BY DEF IInv, Core, TypeInv, Order
  <2>2. FlagInv(cl[c]) /\ PwInv(cl[c], loaded[c] # <<>>)
    BY <2>1 DEF IInv, Core, RecordsInv, RecInv, WriteInv
  <2>3. Has(cl[c], PENDING_READ) => c \in Elements(Queue)
    BY <2>1 DEF QueueInv, Has
  <2>4. Elements(Queue) \subseteq Elements(pr)
    BY <2>1 DEF QueueInv, Queue
  <2> QED
    BY <2>2, <2>3, <2>4 DEF FlagInv, PwInv, Has
<1> QED
  BY <1>1, Inductive, PTL

=============================================================================
