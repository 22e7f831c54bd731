-------------------------- MODULE IOThreadsProofs --------------------------
(***************************************************************************)
(* Proofs about IOThreads, for every number of threads and every set of    *)
(* clients.                                                                *)
(***************************************************************************)
EXTENDS IOThreads, TLAPS

----------------------------------------------------------------------------
(* The inductive invariant, by parts.                                      *)

\* A counter is set only between its publication and the end of the wait,
\* and while the main thread's sum is zero the counters it has read are.
CountersInv ==
  /\ \A j \in Thread : io_threads_pending[j] # 0 =>
       pc = "wait" \/ (pc = "publish" /\ j < it)
  /\ \A j \in Thread : Working(j) => io_threads_pending[j] # 0
  /\ pc = "wait" /\ acc = 0 => \A j \in Thread : j < it => io_threads_pending[j] = 0

\* A list is filled before its counter is set and empty before it is reset.
ListsInv ==
  \A j \in Thread :
    /\ pc \in {"loop", "unlock", "lock", "collect"} => io_threads_list[j] = <<>>
    /\ pc = "wait" \/ (pc = "publish" /\ j < it) =>
         (io_threads_pending[j] = 0 => io_threads_list[j] = <<>>)
    /\ tpc[j] = "drop" => io_threads_list[j] = <<>>

\* No element twice: so are the queues.
Injective(s) == \A m, n \in DOMAIN s : s[m] = s[n] => m = n

\* While the clients are handed out the lists hold only those handed out so far.
HandedOut ==
  pc = "distribute" =>
    \A j \in Thread : \A m \in DOMAIN io_threads_list[j] :
      \E n \in DOMAIN queue[batch] : n <= it /\ queue[batch][n] = io_threads_list[j][m]

\* What the main thread does agrees with the threads being active: only
\* active threads are given reads, and stopping them drains those first.
ModeInv ==
  /\ io_threads_active = 0 => pc \in {"loop", "unlock"} /\ queue["read"] = <<>>
  /\ ~io_threads_do_reads => queue["read"] = <<>>
  /\ pc = "unlock" => io_threads_active = 0 /\ io_threads_num # 1
  /\ pc = "lock" => queue["read"] = <<>>
  /\ ret = "lock" /\ pc # "lock" => batch = "read"
  /\ io_threads_num = 1 => io_threads_active = 0

\* Who holds each mutex.
MutexInv ==
  \A j \in Spawned :
    /\ io_threads_mutex[j] = "thread" <=> tpc[j] = "unlock"
    /\ io_threads_active = 0 /\ pc = "loop" => io_threads_mutex[j] = "main"
    /\ pc = "unlock" => (j >= it <=> io_threads_mutex[j] = "main")
    /\ pc = "lock" => (j < it <=> io_threads_mutex[j] = "main")
    /\ io_threads_active = 1 /\ pc # "lock" => io_threads_mutex[j] # "main"

\* A batch is not empty, and its kind is set before its threads are woken up.
BatchInv ==
  /\ pc \in {"unlock", "distribute"} => queue[batch] # <<>>
  /\ Serving => io_threads_op = batch

InAList(c) == \E j \in Thread : \E m \in DOMAIN io_threads_list[j] : io_threads_list[j][m] = c

\* The clients of the lists are the batch's, visited when the thread's iterator
\* has passed them; a client of the batch is in a list until it has been visited.
VisitsInv ==
  /\ pc \notin {"publish", "wait", "collect"} => \A c \in Client : visits[c] = 0
  /\ \A j \in Thread : tnext[j] # 1 => tpc[j] = "work"
  /\ \A j \in Thread : \A m \in DOMAIN io_threads_list[j] :
       /\ visits[io_threads_list[j][m]] = IF m < tnext[j] THEN 1 ELSE 0
       /\ io_threads_list[j][m] \in Elements(queue[batch])
  /\ pc = "distribute" =>
       \A n \in DOMAIN queue[batch] : n <= it => InAList(queue[batch][n])
  /\ Serving => \A c \in Elements(queue[batch]) : visits[c] # 0 \/ InAList(c)

----------------------------------------------------------------------------

(* Facts about the operators of the model.                                 *)

LEMMA ThreadFacts ==
  /\ io_threads_num \in Nat \ {0} /\ io_threads_do_reads \in BOOLEAN
  /\ \A j \in Spawned : j \in Thread /\ io_threads_num # 1
  /\ io_threads_num # 1 => Spawned = Thread
  /\ \A j \in Thread : j \in Nat /\ j < io_threads_num
  /\ \A n \in Nat : n < io_threads_num => n \in Thread
BY ConfigAssumption DEF Spawned, Thread, IO_THREADS_MAX_NUM

LEMMA ModIsThread == \A n \in Nat : n % io_threads_num \in Thread
BY ConfigAssumption DEF Thread, IO_THREADS_MAX_NUM

LEMMA IndexIsThread == \A n \in Nat : n < io_threads_num => n \in Thread
BY ThreadFacts

LEMMA OpFacts ==
  "read" \in Op /\ "write" \in Op /\ \A o \in Op : o = "read" \/ o = "write"
BY DEF Op

\* An assignment to one element keeps an array's type.
LEMMA ExceptType ==
  ASSUME NEW S, NEW T, NEW f \in [S -> T], NEW x, NEW v \in T
  PROVE  [f EXCEPT ![x] = v] \in [S -> T]
<1>1. CASE x \in S
  BY <1>1
<1>2. CASE x \notin S
  BY <1>2, Zenon
<1> QED
  BY ONLY <1>1, <1>2

LEMMA EmptyFacts == <<>> \in Seq(Client) /\ Len(<<>>) = 0 /\ DOMAIN <<>> = {}
OBVIOUS

LEMMA SeqFacts ==
  ASSUME NEW s \in Seq(Client)
  PROVE  /\ Len(s) \in Nat /\ DOMAIN s = 1 .. Len(s)
         /\ \A i \in DOMAIN s : s[i] \in Client
         /\ Len(s) = 0 => s = <<>>
OBVIOUS

LEMMA ConsFacts ==
  ASSUME NEW c \in Client, NEW s \in Seq(Client)
  PROVE  /\ <<c>> \o s \in Seq(Client)
         /\ Len(<<c>> \o s) = Len(s) + 1
         /\ (<<c>> \o s)[1] = c
         /\ \A i \in 1 .. Len(s) : (<<c>> \o s)[i + 1] = s[i]
OBVIOUS

LEMMA AppendFacts ==
  ASSUME NEW c \in Client, NEW s \in Seq(Client)
  PROVE  /\ Append(s, c) \in Seq(Client)
         /\ Len(Append(s, c)) = Len(s) + 1
         /\ Append(s, c)[Len(s) + 1] = c
         /\ \A i \in 1 .. Len(s) : Append(s, c)[i] = s[i]
OBVIOUS

\* Unlinking a client gives a sequence of clients, without repetitions if there
\* were none.
LEMMA WithoutFacts ==
  ASSUME NEW c \in Client, NEW s \in Seq(Client)
  PROVE  /\ Without(s, c) \in Seq(Client)
         /\ Injective(s) => Injective(Without(s, c))
         /\ s = <<>> => Without(s, c) = <<>>
<1>1. CASE c \notin Elements(s)
  BY <1>1 DEF Without
<1>2. CASE c \in Elements(s)
  <2> DEFINE i == CHOOSE i \in DOMAIN s : s[i] = c
             t == [k \in 1 .. Len(s) - 1 |-> IF k < i THEN s[k] ELSE s[k + 1]]
  <2>1. i \in DOMAIN s /\ s[i] = c
    BY <1>2 DEF Elements
  <2>2. /\ Len(s) \in Nat /\ DOMAIN s = 1 .. Len(s) /\ Len(s) # 0
        /\ \A k \in 1 .. Len(s) : s[k] \in Client
    BY <2>1
  <2>3. Without(s, c) = t
    BY <1>2 DEF Without
  <2> HIDE DEF i
  <2>4. \A k \in 1 .. Len(s) - 1 : (IF k < i THEN s[k] ELSE s[k + 1]) \in Client
    BY <2>1, <2>2
  <2>5. t \in Seq(Client) /\ DOMAIN t = 1 .. Len(s) - 1
    BY <2>4, <2>2
  <2>6. ASSUME Injective(s), NEW m \in DOMAIN t, NEW n \in DOMAIN t, t[m] = t[n]
        PROVE  m = n
    <3>1. m \in 1 .. Len(s) - 1 /\ n \in 1 .. Len(s) - 1
      BY <2>5
    <3>2. (IF m < i THEN s[m] ELSE s[m + 1]) = (IF n < i THEN s[n] ELSE s[n + 1])
      BY <2>6, <3>1
    <3> QED
      BY <2>6, <3>1, <3>2, <2>1, <2>2 DEF Injective
  <2> QED
    BY <2>2, <2>3, <2>5, <2>6, EmptyFacts DEF Injective
<1> QED
  BY <1>1, <1>2

----------------------------------------------------------------------------

(* The type invariant, by parts.                                           *)

LEMMA MainTypeStep ==
  ASSUME MainTypeOK, SharedTypeOK, [Next]_vars
  PROVE  MainTypeOK'
<1> USE DEF MainTypeOK, mainVars, threadVars, sharedVars
<1>1. ASSUME NEW c \in Client, clientInstallWriteHandler(c) PROVE MainTypeOK'
  BY <1>1 DEF clientInstallWriteHandler
<1>2. ASSUME NEW c \in Client, postponeClientRead(c) PROVE MainTypeOK'
  BY <1>2 DEF postponeClientRead
<1>3. ASSUME NEW c \in Client, unlinkClient(c) PROVE MainTypeOK'
  BY <1>3 DEF unlinkClient
<1>4. CASE handleClientsWithPendingReadsUsingThreads
  BY <1>4 DEF handleClientsWithPendingReadsUsingThreads
<1>5. CASE handleClientsWithPendingWritesUsingThreads
  BY <1>5 DEF handleClientsWithPendingWritesUsingThreads
<1>6. CASE startThreadedIO
  BY <1>6 DEF startThreadedIO
<1>7. CASE stopThreadedIO
  BY <1>7 DEF stopThreadedIO
<1>8. CASE Distribute
  BY <1>8 DEF Distribute
<1>9. CASE Publish
  BY <1>9 DEF Publish
<1>10. CASE Wait
  BY <1>10, IndexIsThread DEF Wait, SharedTypeOK
<1>11. CASE Collect
  BY <1>11 DEF Collect
<1>12. ASSUME NEW j \in Spawned, Spin(j) PROVE MainTypeOK'
  BY <1>12 DEF Spin
<1>13. ASSUME NEW j \in Spawned, Check(j) PROVE MainTypeOK'
  BY <1>13 DEF Check
<1>14. ASSUME NEW j \in Spawned, Lock(j) PROVE MainTypeOK'
  BY <1>14 DEF Lock
<1>15. ASSUME NEW j \in Spawned, Unlock(j) PROVE MainTypeOK'
  BY <1>15 DEF Unlock
<1>16. ASSUME NEW j \in Spawned, Work(j) PROVE MainTypeOK'
  BY <1>16 DEF Work
<1>17. ASSUME NEW j \in Spawned, Drop(j) PROVE MainTypeOK'
  BY <1>17 DEF Drop
<1>18. CASE UNCHANGED vars
  BY <1>18 DEF vars
<1> HIDE DEF MainTypeOK, mainVars, threadVars, sharedVars
<1> QED
  BY <1>1, <1>2, <1>3, <1>4, <1>5, <1>6, <1>7, <1>8, <1>9,
     <1>10, <1>11, <1>12, <1>13, <1>14, <1>15, <1>16, <1>17, <1>18
  DEF Next, EventLoop, MainBusy, IOThreadMain


LEMMA QueueTypeStep ==
  ASSUME MainTypeOK, QueueTypeOK, [Next]_vars
  PROVE  QueueTypeOK'
<1> USE OpFacts DEF QueueTypeOK, mainVars, threadVars, sharedVars
<1>1. ASSUME NEW c \in Client, clientInstallWriteHandler(c) PROVE QueueTypeOK'
  BY <1>1, ConsFacts DEF clientInstallWriteHandler
<1>2. ASSUME NEW c \in Client, postponeClientRead(c) PROVE QueueTypeOK'
  BY <1>2, ConsFacts DEF postponeClientRead
<1>3. ASSUME NEW c \in Client, unlinkClient(c) PROVE QueueTypeOK'
  BY <1>3, WithoutFacts DEF unlinkClient
<1>4. CASE handleClientsWithPendingReadsUsingThreads
  BY <1>4 DEF handleClientsWithPendingReadsUsingThreads
<1>5. CASE handleClientsWithPendingWritesUsingThreads
  <2>1. [queue EXCEPT !["write"] = <<>>] \in [Op -> Seq(Client)]
    BY ONLY QueueTypeOK, EmptyFacts, ExceptType, Zenon DEF QueueTypeOK
  <2>2. queue' = queue \/ queue' = [queue EXCEPT !["write"] = <<>>]
    BY <1>5 DEF handleClientsWithPendingWritesUsingThreads
  <2>3. /\ batch' \in Op /\ io_threads_op' = io_threads_op
        /\ io_threads_active' = io_threads_active
    BY <1>5 DEF handleClientsWithPendingWritesUsingThreads
  <2> QED
    BY ONLY QueueTypeOK, <2>1, <2>2, <2>3, Zenon DEF QueueTypeOK
<1>6. CASE startThreadedIO
  BY <1>6 DEF startThreadedIO
<1>7. CASE stopThreadedIO
  <2>1. [queue EXCEPT !["write"] = <<>>] \in [Op -> Seq(Client)]
    BY ONLY QueueTypeOK, EmptyFacts, ExceptType, Zenon DEF QueueTypeOK
  <2>2. queue' = queue \/ queue' = [queue EXCEPT !["write"] = <<>>]
    BY <1>7 DEF stopThreadedIO
  <2>3. /\ batch' = batch /\ io_threads_op' = io_threads_op
        /\ io_threads_active' \in {0, 1}
    BY <1>7 DEF stopThreadedIO
  <2> QED
    BY ONLY QueueTypeOK, <2>1, <2>2, <2>3, Zenon DEF QueueTypeOK
<1>8. CASE Distribute
  BY <1>8 DEF Distribute
<1>9. CASE Publish
  BY <1>9 DEF Publish
<1>10. CASE Wait
  BY <1>10 DEF Wait
<1>11. CASE Collect
  <2> DEFINE reply == <<queue[batch][it + 1]>> \o queue["write"]
  <2>1. CASE it < Len(queue[batch])
    <3>1. queue[batch][it + 1] \in Client
      BY <2>1, SeqFacts DEF MainTypeOK
    <3>2. queue["write"] \in Seq(Client)
      OBVIOUS
    <3>3. reply \in Seq(Client)
      BY <3>1, <3>2, ConsFacts
    <3>4. /\ queue' = queue \/ queue' = [queue EXCEPT !["write"] = reply]
          /\ batch' = batch /\ io_threads_op' = io_threads_op
          /\ io_threads_active' = io_threads_active
      BY <1>11, <2>1 DEF Collect
    <3> HIDE DEF reply
    <3>5. [queue EXCEPT !["write"] = reply] \in [Op -> Seq(Client)]
      BY ONLY QueueTypeOK, <3>3, ExceptType DEF QueueTypeOK
    <3> QED
      BY ONLY QueueTypeOK, <3>4, <3>5 DEF QueueTypeOK
  <2>2. CASE ~(it < Len(queue[batch]))
    <3>1. /\ queue' = [queue EXCEPT ![batch] = <<>>]
          /\ batch' \in Op /\ io_threads_op' = io_threads_op
          /\ io_threads_active' = io_threads_active
      BY <1>11, <2>2 DEF Collect
    <3>2. queue' \in [Op -> Seq(Client)]
      BY ONLY QueueTypeOK, <3>1, EmptyFacts, ExceptType, Zenon DEF QueueTypeOK
    <3> QED
      BY ONLY QueueTypeOK, <3>1, <3>2 DEF QueueTypeOK
  <2> QED
    BY ONLY <2>1, <2>2
<1>12. ASSUME NEW j \in Spawned, Spin(j) PROVE QueueTypeOK'
  BY <1>12 DEF Spin
<1>13. ASSUME NEW j \in Spawned, Check(j) PROVE QueueTypeOK'
  BY <1>13 DEF Check
<1>14. ASSUME NEW j \in Spawned, Lock(j) PROVE QueueTypeOK'
  BY <1>14 DEF Lock
<1>15. ASSUME NEW j \in Spawned, Unlock(j) PROVE QueueTypeOK'
  BY <1>15 DEF Unlock
<1>16. ASSUME NEW j \in Spawned, Work(j) PROVE QueueTypeOK'
  BY <1>16 DEF Work
<1>17. ASSUME NEW j \in Spawned, Drop(j) PROVE QueueTypeOK'
  BY <1>17 DEF Drop
<1>18. CASE UNCHANGED vars
  BY <1>18 DEF vars
<1> HIDE OpFacts DEF QueueTypeOK, mainVars, threadVars, sharedVars
<1> QED
  BY <1>1, <1>2, <1>3, <1>4, <1>5, <1>6, <1>7, <1>8, <1>9,
     <1>10, <1>11, <1>12, <1>13, <1>14, <1>15, <1>16, <1>17, <1>18
  DEF Next, EventLoop, MainBusy, IOThreadMain


LEMMA SharedTypeStep ==
  ASSUME MainTypeOK, QueueTypeOK, SharedTypeOK, [Next]_vars
  PROVE  SharedTypeOK'
<1> USE ThreadFacts DEF SharedTypeOK, mainVars, threadVars, sharedVars
<1>1. ASSUME NEW c \in Client, clientInstallWriteHandler(c) PROVE SharedTypeOK'
  BY <1>1 DEF clientInstallWriteHandler
<1>2. ASSUME NEW c \in Client, postponeClientRead(c) PROVE SharedTypeOK'
  BY <1>2 DEF postponeClientRead
<1>3. ASSUME NEW c \in Client, unlinkClient(c) PROVE SharedTypeOK'
  BY <1>3 DEF unlinkClient
<1>4. CASE handleClientsWithPendingReadsUsingThreads
  BY <1>4 DEF handleClientsWithPendingReadsUsingThreads
<1>5. CASE handleClientsWithPendingWritesUsingThreads
  BY <1>5 DEF handleClientsWithPendingWritesUsingThreads
<1>6. CASE startThreadedIO
  <2>1. /\ io_threads_pending' = io_threads_pending /\ io_threads_list' = io_threads_list
        /\ \/ io_threads_mutex' = io_threads_mutex
           \/ io_threads_mutex' = [io_threads_mutex EXCEPT ![it] = "none"]
    BY <1>6 DEF startThreadedIO
  <2>2. [io_threads_mutex EXCEPT ![it] = "none"] \in [Thread -> {"none", "main", "thread"}]
    BY ONLY SharedTypeOK, ExceptType, Zenon DEF SharedTypeOK
  <2> QED
    BY ONLY SharedTypeOK, <2>1, <2>2 DEF SharedTypeOK
<1>7. CASE stopThreadedIO
  <2>1. /\ io_threads_pending' = io_threads_pending /\ io_threads_list' = io_threads_list
        /\ \/ io_threads_mutex' = io_threads_mutex
           \/ io_threads_mutex' = [io_threads_mutex EXCEPT ![it] = "main"]
    BY <1>7 DEF stopThreadedIO
  <2>2. [io_threads_mutex EXCEPT ![it] = "main"] \in [Thread -> {"none", "main", "thread"}]
    BY ONLY SharedTypeOK, ExceptType, Zenon DEF SharedTypeOK
  <2> QED
    BY ONLY SharedTypeOK, <2>1, <2>2 DEF SharedTypeOK
<1>8. CASE Distribute
  <2> DEFINE k == it % io_threads_num
             longer == Append(io_threads_list[k], queue[batch][it + 1])
  <2>1. CASE it < Len(queue[batch])
    <3>1. queue[batch][it + 1] \in Client
      BY <2>1, SeqFacts DEF MainTypeOK, QueueTypeOK
    <3>2. /\ io_threads_list' = [io_threads_list EXCEPT ![k] = longer]
          /\ io_threads_pending' = io_threads_pending
          /\ io_threads_mutex' = io_threads_mutex
      BY <1>8, <2>1 DEF Distribute
    <3>3. k \in Thread
      BY ModIsThread DEF MainTypeOK
    <3> HIDE DEF k
    <3>4. longer \in Seq(Client)
      BY ONLY SharedTypeOK, <3>1, <3>3, AppendFacts DEF SharedTypeOK
    <3> HIDE DEF longer
    <3>5. io_threads_list' \in [Thread -> Seq(Client)]
      BY ONLY SharedTypeOK, <3>2, <3>4, ExceptType DEF SharedTypeOK
    <3> QED
      BY ONLY SharedTypeOK, <3>2, <3>5 DEF SharedTypeOK
  <2>2. CASE ~(it < Len(queue[batch]))
    BY <1>8, <2>2 DEF Distribute
  <2> QED
    BY ONLY <2>1, <2>2
<1>9. CASE Publish
  <2>1. io_threads_mutex' = io_threads_mutex /\ io_threads_list' = io_threads_list
    BY <1>9 DEF Publish
  <2>2. CASE it < io_threads_num
    <3>1. it \in Thread
      BY <2>2, IndexIsThread DEF MainTypeOK
    <3>2. Len(io_threads_list[it]) \in Nat
      BY <3>1, SeqFacts
    <3>3. io_threads_pending' = [io_threads_pending EXCEPT ![it] = Len(io_threads_list[it])]
      BY <1>9, <2>2 DEF Publish
    <3> QED
      BY <2>1, <3>1, <3>2, <3>3
  <2>3. CASE ~(it < io_threads_num)
    BY <1>9, <2>1, <2>3 DEF Publish
  <2> QED
    BY <2>2, <2>3
<1>10. CASE Wait
  BY <1>10 DEF Wait
<1>11. CASE Collect
  BY <1>11 DEF Collect
<1>12. ASSUME NEW j \in Spawned, Spin(j) PROVE SharedTypeOK'
  BY <1>12 DEF Spin
<1>13. ASSUME NEW j \in Spawned, Check(j) PROVE SharedTypeOK'
  BY <1>13 DEF Check
<1>14. ASSUME NEW j \in Spawned, Lock(j) PROVE SharedTypeOK'
  BY <1>14 DEF Lock
<1>15. ASSUME NEW j \in Spawned, Unlock(j) PROVE SharedTypeOK'
  BY <1>15 DEF Unlock
<1>16. ASSUME NEW j \in Spawned, Work(j) PROVE SharedTypeOK'
  <2>1. /\ io_threads_pending' = io_threads_pending
        /\ io_threads_mutex' = io_threads_mutex
        /\ \/ io_threads_list' = io_threads_list
           \/ io_threads_list' = [io_threads_list EXCEPT ![j] = <<>>]
    BY <1>16 DEF Work
  <2>2. [io_threads_list EXCEPT ![j] = <<>>] \in [Thread -> Seq(Client)]
    BY ONLY SharedTypeOK, EmptyFacts, ExceptType, Zenon DEF SharedTypeOK
  <2> QED
    BY ONLY SharedTypeOK, <2>1, <2>2, Zenon DEF SharedTypeOK
<1>17. ASSUME NEW j \in Spawned, Drop(j) PROVE SharedTypeOK'
  BY <1>17 DEF Drop
<1>18. CASE UNCHANGED vars
  BY <1>18 DEF vars
<1> HIDE ThreadFacts DEF SharedTypeOK, mainVars, threadVars, sharedVars
<1> QED
  BY <1>1, <1>2, <1>3, <1>4, <1>5, <1>6, <1>7, <1>8, <1>9,
     <1>10, <1>11, <1>12, <1>13, <1>14, <1>15, <1>16, <1>17, <1>18
  DEF Next, EventLoop, MainBusy, IOThreadMain


LEMMA ThreadTypeStep ==
  ASSUME SharedTypeOK, ThreadTypeOK, [Next]_vars
  PROVE  ThreadTypeOK'
<1> USE ThreadFacts DEF ThreadTypeOK, mainVars, threadVars, sharedVars
<1>1. ASSUME NEW c \in Client, clientInstallWriteHandler(c) PROVE ThreadTypeOK'
  BY <1>1 DEF clientInstallWriteHandler
<1>2. ASSUME NEW c \in Client, postponeClientRead(c) PROVE ThreadTypeOK'
  BY <1>2 DEF postponeClientRead
<1>3. ASSUME NEW c \in Client, unlinkClient(c) PROVE ThreadTypeOK'
  BY <1>3 DEF unlinkClient
<1>4. CASE handleClientsWithPendingReadsUsingThreads
  BY <1>4 DEF handleClientsWithPendingReadsUsingThreads
<1>5. CASE handleClientsWithPendingWritesUsingThreads
  BY <1>5 DEF handleClientsWithPendingWritesUsingThreads
<1>6. CASE startThreadedIO
  BY <1>6 DEF startThreadedIO
<1>7. CASE stopThreadedIO
  BY <1>7 DEF stopThreadedIO
<1>8. CASE Distribute
  BY <1>8 DEF Distribute
<1>9. CASE Publish
  BY <1>9 DEF Publish
<1>10. CASE Wait
  BY <1>10 DEF Wait
<1>11. CASE Collect
  BY <1>11 DEF Collect
<1>12. ASSUME NEW j \in Spawned, Spin(j) PROVE ThreadTypeOK'
  BY <1>12 DEF Spin
<1>13. ASSUME NEW j \in Spawned, Check(j) PROVE ThreadTypeOK'
  BY <1>13 DEF Check
<1>14. ASSUME NEW j \in Spawned, Lock(j) PROVE ThreadTypeOK'
  BY <1>14 DEF Lock
<1>15. ASSUME NEW j \in Spawned, Unlock(j) PROVE ThreadTypeOK'
  BY <1>15 DEF Unlock
<1>16. ASSUME NEW j \in Spawned, Work(j) PROVE ThreadTypeOK'
  <2>1. tpc' \in [Thread -> {"spin", "check", "lock", "unlock", "work", "drop"}]
    <3>1. tpc' = tpc \/ tpc' = [tpc EXCEPT ![j] = "drop"]
      BY <1>16 DEF Work
    <3> QED
      BY ONLY ThreadTypeOK, <3>1, ExceptType DEF ThreadTypeOK
  <2>2. tnext' \in [Thread -> Nat \ {0}]
    <3>1. \/ tnext' = [tnext EXCEPT ![j] = tnext[j] + 1]
          \/ tnext' = [tnext EXCEPT ![j] = 1]
      BY <1>16 DEF Work
    <3>2. tnext[j] + 1 \in Nat \ {0}
      BY ThreadFacts
    <3> QED
      BY ONLY ThreadTypeOK, <3>1, <3>2, ExceptType DEF ThreadTypeOK
  <2>3. visits' \in [Client -> Nat]
    <3>1. CASE tnext[j] <= Len(io_threads_list[j])
      <4> DEFINE c == io_threads_list[j][tnext[j]]
      <4>1. visits' = [visits EXCEPT ![c] = @ + 1]
        BY <1>16, <3>1 DEF Work
      <4>2. visits \in [Client -> Nat]
        OBVIOUS
      <4> HIDE DEF c
      <4>3. CASE c \in Client
        BY ONLY <4>1, <4>2, <4>3
      <4>4. CASE c \notin Client
        BY ONLY <4>1, <4>2, <4>4, Zenon
      <4> QED
        BY <4>3, <4>4
    <3>2. CASE ~(tnext[j] <= Len(io_threads_list[j]))
      BY <1>16, <3>2 DEF Work
    <3> QED
      BY <3>1, <3>2
  <2> QED
    BY <2>1, <2>2, <2>3
<1>17. ASSUME NEW j \in Spawned, Drop(j) PROVE ThreadTypeOK'
  BY <1>17 DEF Drop
<1>18. CASE UNCHANGED vars
  BY <1>18 DEF vars
<1> HIDE ThreadFacts DEF ThreadTypeOK, mainVars, threadVars, sharedVars
<1> QED
  BY <1>1, <1>2, <1>3, <1>4, <1>5, <1>6, <1>7, <1>8, <1>9,
     <1>10, <1>11, <1>12, <1>13, <1>14, <1>15, <1>16, <1>17, <1>18
  DEF Next, EventLoop, MainBusy, IOThreadMain

LEMMA InitType == Init => TypeOK
BY OpFacts, EmptyFacts
DEF Init, TypeOK, MainTypeOK, QueueTypeOK, SharedTypeOK, ThreadTypeOK

LEMMA TypeStep == TypeOK /\ [Next]_vars => TypeOK'
BY MainTypeStep, QueueTypeStep, SharedTypeStep, ThreadTypeStep DEF TypeOK

\* Every variable of the handshake keeps its type, whatever the number of
\* threads and clients.
THEOREM TypeCorrect == Spec => []TypeOK
BY InitType, TypeStep, PTL DEF Spec

----------------------------------------------------------------------------
LEMMA CountersStep ==
  ASSUME TypeOK, CountersInv, ListsInv, [Next]_vars
  PROVE  CountersInv'
<1> USE ThreadFacts DEF TypeOK, MainTypeOK, SharedTypeOK,
                        ThreadTypeOK, CountersInv, Working, mainVars, threadVars, sharedVars
<1>1. ASSUME NEW c \in Client, clientInstallWriteHandler(c) PROVE CountersInv'
  BY <1>1 DEF clientInstallWriteHandler
<1>2. ASSUME NEW c \in Client, postponeClientRead(c) PROVE CountersInv'
  BY <1>2 DEF postponeClientRead
<1>3. ASSUME NEW c \in Client, unlinkClient(c) PROVE CountersInv'
  BY <1>3 DEF unlinkClient
<1>4. CASE handleClientsWithPendingReadsUsingThreads
  BY <1>4 DEF handleClientsWithPendingReadsUsingThreads
<1>5. CASE handleClientsWithPendingWritesUsingThreads
  BY <1>5 DEF handleClientsWithPendingWritesUsingThreads
<1>6. CASE startThreadedIO
  BY <1>6 DEF startThreadedIO
<1>7. CASE stopThreadedIO
  BY <1>7 DEF stopThreadedIO
<1>8. CASE Distribute
  <2>1. /\ pc = "distribute" /\ pc' # "wait"
        /\ tpc' = tpc /\ io_threads_pending' = io_threads_pending
    BY <1>8 DEF Distribute
  <2> QED
    BY ONLY CountersInv, <2>1 DEF CountersInv, Working
<1>9. CASE Publish
  <2>1. CASE it < io_threads_num
    <3>1. /\ pc = "publish" /\ pc' = "publish" /\ it' = it + 1 /\ tpc' = tpc
          /\ \A j \in Thread : j # it => io_threads_pending'[j] = io_threads_pending[j]
      BY <1>9, <2>1 DEF Publish
    <3>2. \A j \in Thread : Working(j) => j < it
      BY <3>1
    <3> QED
      <4>1. ASSUME NEW j \in Thread, io_threads_pending'[j] # 0 PROVE j < it + 1
        <5>1. j = it \/ j < it
          BY <3>1, <4>1
        <5>2. j \in Nat /\ it \in Nat
          BY ThreadFacts
        <5> HIDE ThreadFacts DEF TypeOK, MainTypeOK, SharedTypeOK,
                                 ThreadTypeOK, CountersInv, Working, mainVars, threadVars, sharedVars
        <5> QED
          BY <5>1, <5>2
      <4>2. ASSUME NEW j \in Thread, Working(j)' PROVE io_threads_pending'[j] # 0
        BY <3>1, <3>2, <4>2
      <4> QED
        BY <3>1, <4>1, <4>2
  <2>2. CASE ~(it < io_threads_num)
    BY <1>9, <2>2 DEF Publish
  <2> QED
    BY <2>1, <2>2
<1>10. CASE Wait
  <2>1. /\ pc = "wait" /\ tpc' = tpc /\ io_threads_pending' = io_threads_pending
    BY <1>10 DEF Wait
  <2>2. CASE it < io_threads_num
    <3>1. pc' = "wait" /\ it' = it + 1 /\ acc' = acc + io_threads_pending[it]
      BY <1>10, <2>2 DEF Wait
    <3>2. it \in Thread /\ io_threads_pending[it] \in Nat /\ acc \in Nat
      BY <2>2
    <3>3. acc' = 0 => acc = 0 /\ io_threads_pending[it] = 0
      BY <3>1, <3>2
    <3>4. ASSUME acc' = 0, NEW j \in Thread, j < it + 1
          PROVE  io_threads_pending[j] = 0
      <4>1. j = it \/ j < it
        BY <3>2, <3>4
      <4> QED
        BY <2>1, <3>3, <3>4, <4>1
    <3> QED
      BY <2>1, <3>1, <3>4
  <2>3. CASE ~(it < io_threads_num) /\ acc # 0
    <3>1. pc' = "wait" /\ it' = 0
      BY <1>10, <2>3 DEF Wait
    <3> QED
      BY <2>1, <3>1
  <2>4. CASE ~(it < io_threads_num) /\ acc = 0
    <3>1. \A j \in Thread : io_threads_pending[j] = 0
      BY <2>1, <2>4
    <3>2. pc' = "collect"
      BY <1>10, <2>4 DEF Wait
    <3> QED
      BY <2>1, <3>1, <3>2
  <2> QED
    BY <2>2, <2>3, <2>4
<1>11. CASE Collect
  BY <1>11 DEF Collect
<1>12. ASSUME NEW j \in Spawned, Spin(j) PROVE CountersInv'
  BY <1>12 DEF Spin
<1>13. ASSUME NEW j \in Spawned, Check(j) PROVE CountersInv'
  BY <1>13 DEF Check
<1>14. ASSUME NEW j \in Spawned, Lock(j) PROVE CountersInv'
  BY <1>14 DEF Lock
<1>15. ASSUME NEW j \in Spawned, Unlock(j) PROVE CountersInv'
  BY <1>15 DEF Unlock
<1>16. ASSUME NEW j \in Spawned, Work(j) PROVE CountersInv'
  <2>1. /\ pc' = pc /\ it' = it /\ acc' = acc
        /\ io_threads_pending' = io_threads_pending
    BY <1>16 DEF Work
  <2>2. tpc[j] = "work" /\ (tpc' = tpc \/ tpc' = [tpc EXCEPT ![j] = "drop"])
    BY <1>16 DEF Work
  <2>3. \A k \in Thread : k # j => tpc'[k] = tpc[k]
    BY ONLY TypeOK, <2>2 DEF TypeOK, ThreadTypeOK
  <2> QED
    BY ONLY CountersInv, <2>1, <2>2, <2>3 DEF CountersInv, Working
<1>17. ASSUME NEW j \in Spawned, Drop(j) PROVE CountersInv'
  BY <1>17 DEF Drop
<1>18. CASE UNCHANGED vars
  BY <1>18 DEF vars
<1> HIDE ThreadFacts DEF TypeOK, MainTypeOK, SharedTypeOK,
                         ThreadTypeOK, CountersInv, Working, mainVars, threadVars, sharedVars
<1> QED
  BY <1>1, <1>2, <1>3, <1>4, <1>5, <1>6, <1>7, <1>8, <1>9,
     <1>10, <1>11, <1>12, <1>13, <1>14, <1>15, <1>16, <1>17, <1>18
  DEF Next, EventLoop, MainBusy, IOThreadMain

LEMMA ListsStep ==
  ASSUME TypeOK, CountersInv, ListsInv, [Next]_vars
  PROVE  ListsInv'
<1> USE ThreadFacts DEF TypeOK, MainTypeOK, SharedTypeOK,
                        ThreadTypeOK, ListsInv, mainVars, threadVars, sharedVars
<1>1. ASSUME NEW c \in Client, clientInstallWriteHandler(c) PROVE ListsInv'
  BY <1>1 DEF clientInstallWriteHandler
<1>2. ASSUME NEW c \in Client, postponeClientRead(c) PROVE ListsInv'
  BY <1>2 DEF postponeClientRead
<1>3. ASSUME NEW c \in Client, unlinkClient(c) PROVE ListsInv'
  BY <1>3 DEF unlinkClient
<1>4. CASE handleClientsWithPendingReadsUsingThreads
  BY <1>4 DEF handleClientsWithPendingReadsUsingThreads
<1>5. CASE handleClientsWithPendingWritesUsingThreads
  BY <1>5 DEF handleClientsWithPendingWritesUsingThreads
<1>6. CASE startThreadedIO
  BY <1>6 DEF startThreadedIO
<1>7. CASE stopThreadedIO
  BY <1>7 DEF stopThreadedIO
<1>8. CASE Distribute
  <2>1. \A j \in Thread : tpc[j] # "drop"
    BY <1>8 DEF Distribute, CountersInv, Working
  <2>2. /\ pc' \in {"distribute", "publish"} /\ (pc' = "publish" => it' = 0)
        /\ tpc' = tpc
    BY <1>8 DEF Distribute
  <2> QED
    BY <2>1, <2>2
<1>9. CASE Publish
  <2>1. CASE it < io_threads_num
    <3>1. /\ pc' = "publish" /\ it' = it + 1
          /\ io_threads_list' = io_threads_list /\ tpc' = tpc
          /\ \A j \in Thread : j # it => io_threads_pending'[j] = io_threads_pending[j]
          /\ \A j \in Thread : j = it => io_threads_pending'[j] = Len(io_threads_list[j])
      BY <1>9, <2>1 DEF Publish
    <3> QED
      <4>1. ASSUME NEW j \in Thread, tpc'[j] = "drop" PROVE io_threads_list'[j] = <<>>
        BY <3>1, <4>1
      <4>2. ASSUME NEW j \in Thread, j < it + 1, io_threads_pending'[j] = 0
            PROVE  io_threads_list'[j] = <<>>
        <5>1. CASE j = it
          BY <3>1, <4>2, <5>1, SeqFacts
        <5>2. CASE j # it
          BY <1>9, <3>1, <4>2, <5>2 DEF Publish
        <5> QED
          BY <5>1, <5>2
      <4> QED
        BY <3>1, <4>1, <4>2
  <2>2. CASE ~(it < io_threads_num)
    BY <1>9, <2>2 DEF Publish
  <2> QED
    BY <2>1, <2>2
<1>10. CASE Wait
  <2>1. CASE pc' = "wait"
    BY <1>10, <2>1 DEF Wait
  <2>2. CASE pc' # "wait"
    <3>1. acc = 0 /\ it \in Nat /\ ~(it < io_threads_num)
      BY <1>10, <2>2 DEF Wait
    <3>2. \A j \in Thread : io_threads_pending[j] = 0
      BY <1>10, <3>1 DEF Wait, CountersInv
    <3> QED
      BY <1>10, <3>2 DEF Wait
  <2> QED
    BY <2>1, <2>2
<1>11. CASE Collect
  BY <1>11 DEF Collect
<1>12. ASSUME NEW j \in Spawned, Spin(j) PROVE ListsInv'
  BY <1>12 DEF Spin
<1>13. ASSUME NEW j \in Spawned, Check(j) PROVE ListsInv'
  BY <1>13 DEF Check
<1>14. ASSUME NEW j \in Spawned, Lock(j) PROVE ListsInv'
  BY <1>14 DEF Lock
<1>15. ASSUME NEW j \in Spawned, Unlock(j) PROVE ListsInv'
  BY <1>15 DEF Unlock
<1>16. ASSUME NEW j \in Spawned, Work(j) PROVE ListsInv'
  <2>1. pc' = pc /\ it' = it /\ io_threads_pending' = io_threads_pending
    BY <1>16 DEF Work
  <2>2. CASE tnext[j] <= Len(io_threads_list[j])
    <3>1. tpc' = tpc /\ io_threads_list' = io_threads_list
      BY <1>16, <2>2 DEF Work
    <3> QED
      BY <2>1, <3>1
  <2>3. CASE ~(tnext[j] <= Len(io_threads_list[j]))
    <3>1. /\ io_threads_list'[j] = <<>>
          /\ \A k \in Thread \ {j} : /\ io_threads_list'[k] = io_threads_list[k]
                                     /\ tpc'[k] = tpc[k]
      BY <1>16, <2>3 DEF Work
    <3> QED
      BY ONLY ListsInv, <2>1, <3>1 DEF ListsInv
  <2> QED
    BY ONLY <2>2, <2>3
<1>17. ASSUME NEW j \in Spawned, Drop(j) PROVE ListsInv'
  <2>1. /\ pc' = pc /\ it' = it /\ io_threads_list' = io_threads_list
        /\ tpc[j] = "drop"
        /\ \A k \in Thread : k # j => /\ io_threads_pending'[k] = io_threads_pending[k]
                                       /\ tpc'[k] = tpc[k]
    BY <1>17 DEF Drop
  <2> QED
    BY ONLY ListsInv, <2>1 DEF ListsInv
<1>18. CASE UNCHANGED vars
  BY <1>18 DEF vars
<1> HIDE ThreadFacts DEF TypeOK, MainTypeOK, SharedTypeOK,
                         ThreadTypeOK, ListsInv, mainVars, threadVars, sharedVars
<1> QED
  BY <1>1, <1>2, <1>3, <1>4, <1>5, <1>6, <1>7, <1>8, <1>9,
     <1>10, <1>11, <1>12, <1>13, <1>14, <1>15, <1>16, <1>17, <1>18
  DEF Next, EventLoop, MainBusy, IOThreadMain

\* "the main thread will never touch our list before we drop the pending count
\* to 0": no thread works on its list unless the main thread is waiting for it,
\* or still waking up later threads.
THEOREM MainWaits == Spec => []MainWaitsWhileThreadsWork
<1> DEFINE I == TypeOK /\ CountersInv /\ ListsInv
<1>1. Init => I
  <2>1. ASSUME Init PROVE CountersInv
    BY <2>1 DEF Init, CountersInv, Working
  <2>2. ASSUME Init PROVE ListsInv
    BY <2>2 DEF Init, ListsInv
  <2> QED
    BY <2>1, <2>2, InitType
<1>2. I /\ [Next]_vars => I'
  BY TypeStep, CountersStep, ListsStep
<1>3. I => MainWaitsWhileThreadsWork
  BY DEF CountersInv, MainWaitsWhileThreadsWork
<1>. QED
  BY <1>1, <1>2, <1>3, PTL DEF Spec

----------------------------------------------------------------------------
LEMMA ModeStep ==
  ASSUME TypeOK, ModeInv, [Next]_vars
  PROVE  ModeInv'
<1> USE ThreadFacts, OpFacts DEF TypeOK, MainTypeOK, QueueTypeOK, ModeInv,
                                 mainVars
<1>1. ASSUME NEW c \in Client, clientInstallWriteHandler(c) PROVE ModeInv'
  BY <1>1 DEF clientInstallWriteHandler
<1>2. ASSUME NEW c \in Client, postponeClientRead(c) PROVE ModeInv'
  BY <1>2 DEF postponeClientRead
<1>3. ASSUME NEW c \in Client, unlinkClient(c) PROVE ModeInv'
  <2>1. /\ pc = "loop" /\ queue'["read"] = Without(queue["read"], c)
        /\ UNCHANGED <<pc, ret, batch, io_threads_active>>
    BY <1>3 DEF unlinkClient
  <2>2. queue["read"] = <<>> => queue'["read"] = <<>>
    BY <2>1, WithoutFacts
  <2> QED
    BY <2>1, <2>2
<1>4. CASE handleClientsWithPendingReadsUsingThreads
  BY <1>4 DEF handleClientsWithPendingReadsUsingThreads, ReadsToServe
<1>5. CASE handleClientsWithPendingWritesUsingThreads
  BY <1>5 DEF handleClientsWithPendingWritesUsingThreads, ReadsToServe, TooFewClients
<1>6. CASE startThreadedIO
  BY <1>6 DEF startThreadedIO
<1>7. CASE stopThreadedIO
  BY <1>7 DEF stopThreadedIO
<1>8. CASE Distribute
  BY <1>8 DEF Distribute
<1>9. CASE Publish
  BY <1>9 DEF Publish
<1>10. CASE Wait
  BY <1>10 DEF Wait
<1>11. CASE Collect
  <2>1. CASE it < Len(queue[batch])
    BY <1>11, <2>1 DEF Collect
  <2>2. CASE ~(it < Len(queue[batch]))
    BY <1>11, <2>2 DEF Collect
  <2> QED
    BY ONLY <2>1, <2>2
<1>12. ASSUME NEW j \in Spawned, IOThreadMain(j) PROVE ModeInv'
  BY <1>12 DEF IOThreadMain, Spin, Check, Lock, Unlock, Work, Drop
<1>13. CASE UNCHANGED vars
  BY <1>13 DEF vars
<1> HIDE ThreadFacts, OpFacts DEF TypeOK, MainTypeOK, QueueTypeOK, ModeInv, mainVars
<1> QED
  BY <1>1, <1>2, <1>3, <1>4, <1>5, <1>6, <1>7, <1>8, <1>9,
     <1>10, <1>11, <1>12, <1>13
  DEF Next, EventLoop, MainBusy

LEMMA MutexStep ==
  ASSUME TypeOK, ModeInv, MutexInv, [Next]_vars
  PROVE  MutexInv'
<1> USE ThreadFacts DEF TypeOK, MainTypeOK, SharedTypeOK, ThreadTypeOK, MutexInv,
                        mainVars, threadVars, sharedVars
<1>1. ASSUME NEW c \in Client,
             clientInstallWriteHandler(c) \/ postponeClientRead(c) \/ unlinkClient(c)
      PROVE MutexInv'
  BY <1>1, Zenon DEF clientInstallWriteHandler, postponeClientRead, unlinkClient
<1>2. CASE handleClientsWithPendingReadsUsingThreads
  BY <1>2 DEF handleClientsWithPendingReadsUsingThreads, ReadsToServe
<1>3. CASE handleClientsWithPendingWritesUsingThreads
  BY <1>3 DEF handleClientsWithPendingWritesUsingThreads, ModeInv, QueueTypeOK
<1>4. CASE startThreadedIO
  <2>1. CASE it < io_threads_num
    <3>1. /\ pc = "unlock" /\ io_threads_active = 0 /\ it' = it + 1 /\ it \in Nat
          /\ UNCHANGED <<pc, io_threads_active, tpc>>
          /\ io_threads_mutex' = [io_threads_mutex EXCEPT ![it] = "none"]
      BY <1>4, <2>1 DEF startThreadedIO, ModeInv
    <3>2. ASSUME NEW j \in Spawned
          PROVE  io_threads_mutex'[j] = IF j = it THEN "none" ELSE io_threads_mutex[j]
      BY <3>1
    <3>3. ASSUME NEW j \in Spawned
          PROVE  /\ j \in Nat /\ (io_threads_mutex[j] = "thread" <=> tpc[j] = "unlock")
                 /\ j >= it <=> io_threads_mutex[j] = "main"
      BY <3>1
    <3> QED
      BY ONLY <3>1, <3>2, <3>3 DEF MutexInv
  <2>2. CASE ~(it < io_threads_num)
    BY <1>4, <2>2 DEF startThreadedIO, ModeInv
  <2> QED
    BY ONLY <2>1, <2>2
<1>5. CASE stopThreadedIO
  <2>1. CASE it < io_threads_num
    <3>1. /\ pc = "lock" /\ pc' = "lock" /\ it' = it + 1 /\ tpc' = tpc
          /\ io_threads_mutex[it] = "none" /\ io_threads_mutex'[it] = "main"
          /\ \A j \in Thread : j # it => io_threads_mutex'[j] = io_threads_mutex[j]
          /\ io_threads_active' = io_threads_active
      BY <1>5, <2>1 DEF stopThreadedIO
    <3>2. ASSUME NEW j \in Spawned
          PROVE  /\ io_threads_mutex'[j] = "thread" <=> tpc'[j] = "unlock"
                 /\ j < it' <=> io_threads_mutex'[j] = "main"
      <4>1. j \in Nat /\ it \in Nat /\ j \in Thread
        OBVIOUS
      <4>2. CASE j = it
        BY <3>1, <4>1, <4>2
      <4>3. CASE j # it
        BY <3>1, <4>1, <4>3
      <4> QED
        BY ONLY <4>2, <4>3
    <3> QED
      BY ONLY <3>1, <3>2 DEF MutexInv
  <2>2. CASE ~(it < io_threads_num)
    BY <1>5, <2>2 DEF stopThreadedIO, ModeInv
  <2> QED
    BY ONLY <2>1, <2>2
<1>6. CASE Distribute \/ Publish \/ Wait \/ Collect
  <2>1. /\ pc \in {"distribute", "publish", "wait", "collect"}
        /\ UNCHANGED <<io_threads_mutex, tpc, io_threads_active>>
    BY <1>6 DEF Distribute, Publish, Wait, Collect
  <2>2. io_threads_active = 1 /\ \A j \in Spawned : io_threads_mutex[j] # "main"
    BY <2>1 DEF ModeInv, QueueTypeOK
  <2>3. pc' # "unlock" /\ (pc' = "lock" => it' = 0)
    BY <1>6 DEF Distribute, Publish, Wait, Collect
  <2>4. \A j \in Spawned : ~(j < 0)
    OBVIOUS
  <2> QED
    BY ONLY MutexInv, <2>1, <2>2, <2>3, <2>4 DEF MutexInv
<1>7. ASSUME NEW j \in Spawned, Spin(j) \/ Check(j) \/ Work(j) \/ Drop(j) PROVE MutexInv'
  <2>1. UNCHANGED <<pc, it, io_threads_active, io_threads_mutex>>
    BY <1>7 DEF Spin, Check, Work, Drop
  <2>2. tpc[j] # "unlock" /\ tpc'[j] # "unlock" /\ \A k \in Thread : k # j => tpc'[k] = tpc[k]
    BY <1>7, Zenon DEF Spin, Check, Work, Drop
  <2>3. \A k \in Spawned : tpc'[k] = "unlock" <=> tpc[k] = "unlock"
    BY <2>2
  <2> QED
    BY ONLY MutexInv, <2>1, <2>3 DEF MutexInv
<1>8. ASSUME NEW j \in Spawned, Lock(j) PROVE MutexInv'
  BY <1>8 DEF Lock
<1>9. ASSUME NEW j \in Spawned, Unlock(j) PROVE MutexInv'
  BY <1>9 DEF Unlock
<1>10. CASE UNCHANGED vars
  BY <1>10 DEF vars
<1> HIDE ThreadFacts DEF TypeOK, MainTypeOK, SharedTypeOK, ThreadTypeOK, MutexInv,
                         mainVars, threadVars, sharedVars
<1> QED
  BY <1>1, <1>2, <1>3, <1>4, <1>5, <1>6, <1>7, <1>8, <1>9, <1>10
  DEF Next, EventLoop, MainBusy, IOThreadMain

\* Stopping the threads leaves no client in clients_pending_read, and the main
\* thread holds every mutex while the threads are stopped.
THEOREM StopIsClean == Spec => [](NoReadLeftBehind /\ StoppedThreadsAreParked)
<1> DEFINE I == TypeOK /\ ModeInv /\ MutexInv
<1>1. Init => I
  BY InitType, ThreadFacts, OpFacts DEF Init, ModeInv, MutexInv
<1>2. I /\ [Next]_vars => I'
  BY TypeStep, ModeStep, MutexStep
<1>3. I => NoReadLeftBehind /\ StoppedThreadsAreParked
  BY ThreadFacts DEF ModeInv, MutexInv, NoReadLeftBehind, StoppedThreadsAreParked
<1> QED
  BY <1>1, <1>2, <1>3, PTL DEF Spec

----------------------------------------------------------------------------
\* A client put before a sequence that does not hold it.
LEMMA ConsInjective ==
  ASSUME NEW c \in Client, NEW s \in Seq(Client), c \notin Elements(s), Injective(s)
  PROVE  Injective(<<c>> \o s)
<1> DEFINE t == <<c>> \o s
<1>1. /\ t \in Seq(Client) /\ Len(t) = Len(s) + 1 /\ t[1] = c
      /\ \A i \in 1 .. Len(s) : t[i + 1] = s[i]
  BY ConsFacts
<1>2. DOMAIN t = 1 .. Len(s) + 1 /\ DOMAIN s = 1 .. Len(s) /\ Len(s) \in Nat
  BY <1>1
<1>3. \A i \in DOMAIN t : i # 1 => i - 1 \in DOMAIN s /\ t[i] = s[i - 1]
  BY <1>1, <1>2
<1>4. \A i \in DOMAIN t : i # 1 => t[i] # c
  BY <1>3 DEF Elements
<1> HIDE DEF t
<1>5. ASSUME NEW m \in DOMAIN t, NEW n \in DOMAIN t, t[m] = t[n] PROVE m = n
  <2>1. CASE m = 1 \/ n = 1
    BY <1>1, <1>4, <1>5, <2>1
  <2>2. CASE m # 1 /\ n # 1
    <3>1. m - 1 = n - 1
      BY <1>3, <1>5, <2>2 DEF Injective
    <3> QED
      BY <1>2, <3>1
  <2> QED
    BY <2>1, <2>2
<1> QED
  BY <1>5 DEF Injective, t

LEMMA InjectiveStep ==
  ASSUME TypeOK, \A o \in Op : Injective(queue[o]), [Next]_vars
  PROVE  \A o \in Op : Injective(queue'[o])
<1> USE OpFacts DEF TypeOK, QueueTypeOK
<1>1. Injective(<<>>)
  BY EmptyFacts DEF Injective
<1>2. ASSUME NEW c \in Client, NEW o \in Op, c \notin Elements(queue[o]),
             queue' = [queue EXCEPT ![o] = <<c>> \o @]
      PROVE  \A k \in Op : Injective(queue'[k])
  BY <1>2, ConsInjective
<1>3. ASSUME NEW o \in Op, queue' = [queue EXCEPT ![o] = <<>>]
      PROVE  \A k \in Op : Injective(queue'[k])
  BY <1>1, <1>3
<1>4. ASSUME NEW c \in Client, clientInstallWriteHandler(c) \/ postponeClientRead(c)
      PROVE  \A o \in Op : Injective(queue'[o])
  BY <1>2, <1>4, Zenon DEF clientInstallWriteHandler, postponeClientRead
<1>5. ASSUME NEW c \in Client, unlinkClient(c) PROVE \A o \in Op : Injective(queue'[o])
  BY <1>5, WithoutFacts DEF unlinkClient
<1>6. CASE handleClientsWithPendingWritesUsingThreads \/ stopThreadedIO
  <2>1. queue' = queue \/ queue' = [queue EXCEPT !["write"] = <<>>]
    BY <1>6 DEF handleClientsWithPendingWritesUsingThreads, stopThreadedIO
  <2> QED
    BY <1>3, <2>1
<1>7. CASE Collect
  <2>1. CASE it < Len(queue[batch])
    <3>1. queue[batch] \in Seq(Client) /\ it \in Nat
      BY DEF MainTypeOK
    <3>2. queue[batch][it + 1] \in Client
      BY <2>1, <3>1
    <3>3. \/ queue' = queue
          \/ /\ queue[batch][it + 1] \notin Elements(queue["write"])
             /\ queue' = [queue EXCEPT !["write"] = <<queue[batch][it + 1]>> \o @]
      BY <1>7, <2>1 DEF Collect
    <3> QED
      BY <1>2, <3>2, <3>3, Zenon
  <2>2. CASE ~(it < Len(queue[batch]))
    BY <1>3, <1>7, <2>2, Zenon DEF Collect
  <2> QED
    BY ONLY <2>1, <2>2
<1>8. CASE \/ handleClientsWithPendingReadsUsingThreads \/ startThreadedIO
           \/ Distribute \/ Publish \/ Wait \/ UNCHANGED vars
           \/ \E j \in Spawned : IOThreadMain(j)
  <2>1. queue' = queue
    BY <1>8 DEF handleClientsWithPendingReadsUsingThreads, startThreadedIO, Distribute,
       Publish, Wait, vars, mainVars, IOThreadMain, Spin, Check, Lock, Unlock, Work, Drop
  <2> QED
    BY <2>1
<1> QED
  BY <1>4, <1>5, <1>6, <1>7, <1>8 DEF Next, EventLoop, MainBusy

LEMMA HandOutStep ==
  ASSUME TypeOK, ListsInv, ClientHasOneThread, \A o \in Op : Injective(queue[o]), HandedOut,
         Distribute
  PROVE  ClientHasOneThread' /\ HandedOut'
<1> USE DEF TypeOK, MainTypeOK, QueueTypeOK, SharedTypeOK
<1>1. CASE ~(it < Len(queue[batch]))
  <2>1. pc' = "publish" /\ io_threads_list' = io_threads_list
    BY <1>1 DEF Distribute
  <2>2. HandedOut'
    BY ONLY <2>1 DEF HandedOut
  <2>3. ClientHasOneThread'
    BY ONLY <2>1, ClientHasOneThread DEF ClientHasOneThread
  <2> QED
    BY <2>2, <2>3
<1>2. CASE it < Len(queue[batch])
  <2> DEFINE k == it % io_threads_num
             c == queue[batch][it + 1]
             l == io_threads_list[k]
  <2>1. /\ queue[batch] \in Seq(Client) /\ it \in Nat /\ k \in Thread
        /\ it + 1 \in DOMAIN queue[batch] /\ c \in Client /\ l \in Seq(Client)
    <3>1. queue[batch] \in Seq(Client) /\ it \in Nat
      OBVIOUS
    <3>2. k \in Thread /\ l \in Seq(Client)
      BY <3>1, ModIsThread, Zenon
    <3>3. it + 1 \in DOMAIN queue[batch] /\ c \in Client
      BY <1>2, <3>1
    <3> QED
      BY <3>1, <3>2, <3>3
  <2>2. /\ io_threads_list' = [io_threads_list EXCEPT ![k] = Append(l, c)]
        /\ pc = "distribute" /\ pc' = pc /\ it' = it + 1 /\ queue' = queue /\ batch' = batch
    BY <1>2 DEF Distribute
  <2>3. /\ io_threads_list'[k] = Append(l, c)
        /\ \A j \in Thread : j # k => io_threads_list'[j] = io_threads_list[j]
    BY <2>1, <2>2
  <2>4. /\ DOMAIN Append(l, c) = 1 .. Len(l) + 1 /\ DOMAIN l = 1 .. Len(l) /\ Len(l) \in Nat
        /\ Append(l, c)[Len(l) + 1] = c
        /\ \A m \in DOMAIN l : Append(l, c)[m] = l[m]
    BY <2>1, AppendFacts
  <2>5. \A j \in Thread : \A m \in DOMAIN io_threads_list[j] : io_threads_list[j][m] # c
    <3> SUFFICES ASSUME NEW j \in Thread, NEW m \in DOMAIN io_threads_list[j]
                 PROVE  io_threads_list[j][m] # c
      OBVIOUS
    <3>1. PICK n \in DOMAIN queue[batch] : n <= it /\ queue[batch][n] = io_threads_list[j][m]
      BY <2>2 DEF HandedOut
    <3>2. n # it + 1
      BY <2>1, <3>1
    <3>3. Injective(queue[batch])
      OBVIOUS
    <3> QED
      BY <2>1, <3>1, <3>2, <3>3 DEF Injective
  <2> HIDE DEF k, c, l
  <2> DEFINE New(x, y) == x = k /\ y = Len(l) + 1
  <2>6. ASSUME NEW x \in Thread, NEW y \in DOMAIN io_threads_list'[x]
        PROVE  /\ New(x, y) => io_threads_list'[x][y] = c
               /\ ~New(x, y) => /\ y \in DOMAIN io_threads_list[x]
                                /\ io_threads_list'[x][y] = io_threads_list[x][y]
    <3>1. CASE x # k
      BY <2>3, <3>1
    <3>2. CASE x = k
      <4>1. io_threads_list[x] = l /\ io_threads_list'[x] = Append(l, c)
        BY <2>3, <3>2 DEF l
      <4>2. y \in 1 .. Len(l) + 1
        BY <2>4, <4>1
      <4>3. y # Len(l) + 1 => y \in DOMAIN l
        BY <2>4, <4>2
      <4> QED
        BY <2>4, <3>2, <4>1, <4>3
    <3> QED
      BY <3>1, <3>2
  <2>7. HandedOut'
    <3>1. ASSUME NEW j \in Thread, NEW m \in DOMAIN io_threads_list'[j]
          PROVE  \E n \in DOMAIN queue[batch] :
                   n <= it + 1 /\ queue[batch][n] = io_threads_list'[j][m]
      <4>1. CASE New(j, m)
        <5>1. queue[batch][it + 1] = io_threads_list'[j][m]
          BY <2>6, <4>1 DEF c
        <5>2. it + 1 \in DOMAIN queue[batch] /\ it + 1 <= it + 1
          BY <2>1
        <5> QED
          BY ONLY <5>1, <5>2
      <4>2. CASE ~New(j, m)
        <5>1. m \in DOMAIN io_threads_list[j] /\ io_threads_list'[j][m] = io_threads_list[j][m]
          BY <2>6, <4>2
        <5>2. PICK n \in DOMAIN queue[batch] :
                n <= it /\ queue[batch][n] = io_threads_list[j][m]
          BY <2>2, <5>1 DEF HandedOut
        <5>3. n <= it + 1
          BY <2>1, <5>2
        <5> QED
          BY <5>1, <5>2, <5>3
      <4> QED
        BY <4>1, <4>2
    <3>2. queue'[batch'] = queue[batch] /\ it' = it + 1
      BY <2>2
    <3> QED
      BY ONLY <3>1, <3>2 DEF HandedOut
  <2>8. ClientHasOneThread'
    <3> SUFFICES ASSUME NEW i \in Thread, NEW j \in Thread,
                        NEW m \in DOMAIN io_threads_list'[i], NEW n \in DOMAIN io_threads_list'[j],
                        io_threads_list'[i][m] = io_threads_list'[j][n]
                 PROVE  i = j /\ m = n
      BY DEF ClientHasOneThread
    <3>1. CASE New(i, m) /\ New(j, n)
      BY <3>1
    <3>2. CASE New(i, m) /\ ~New(j, n)
      BY <2>5, <2>6, <3>2
    <3>3. CASE ~New(i, m) /\ New(j, n)
      BY <2>5, <2>6, <3>3
    <3>4. CASE ~New(i, m) /\ ~New(j, n)
      <4>1. /\ m \in DOMAIN io_threads_list[i] /\ n \in DOMAIN io_threads_list[j]
            /\ io_threads_list[i][m] = io_threads_list[j][n]
        BY <2>6, <3>4
      <4> QED
        BY <4>1 DEF ClientHasOneThread
    <3> QED
      BY <3>1, <3>2, <3>3, <3>4
  <2> QED
    BY <2>7, <2>8
<1> QED
  BY ONLY <1>1, <1>2

LEMMA OwnersStep ==
  ASSUME TypeOK, ListsInv, ClientHasOneThread, \A o \in Op : Injective(queue[o]), HandedOut,
         ModeInv, CountersInv, [Next]_vars
  PROVE  ClientHasOneThread' /\ HandedOut'
<1>1. CASE Distribute
  BY <1>1, HandOutStep
<1>2. ASSUME NEW j \in Spawned, Work(j) PROVE ClientHasOneThread' /\ HandedOut'
  <2>1. pc # "distribute" /\ pc' = pc
    BY <1>2, ThreadFacts DEF CountersInv, Working, Work, mainVars
  <2>2. \A k \in Thread : io_threads_list'[k] = io_threads_list[k] \/ io_threads_list'[k] = <<>>
    BY <1>2, ThreadFacts DEF Work, TypeOK, SharedTypeOK
  <2> QED
    BY <2>1, <2>2, EmptyFacts DEF ClientHasOneThread, HandedOut
<1>3. CASE \/ \E c \in Client : clientInstallWriteHandler(c) \/ postponeClientRead(c)
                                \/ unlinkClient(c)
           \/ handleClientsWithPendingReadsUsingThreads
           \/ handleClientsWithPendingWritesUsingThreads
           \/ startThreadedIO \/ stopThreadedIO \/ Publish \/ Wait \/ Collect
  <2>1. io_threads_list' = io_threads_list /\ pc \in {"loop", "unlock", "lock", "publish", "wait", "collect"}
    BY <1>3, Zenon DEF clientInstallWriteHandler, postponeClientRead, unlinkClient,
       handleClientsWithPendingReadsUsingThreads, handleClientsWithPendingWritesUsingThreads,
       startThreadedIO, stopThreadedIO, Publish, Wait, Collect, sharedVars
  <2>2. pc' = "distribute" => pc \in {"loop", "unlock"}
    BY <1>3, Zenon DEF clientInstallWriteHandler, postponeClientRead, unlinkClient,
       handleClientsWithPendingReadsUsingThreads, handleClientsWithPendingWritesUsingThreads,
       startThreadedIO, stopThreadedIO, Publish, Wait, Collect, TypeOK, MainTypeOK
  <2>3. HandedOut'
    <3> SUFFICES ASSUME pc' = "distribute", NEW j \in Thread PROVE DOMAIN io_threads_list'[j] = {}
      BY DEF HandedOut
    <3> QED
      BY <2>1, <2>2, EmptyFacts DEF ListsInv
  <2> QED
    BY <2>1, <2>3 DEF ClientHasOneThread
<1>4. ASSUME NEW j \in Spawned, Spin(j) \/ Check(j) \/ Lock(j) \/ Unlock(j) \/ Drop(j)
      PROVE  ClientHasOneThread' /\ HandedOut'
  <2>1. UNCHANGED <<io_threads_list, pc, it, queue, batch>>
    BY <1>4 DEF Spin, Check, Lock, Unlock, Drop, mainVars, sharedVars
  <2> QED
    BY ONLY <2>1, ClientHasOneThread, HandedOut DEF ClientHasOneThread, HandedOut
<1>5. CASE UNCHANGED vars
  <2>1. UNCHANGED <<io_threads_list, pc, it, queue, batch>>
    BY ONLY <1>5 DEF vars, mainVars, sharedVars
  <2> QED
    BY ONLY <2>1, ClientHasOneThread, HandedOut DEF ClientHasOneThread, HandedOut
<1> QED
  BY <1>1, <1>2, <1>3, <1>4, <1>5 DEF Next, EventLoop, MainBusy, IOThreadMain

----------------------------------------------------------------------------
(* The handshake implements the batches of IOBatch.                        *)

LEMMA BatchStep ==
  ASSUME TypeOK, BatchInv, [Next]_vars
  PROVE  BatchInv'
<1> USE OpFacts DEF BatchInv, Serving, TypeOK, MainTypeOK, QueueTypeOK
<1>1. ASSUME NEW c \in Client,
             clientInstallWriteHandler(c) \/ postponeClientRead(c) \/ unlinkClient(c)
      PROVE  BatchInv'
  BY <1>1 DEF clientInstallWriteHandler, postponeClientRead, unlinkClient
<1>2. CASE handleClientsWithPendingReadsUsingThreads
  BY <1>2 DEF handleClientsWithPendingReadsUsingThreads, ReadsToServe
<1>3. CASE handleClientsWithPendingWritesUsingThreads
  BY <1>3 DEF handleClientsWithPendingWritesUsingThreads, ReadsToServe
<1>4. CASE startThreadedIO \/ stopThreadedIO
  BY <1>4 DEF startThreadedIO, stopThreadedIO
<1>5. CASE Distribute \/ Publish \/ Wait
  BY <1>5 DEF Distribute, Publish, Wait
<1>6. CASE Collect
  BY <1>6 DEF Collect
<1>7. ASSUME NEW j \in Spawned, IOThreadMain(j) PROVE BatchInv'
  BY <1>7 DEF IOThreadMain, Spin, Check, Lock, Unlock, Work, Drop, mainVars
<1>8. CASE UNCHANGED vars
  BY <1>8 DEF vars, mainVars
<1> HIDE OpFacts DEF BatchInv, Serving, TypeOK, MainTypeOK, QueueTypeOK
<1> QED
  BY <1>1, <1>2, <1>3, <1>4, <1>5, <1>6, <1>7, <1>8 DEF Next, EventLoop, MainBusy

\* A step that leaves the lists and the visits alone, outside of the batches or
\* within one.
LEMMA VisitsKept ==
  ASSUME VisitsInv, UNCHANGED <<io_threads_list, visits, tnext>>,
         \A j \in Thread : tpc[j] = "work" => tpc'[j] = "work",
         \/ \A j \in Thread : DOMAIN io_threads_list[j] = {}
         \/ UNCHANGED <<queue, batch>>,
         pc' \in {"publish", "wait", "collect"} => pc \in {"publish", "wait", "collect"},
         pc' \notin {"publish", "wait", "collect"} => \A c \in Client : visits[c] = 0,
         pc' = "distribute" => (it' = 0 \/ UNCHANGED <<pc, it, queue, batch>>),
         Serving' => Serving /\ UNCHANGED <<queue, batch>>,
         \A n \in DOMAIN queue'[batch'] : n \in Nat /\ n # 0
  PROVE  VisitsInv'
<1>1. (\A j \in Thread : tnext[j] # 1 => tpc[j] = "work")'
  BY DEF VisitsInv
<1>2. (\A j \in Thread : \A m \in DOMAIN io_threads_list[j] :
         /\ visits[io_threads_list[j][m]] = IF m < tnext[j] THEN 1 ELSE 0
         /\ io_threads_list[j][m] \in Elements(queue[batch]))'
  BY DEF VisitsInv
<1>3. (pc = "distribute" =>
         \A n \in DOMAIN queue[batch] : n <= it => InAList(queue[batch][n]))'
  <2>1. CASE it' = 0
    <3>1. \A n \in DOMAIN queue'[batch'] : ~(n <= 0)
      OBVIOUS
    <3> QED
      BY <2>1, <3>1
  <2>2. CASE UNCHANGED <<pc, it, queue, batch>>
    BY <2>2 DEF VisitsInv, InAList
  <2>3. CASE pc' # "distribute"
    BY <2>3
  <2> QED
    BY <2>1, <2>2, <2>3
<1>4. (Serving => \A c \in Elements(queue[batch]) : visits[c] # 0 \/ InAList(c))'
  <2> SUFFICES ASSUME Serving'
               PROVE  (\A c \in Elements(queue[batch]) : visits[c] # 0 \/ InAList(c))'
    OBVIOUS
  <2>1. Serving /\ UNCHANGED <<queue, batch, io_threads_list, visits>>
    OBVIOUS
  <2>2. \A c \in Elements(queue[batch]) : visits[c] # 0 \/ InAList(c)
    BY ONLY <2>1, VisitsInv DEF VisitsInv
  <2> QED
    BY ONLY <2>1, <2>2 DEF InAList, Elements
<1>5. (pc \notin {"publish", "wait", "collect"} => \A c \in Client : visits[c] = 0)'
  OBVIOUS
<1> QED
  BY <1>1, <1>2, <1>3, <1>4, <1>5 DEF VisitsInv

LEMMA QueueDomain ==
  ASSUME TypeOK PROVE \A n \in DOMAIN queue[batch] : n \in Nat /\ n # 0
BY DEF TypeOK, QueueTypeOK

\* One list gets one more client.
LEMMA ListGrows ==
  ASSUME TypeOK, NEW k \in Thread, NEW c \in Client,
         io_threads_list' = [io_threads_list EXCEPT ![k] = Append(@, c)]
  PROVE  /\ InAList(c)'
         /\ \A d : InAList(d) => InAList(d)'
         /\ \A j \in Thread : \A m \in DOMAIN io_threads_list'[j] :
              /\ m \in Nat \ {0}
              /\ \/ io_threads_list'[j][m] = c
                 \/ m \in DOMAIN io_threads_list[j] /\ io_threads_list'[j][m] = io_threads_list[j][m]
<1>1. PICK l \in Seq(Client) : l = io_threads_list[k]
  BY DEF TypeOK, SharedTypeOK
<1>2. /\ io_threads_list'[k] = Append(l, c)
      /\ \A j \in Thread : j # k => io_threads_list'[j] = io_threads_list[j]
  BY <1>1 DEF TypeOK, SharedTypeOK
<1>3. /\ DOMAIN Append(l, c) = 1 .. Len(l) + 1 /\ DOMAIN l = 1 .. Len(l) /\ Len(l) \in Nat
      /\ Append(l, c)[Len(l) + 1] = c
      /\ \A m \in DOMAIN l : Append(l, c)[m] = l[m]
  BY <1>1, AppendFacts
<1>4. InAList(c)'
  <2>1. Len(l) + 1 \in DOMAIN io_threads_list'[k] /\ io_threads_list'[k][Len(l) + 1] = c
    BY <1>2, <1>3
  <2> QED
    BY <2>1 DEF InAList
<1>5. ASSUME NEW d, InAList(d) PROVE InAList(d)'
  <2>1. PICK j \in Thread : \E m \in DOMAIN io_threads_list[j] : io_threads_list[j][m] = d
    BY <1>5 DEF InAList
  <2>2. PICK m \in DOMAIN io_threads_list[j] : io_threads_list[j][m] = d
    BY <2>1
  <2>3. m \in DOMAIN io_threads_list'[j] /\ io_threads_list'[j][m] = d
    BY <1>1, <1>2, <1>3, <2>2
  <2> QED
    BY <2>3 DEF InAList
<1>6. ASSUME NEW j \in Thread, NEW m \in DOMAIN io_threads_list'[j]
      PROVE  /\ m \in Nat \ {0}
             /\ \/ io_threads_list'[j][m] = c
                \/ m \in DOMAIN io_threads_list[j] /\ io_threads_list'[j][m] = io_threads_list[j][m]
  <2>1. CASE j # k
    <3>1. io_threads_list[j] \in Seq(Client)
      BY DEF TypeOK, SharedTypeOK
    <3> QED
      BY <1>2, <2>1, <3>1
  <2>2. CASE j = k
    <3>1. m \in 1 .. Len(l) + 1
      BY <1>2, <1>3, <2>2
    <3>2. m = Len(l) + 1 \/ m \in DOMAIN l
      BY <1>3, <3>1
    <3> QED
      BY <1>1, <1>2, <1>3, <2>2, <3>1, <3>2
  <2> QED
    BY <2>1, <2>2
<1> QED
  BY <1>4, <1>5, <1>6

\* A client is handed to a thread whose iterator is at the start of its list.
LEMMA DistributeVisits ==
  ASSUME TypeOK, CountersInv, VisitsInv, Distribute
  PROVE  VisitsInv'
<1> USE DEF TypeOK, MainTypeOK, QueueTypeOK, SharedTypeOK, ThreadTypeOK
<1>1. /\ pc = "distribute" /\ UNCHANGED <<queue, batch, visits, tnext, tpc>>
      /\ \A c \in Client : visits[c] = 0
      /\ \A j \in Thread : tnext[j] = 1
  BY DEF Distribute, VisitsInv, CountersInv, Working, threadVars
<1>2. queue[batch] \in Seq(Client) /\ it \in Nat /\ DOMAIN queue[batch] = 1 .. Len(queue[batch])
      /\ Len(queue[batch]) \in Nat
  OBVIOUS
<1>3. CASE ~(it < Len(queue[batch]))
  <2>1. pc' = "publish" /\ io_threads_list' = io_threads_list
    BY <1>3 DEF Distribute
  <2>2. \A n \in DOMAIN queue[batch] : n <= it
    BY <1>2, <1>3
  <2>3. \A c \in Elements(queue[batch]) : InAList(c)
    <3>1. \A n \in DOMAIN queue[batch] : n <= it => InAList(queue[batch][n])
      BY ONLY <1>1, VisitsInv DEF VisitsInv
    <3> QED
      BY ONLY <2>2, <3>1 DEF Elements
  <2>4. (\A c \in Elements(queue[batch]) : InAList(c))'
    <3>1. UNCHANGED <<io_threads_list, queue, batch>>
      BY <1>1, <2>1
    <3> QED
      BY ONLY <2>3, <3>1 DEF InAList, Elements
  <2> QED
    BY <1>1, <2>1, <2>4, Zenon DEF VisitsInv
<1>4. CASE it < Len(queue[batch])
  <2>1. it + 1 \in DOMAIN queue[batch] /\ queue[batch][it + 1] \in Client
    BY <1>2, <1>4
  <2>2. PICK k \in Thread, c \in Client : k = it % io_threads_num /\ c = queue[batch][it + 1]
    BY <1>2, <2>1, ModIsThread
  <2>3. /\ io_threads_list' = [io_threads_list EXCEPT ![k] = Append(@, c)]
        /\ pc' = "distribute" /\ it' = it + 1
    BY <1>1, <1>4, <2>2 DEF Distribute
  <2> HIDE DEF TypeOK, MainTypeOK, QueueTypeOK, SharedTypeOK, ThreadTypeOK
  <2>4. /\ InAList(c)'
        /\ \A d : InAList(d) => InAList(d)'
        /\ \A j \in Thread : \A m \in DOMAIN io_threads_list'[j] :
             /\ m \in Nat \ {0}
             /\ \/ io_threads_list'[j][m] = c
                \/ m \in DOMAIN io_threads_list[j] /\ io_threads_list'[j][m] = io_threads_list[j][m]
    BY <2>3, ListGrows, Zenon
  <2>5. Elements(queue[batch]) \subseteq Client /\ c \in Elements(queue[batch])
    BY <1>2, <2>1, <2>2 DEF Elements
  <2>6. ASSUME NEW j \in Thread, NEW m \in DOMAIN io_threads_list'[j]
        PROVE  /\ visits[io_threads_list'[j][m]] = IF m < tnext[j] THEN 1 ELSE 0
               /\ io_threads_list'[j][m] \in Elements(queue[batch])
    <3>1. io_threads_list'[j][m] \in Elements(queue[batch])
      <4>1. \A n \in DOMAIN io_threads_list[j] : io_threads_list[j][n] \in Elements(queue[batch])
        BY ONLY VisitsInv, j \in Thread DEF VisitsInv
      <4> QED
        BY ONLY <2>4, <2>5, <2>6, <4>1
    <3>2. tnext[j] = 1 /\ m \in Nat \ {0}
      BY <1>1, <2>4
    <3>3. ~(m < tnext[j])
      BY <3>2
    <3> QED
      BY <1>1, <2>5, <3>1, <3>3
  <2>7. (\A n \in DOMAIN queue[batch] : n <= it => InAList(queue[batch][n]))'
    <3>1. ASSUME NEW n \in DOMAIN queue[batch], n <= it + 1
          PROVE  InAList(queue[batch][n]) \/ queue[batch][n] = c
      <4>1. n <= it \/ n = it + 1
        BY <1>2, <3>1
      <4>2. \A o \in DOMAIN queue[batch] : o <= it => InAList(queue[batch][o])
        BY ONLY <1>1, VisitsInv DEF VisitsInv
      <4> QED
        BY ONLY <2>2, <3>1, <4>1, <4>2
    <3>2. ASSUME NEW n \in DOMAIN queue[batch], n <= it + 1, NEW d, d = queue[batch][n]
          PROVE  InAList(d)'
      BY <2>4, <3>1, <3>2
    <3> QED
      BY <1>1, <2>3, <3>2 DEF InAList
  <2>8. UNCHANGED <<queue, batch, visits, tnext, tpc>>
    BY ONLY <1>1
  <2>9. (\A j \in Thread : \A m \in DOMAIN io_threads_list[j] :
           /\ visits[io_threads_list[j][m]] = IF m < tnext[j] THEN 1 ELSE 0
           /\ io_threads_list[j][m] \in Elements(queue[batch]))'
    BY ONLY <2>6, <2>8 DEF Elements
  <2>10. (\A c1 \in Client : visits[c1] = 0)' /\ (\A j \in Thread : tnext[j] = 1)'
    BY ONLY <1>1
  <2> QED
    BY ONLY <2>3, <2>7, <2>9, <2>10 DEF VisitsInv, Serving
<1> QED
  BY ONLY <1>3, <1>4

\* A visited client counts as visited in its own list only; a list is emptied
\* after all its clients have been visited.
LEMMA WorkVisits ==
  ASSUME TypeOK, VisitsInv, ClientHasOneThread, CountersInv, NEW j \in Thread, Work(j)
  PROVE  VisitsInv'
<1> USE DEF TypeOK, SharedTypeOK, ThreadTypeOK
<1>1. Serving /\ UNCHANGED <<pc, it, queue, batch>> /\ tpc[j] = "work"
  BY DEF Work, CountersInv, Working, Serving, mainVars
<1>2. CASE tnext[j] <= Len(io_threads_list[j])
  <2>1. PICK m \in Nat \ {0}, c \in Client :
          /\ m = tnext[j] /\ m \in DOMAIN io_threads_list[j] /\ c = io_threads_list[j][m]
    <3>1. io_threads_list[j] \in Seq(Client) /\ tnext[j] \in Nat \ {0}
      OBVIOUS
    <3>2. tnext[j] \in DOMAIN io_threads_list[j]
      BY <1>2, <3>1
    <3>3. io_threads_list[j][tnext[j]] \in Client
      BY <3>1, <3>2
    <3> QED
      BY <3>1, <3>2, <3>3, Zenon
  <2>2. /\ visits' = [visits EXCEPT ![c] = @ + 1] /\ tnext' = [tnext EXCEPT ![j] = @ + 1]
        /\ UNCHANGED <<tpc, io_threads_list>>
    BY <1>2, <2>1 DEF Work
  <2>3. visits[c] = 0
    <3>1. visits[io_threads_list[j][m]] = IF m < tnext[j] THEN 1 ELSE 0
      BY ONLY <2>1, VisitsInv, j \in Thread DEF VisitsInv
    <3>2. ~(m < tnext[j])
      <4>1. m \in Nat /\ m = tnext[j]
        BY ONLY <2>1, m \in Nat
      <4> QED
        BY ONLY <4>1
    <3> QED
      BY ONLY <2>1, <3>1, <3>2
  <2>4. /\ visits'[c] = 1 /\ tnext'[j] = m + 1
        /\ \A d \in Client \ {c} : visits'[d] = visits[d]
        /\ \A k \in Thread : k # j => tnext'[k] = tnext[k]
    BY <2>1, <2>2, <2>3
  <2>5. ASSUME NEW k \in Thread, NEW n \in DOMAIN io_threads_list[k]
        PROVE  /\ io_threads_list[k][n] \in Client /\ n \in Nat
               /\ io_threads_list[k][n] = c => k = j /\ n = m
    <3>1. io_threads_list[k] \in Seq(Client)
      OBVIOUS
    <3>2. io_threads_list[k][n] \in Client /\ n \in Nat
      BY <3>1
    <3> QED
      BY <2>1, <3>2 DEF ClientHasOneThread
  <2> HIDE DEF TypeOK, SharedTypeOK, ThreadTypeOK
  <2>6. ASSUME NEW k \in Thread, NEW n \in DOMAIN io_threads_list[k]
        PROVE  visits'[io_threads_list[k][n]] = IF n < tnext'[k] THEN 1 ELSE 0
    <3>1. CASE k = j /\ n = m
      BY <2>1, <2>4, <3>1
    <3>2. CASE ~(k = j /\ n = m)
      <4>1. visits'[io_threads_list[k][n]] = visits[io_threads_list[k][n]]
        BY <2>4, <2>5, <3>2
      <4>2. visits[io_threads_list[k][n]] = IF n < tnext[k] THEN 1 ELSE 0
        BY DEF VisitsInv
      <4>3. CASE k # j
        BY <2>4, <4>1, <4>2, <4>3
      <4>4. CASE k = j
        <5>1. n \in Nat /\ n # m
          BY <2>5, <3>2, <4>4
        <5>2. n < m <=> n < m + 1
          BY <2>1, <5>1
        <5> QED
          BY <2>1, <2>4, <4>1, <4>2, <4>4, <5>2
      <4> QED
        BY <4>3, <4>4
    <3> QED
      BY <3>1, <3>2
  <2>7. (\A k \in Thread : tnext[k] # 1 => tpc[k] = "work")'
    BY <1>1, <2>2, <2>4 DEF VisitsInv
  <2>8. (Serving => \A d \in Elements(queue[batch]) : visits[d] # 0 \/ InAList(d))'
    <3>1. Elements(queue[batch]) \subseteq Client
      BY DEF TypeOK, QueueTypeOK, Elements
    <3>2. ASSUME NEW d \in Elements(queue[batch]) PROVE visits'[d] # 0 \/ InAList(d)
      <4>1. visits[d] # 0 \/ InAList(d)
        BY ONLY <1>1, <3>2, VisitsInv DEF VisitsInv
      <4>2. d \in Client
        BY ONLY <3>1, <3>2
      <4>3. visits'[d] = 1 \/ visits'[d] = visits[d]
        BY ONLY <2>4, <4>2
      <4> QED
        BY ONLY <4>1, <4>3
    <3>3. UNCHANGED <<queue, batch, io_threads_list>>
      BY <1>1, <2>2
    <3> QED
      BY ONLY <3>2, <3>3 DEF InAList, Elements
  <2>9. pc' \in {"publish", "wait"}
    BY ONLY <1>1 DEF Serving
  <2>10. ASSUME NEW k \in Thread, NEW n \in DOMAIN io_threads_list'[k]
         PROVE  /\ visits'[io_threads_list'[k][n]] = IF n < tnext'[k] THEN 1 ELSE 0
                /\ io_threads_list'[k][n] \in Elements(queue[batch])'
    <3>1. UNCHANGED <<queue, batch, io_threads_list>> /\ n \in DOMAIN io_threads_list[k]
      BY <1>1, <2>2
    <3>2. io_threads_list[k][n] \in Elements(queue[batch])
      BY ONLY <3>1, VisitsInv DEF VisitsInv
    <3> QED
      BY ONLY <2>6, <3>1, <3>2 DEF Elements
  <2> QED
    BY ONLY <2>7, <2>8, <2>9, <2>10 DEF VisitsInv
<1>3. CASE ~(tnext[j] <= Len(io_threads_list[j]))
  <2>1. /\ io_threads_list' = [io_threads_list EXCEPT ![j] = <<>>]
        /\ tpc' = [tpc EXCEPT ![j] = "drop"] /\ tnext' = [tnext EXCEPT ![j] = 1]
        /\ visits' = visits
    BY <1>3 DEF Work
  <2>2. /\ io_threads_list'[j] = <<>> /\ tnext'[j] = 1
        /\ \A k \in Thread : k # j => /\ io_threads_list'[k] = io_threads_list[k]
                                      /\ tnext'[k] = tnext[k] /\ tpc'[k] = tpc[k]
    BY <2>1
  <2>3. \A n \in DOMAIN io_threads_list[j] : visits[io_threads_list[j][n]] = 1
    <3>1. io_threads_list[j] \in Seq(Client) /\ tnext[j] \in Nat
      OBVIOUS
    <3>2. \A n \in DOMAIN io_threads_list[j] : n < tnext[j]
      BY <1>3, <3>1
    <3> QED
      BY <3>2, Zenon DEF VisitsInv
  <2> HIDE DEF TypeOK, SharedTypeOK, ThreadTypeOK
  <2>4. ASSUME NEW k \in Thread, NEW n \in DOMAIN io_threads_list'[k]
        PROVE  /\ k # j /\ n \in DOMAIN io_threads_list[k]
               /\ io_threads_list'[k][n] = io_threads_list[k][n]
    BY <2>2, EmptyFacts
  <2>5. ASSUME NEW d \in Elements(queue[batch]) PROVE visits[d] # 0 \/ InAList(d)'
    <3>1. CASE visits[d] # 0
      BY <3>1
    <3>2. CASE visits[d] = 0
      <4>1. PICK k \in Thread : \E n \in DOMAIN io_threads_list[k] : io_threads_list[k][n] = d
        BY <1>1, <3>2 DEF VisitsInv, InAList
      <4>2. k # j
        BY <2>3, <3>2, <4>1
      <4> QED
        BY <2>2, <4>1, <4>2 DEF InAList
    <3> QED
      BY <3>1, <3>2
  <2>6. (Serving => \A d \in Elements(queue[batch]) : visits[d] # 0 \/ InAList(d))'
    BY <1>1, <2>1, <2>5 DEF Elements
  <2>7. (\A k \in Thread : tnext[k] # 1 => tpc[k] = "work")'
    BY <2>2, Zenon DEF VisitsInv
  <2>8. (\A k \in Thread : \A n \in DOMAIN io_threads_list[k] :
           /\ visits[io_threads_list[k][n]] = IF n < tnext[k] THEN 1 ELSE 0
           /\ io_threads_list[k][n] \in Elements(queue[batch]))'
    <3>1. ASSUME NEW k \in Thread, NEW n \in DOMAIN io_threads_list'[k]
          PROVE  /\ visits'[io_threads_list'[k][n]] = IF n < tnext'[k] THEN 1 ELSE 0
                 /\ io_threads_list'[k][n] \in Elements(queue[batch])
      <4>1. /\ n \in DOMAIN io_threads_list[k] /\ io_threads_list'[k][n] = io_threads_list[k][n]
            /\ tnext'[k] = tnext[k] /\ visits' = visits
        BY ONLY <2>1, <2>2, <2>4, <3>1
      <4>2. /\ visits[io_threads_list[k][n]] = IF n < tnext[k] THEN 1 ELSE 0
            /\ io_threads_list[k][n] \in Elements(queue[batch])
        BY ONLY <3>1, <4>1, VisitsInv DEF VisitsInv
      <4> QED
        BY ONLY <4>1, <4>2
    <3>2. UNCHANGED <<queue, batch>>
      BY ONLY <1>1
    <3> QED
      BY ONLY <3>1, <3>2 DEF Elements
  <2> QED
    BY <1>1, <2>6, <2>7, <2>8, Zenon DEF VisitsInv, Serving
<1> QED
  BY ONLY <1>2, <1>3

LEMMA VisitsStep ==
  ASSUME TypeOK, TypeOK', CountersInv, ListsInv, ClientHasOneThread, VisitsInv, [Next]_vars
  PROVE  VisitsInv'
<1>1. \A n \in DOMAIN queue'[batch'] : n \in Nat /\ n # 0
  BY DEF TypeOK, QueueTypeOK
<1>2. CASE EventLoop
  <2>1. /\ pc = "loop" /\ UNCHANGED <<threadVars, sharedVars>>
        /\ pc' \in {"loop", "distribute", "lock", "unlock"}
        /\ pc' = "distribute" => it' = 0
    BY <1>2, Zenon DEF EventLoop, clientInstallWriteHandler, postponeClientRead, unlinkClient,
       handleClientsWithPendingReadsUsingThreads, handleClientsWithPendingWritesUsingThreads
  <2>2. \A j \in Thread : DOMAIN io_threads_list[j] = {}
    BY <2>1, EmptyFacts DEF ListsInv
  <2>3. \A c \in Client : visits[c] = 0
    BY <2>1 DEF VisitsInv
  <2> QED
    BY <1>1, <2>1, <2>2, <2>3, VisitsKept DEF threadVars, sharedVars, Serving
<1>3. CASE startThreadedIO \/ stopThreadedIO
  <2>1. /\ pc \in {"unlock", "lock"} /\ UNCHANGED <<threadVars, io_threads_list>>
        /\ pc' \in {"loop", "distribute", "lock", "unlock"}
        /\ pc' = "distribute" => it' = 0
    BY <1>3 DEF startThreadedIO, stopThreadedIO
  <2>2. \A j \in Thread : DOMAIN io_threads_list[j] = {}
    BY <2>1, EmptyFacts DEF ListsInv
  <2>3. \A c \in Client : visits[c] = 0
    BY <2>1 DEF VisitsInv
  <2> QED
    BY <1>1, <2>1, <2>2, <2>3, VisitsKept DEF threadVars, Serving
<1>4. CASE Distribute
  BY <1>4, DistributeVisits
<1>5. CASE Publish \/ Wait
  <2>1. /\ Serving /\ pc' \in {"publish", "wait", "collect"}
        /\ UNCHANGED <<queue, batch, threadVars, io_threads_list>>
    BY <1>5 DEF Publish, Wait, Serving, sharedVars
  <2> QED
    BY <1>1, <2>1, VisitsKept DEF threadVars, Serving
<1>6. CASE Collect
  <2>1. pc = "collect" /\ UNCHANGED <<tpc, tnext, io_threads_list>>
    BY <1>6 DEF Collect, sharedVars
  <2>2. \A j \in Thread : DOMAIN io_threads_list[j] = {}
    BY <2>1, EmptyFacts DEF ListsInv
  <2>3. CASE it < Len(queue[batch])
    <3>1. pc' = "collect" /\ visits' = visits
      BY <1>6, <2>3 DEF Collect
    <3> QED
      BY <2>1, <2>2, <3>1 DEF VisitsInv, Serving
  <2>4. CASE ~(it < Len(queue[batch]))
    <3>1. pc' \in {"loop", "lock"} /\ \A c \in Client : visits'[c] = 0
      BY <1>6, <2>4 DEF Collect, TypeOK, MainTypeOK
    <3> QED
      BY <2>1, <2>2, <3>1 DEF VisitsInv, Serving
  <2> QED
    BY <2>3, <2>4
<1>7. ASSUME NEW j \in Spawned, Spin(j) \/ Check(j) \/ Lock(j) \/ Unlock(j) \/ Drop(j)
      PROVE  VisitsInv'
  <2>1. UNCHANGED <<pc, it, queue, batch, io_threads_list, tnext, visits>>
    BY <1>7 DEF Spin, Check, Lock, Unlock, Drop, mainVars, sharedVars
  <2>2. tpc[j] # "work" /\ \A k \in Thread : k # j => tpc'[k] = tpc[k]
    BY <1>7 DEF Spin, Check, Lock, Unlock, Drop, TypeOK, ThreadTypeOK
  <2>3. \A k \in Thread : tpc[k] = "work" => tpc'[k] = "work"
    BY <2>2
  <2>4. Serving' <=> Serving
    BY <2>1 DEF Serving
  <2> QED
    BY <1>1, <2>1, <2>3, <2>4, VisitsKept, Zenon DEF VisitsInv
<1>8. ASSUME NEW j \in Spawned, Work(j) PROVE VisitsInv'
  BY <1>8, WorkVisits, ThreadFacts
<1>9. CASE UNCHANGED vars
  <2>1. UNCHANGED <<pc, it, queue, batch, io_threads_list, tnext, tpc, visits>>
    BY ONLY <1>9 DEF vars, mainVars, threadVars, sharedVars
  <2> QED
    BY <1>1, <2>1, VisitsKept, Zenon DEF VisitsInv, Serving
<1> QED
  BY <1>2, <1>3, <1>4, <1>5, <1>6, <1>7, <1>8, <1>9 DEF Next, MainBusy, IOThreadMain

IInv == /\ TypeOK /\ CountersInv /\ ListsInv /\ ModeInv /\ ClientHasOneThread /\ HandedOut
        /\ (\A o \in Op : Injective(queue[o])) /\ BatchInv /\ VisitsInv

LEMMA InitInv == Init => IInv
<1> SUFFICES ASSUME Init PROVE IInv
  OBVIOUS
<1>1. TypeOK /\ CountersInv /\ ListsInv /\ ModeInv
  BY InitType, ThreadFacts, OpFacts DEF Init, CountersInv, Working, ListsInv, ModeInv
<1>2. ClientHasOneThread /\ HandedOut /\ BatchInv /\ VisitsInv
  BY EmptyFacts DEF Init, ClientHasOneThread, HandedOut, BatchInv, VisitsInv, Serving
<1>3. \A o \in Op : Injective(queue[o])
  BY EmptyFacts DEF Init, Injective
<1> QED
  BY <1>1, <1>2, <1>3 DEF IInv

LEMMA InvStep == IInv /\ [Next]_vars => IInv'
<1> SUFFICES ASSUME IInv, [Next]_vars PROVE IInv'
  OBVIOUS
<1> USE DEF IInv
<1>1. TypeOK' /\ CountersInv' /\ ListsInv' /\ ModeInv'
  BY TypeStep, CountersStep, ListsStep, ModeStep
<1>2. ClientHasOneThread' /\ HandedOut' /\ \A o \in Op : Injective(queue'[o])
  BY OwnersStep, InjectiveStep
<1>3. BatchInv' /\ VisitsInv'
  BY <1>1, BatchStep, VisitsStep
<1> QED
  BY <1>1, <1>2, <1>3

\* No client is in the hands of two threads, nor twice in those of one.
THEOREM OneThreadPerClient == Spec => []ClientHasOneThread
<1>1. IInv => ClientHasOneThread
  BY DEF IInv
<1> QED
  BY <1>1, InitInv, InvStep, PTL DEF Spec

\* io_threads_op, which every thread reads without a lock, is set while no thread
\* works or has been told to.
THEOREM OpFrozen == Spec => OpFrozenDuringBatch
<1> DEFINE Frozen == io_threads_op' # io_threads_op =>
                       \A j \in Thread : ~Working(j) /\ io_threads_pending[j] = 0
<1>1. IInv /\ [Next]_vars => [Frozen]_vars
  <2> SUFFICES ASSUME IInv, [Next]_vars, io_threads_op' # io_threads_op
               PROVE  \A j \in Thread : ~Working(j) /\ io_threads_pending[j] = 0
    OBVIOUS
  <2>1. pc = "distribute"
    BY Zenon DEF Next, EventLoop, MainBusy, IOThreadMain, clientInstallWriteHandler,
       postponeClientRead, unlinkClient, handleClientsWithPendingReadsUsingThreads,
       handleClientsWithPendingWritesUsingThreads, startThreadedIO, stopThreadedIO,
       Distribute, Publish, Wait, Collect, Spin, Check, Lock, Unlock, Work, Drop,
       mainVars, vars
  <2> QED
    BY <2>1 DEF IInv, CountersInv
<1> QED
  BY <1>1, InitInv, InvStep, PTL DEF Spec, OpFrozenDuringBatch

\* The state of IOBatch the refinement mapping gives.
AbstractOp == IF Serving THEN io_threads_op ELSE "none"
AbstractTodo == IF Serving THEN {c \in Elements(queue[batch]) : visits[c] = 0} ELSE {}

LEMMA Simulation ==
  ASSUME IInv, [Next]_vars
  PROVE  \/ UNCHANGED <<AbstractOp, AbstractTodo>>
         \/ \E o \in {"read", "write"}, S \in SUBSET Client :
              /\ AbstractOp = "none" /\ S # {}
              /\ AbstractOp' = o /\ AbstractTodo' = S
         \/ \E c \in Client :
              /\ c \in AbstractTodo
              /\ AbstractTodo' = AbstractTodo \ {c}
              /\ UNCHANGED AbstractOp
         \/ /\ AbstractOp # "none" /\ AbstractTodo = {}
            /\ AbstractOp' = "none" /\ UNCHANGED AbstractTodo
<1> DEFINE Goal == \/ UNCHANGED <<AbstractOp, AbstractTodo>>
                   \/ \E o \in {"read", "write"}, S \in SUBSET Client :
                        /\ AbstractOp = "none" /\ S # {}
                        /\ AbstractOp' = o /\ AbstractTodo' = S
                   \/ \E c \in Client :
                        /\ c \in AbstractTodo
                        /\ AbstractTodo' = AbstractTodo \ {c}
                        /\ UNCHANGED AbstractOp
                   \/ /\ AbstractOp # "none" /\ AbstractTodo = {}
                      /\ AbstractOp' = "none" /\ UNCHANGED AbstractTodo
<1>1. ASSUME ~Serving, ~Serving' PROVE Goal
  BY <1>1, Zenon DEF AbstractOp, AbstractTodo
<1>2. ASSUME Serving, UNCHANGED <<queue, batch, visits, io_threads_op>>, Serving' PROVE Goal
  BY <1>2 DEF AbstractOp, AbstractTodo
<1>3. Elements(queue[batch]) \subseteq Client /\ io_threads_op \in Op /\ batch \in Op
  <2>1. batch \in Op /\ io_threads_op \in Op /\ queue \in [Op -> Seq(Client)]
    BY Zenon DEF IInv, TypeOK, QueueTypeOK
  <2>2. queue[batch] \in Seq(Client)
    BY <2>1, Zenon
  <2>3. \A i \in DOMAIN queue[batch] : queue[batch][i] \in Client
    BY ONLY <2>2
  <2> QED
    BY <2>1, <2>3, Zenon DEF Elements
<1>4. CASE EventLoop \/ startThreadedIO \/ stopThreadedIO \/ Collect
  <2>1. ~Serving /\ ~Serving'
    BY <1>4, Zenon DEF IInv, TypeOK, MainTypeOK, Serving, EventLoop, clientInstallWriteHandler,
       postponeClientRead, unlinkClient, handleClientsWithPendingReadsUsingThreads,
       handleClientsWithPendingWritesUsingThreads, startThreadedIO, stopThreadedIO, Collect
  <2> QED
    BY <1>1, <2>1
<1>5. CASE Distribute
  <2>1. ~Serving /\ pc = "distribute" /\ UNCHANGED <<queue, batch, visits>>
    BY <1>5 DEF Distribute, Serving, threadVars
  <2>2. CASE Serving'
    <3>1. io_threads_op' = batch
      BY <1>5, <2>1, <2>2 DEF Distribute, Serving
    <3>2. Elements(queue[batch]) # {}
      <4>1. queue[batch] \in Seq(Client) /\ queue[batch] # <<>>
        BY <2>1 DEF IInv, TypeOK, QueueTypeOK, BatchInv
      <4>2. 1 \in DOMAIN queue[batch]
        BY <4>1
      <4> QED
        BY <4>2, Zenon DEF Elements
    <3>3. AbstractOp = "none" /\ AbstractOp' = batch
      BY <2>1, <2>2, <3>1 DEF AbstractOp
    <3>4. \A c \in Client : visits[c] = 0
      BY <2>1 DEF IInv, VisitsInv
    <3>5. AbstractTodo' = Elements(queue[batch])
      BY <1>3, <2>1, <2>2, <3>4 DEF AbstractTodo, Elements
    <3> QED
      BY <1>3, <3>2, <3>3, <3>5 DEF Op
  <2>3. CASE ~Serving'
    BY <1>1, <2>1, <2>3
  <2> QED
    BY <2>2, <2>3
<1>6. CASE Publish
  BY <1>2, <1>6 DEF Publish, Serving, threadVars
<1>7. CASE Wait
  <2>1. pc = "wait" /\ Serving /\ UNCHANGED <<queue, batch, visits, io_threads_op>>
    BY <1>7 DEF Wait, Serving, threadVars
  <2>2. CASE Serving'
    BY <1>2, <2>1, <2>2
  <2>3. CASE ~Serving'
    <3>1. ~(it < io_threads_num) /\ acc = 0 /\ it \in Nat
      BY <1>7, <2>3 DEF Wait, Serving, IInv, TypeOK, MainTypeOK
    <3>2. \A j \in Thread : io_threads_list[j] = <<>>
      <4>1. \A j \in Thread : j < it
        BY <3>1, ThreadFacts
      <4> QED
        BY <2>1, <3>1, <4>1 DEF IInv, CountersInv, ListsInv
    <3>3. \A c \in Elements(queue[batch]) : visits[c] # 0
      BY <2>1, <3>2, EmptyFacts, Zenon DEF IInv, VisitsInv, InAList
    <3>4. AbstractTodo = {} /\ AbstractTodo' = {} /\ AbstractOp' = "none"
      BY <2>3, <3>3, Zenon DEF AbstractTodo, AbstractOp
    <3>5. AbstractOp # "none"
      BY <1>3, <2>1 DEF AbstractOp, Op
    <3> QED
      BY <3>4, <3>5
  <2> QED
    BY <2>2, <2>3
<1>8. ASSUME NEW j \in Spawned, Spin(j) \/ Check(j) \/ Lock(j) \/ Unlock(j) \/ Drop(j) PROVE Goal
  BY <1>1, <1>2, <1>8 DEF Spin, Check, Lock, Unlock, Drop, Serving, mainVars
<1>9. ASSUME NEW j \in Spawned, Work(j) PROVE Goal
  <2>1. j \in Thread /\ Serving /\ Serving' /\ UNCHANGED <<queue, batch, io_threads_op>>
    BY <1>9, ThreadFacts DEF IInv, Work, CountersInv, Working, Serving, mainVars
  <2>2. CASE tnext[j] <= Len(io_threads_list[j])
    <3>1. PICK m \in DOMAIN io_threads_list[j], c \in Client :
            m = tnext[j] /\ c = io_threads_list[j][m]
      <4>1. io_threads_list[j] \in Seq(Client) /\ tnext[j] \in Nat \ {0}
        BY <2>1 DEF IInv, TypeOK, SharedTypeOK, ThreadTypeOK
      <4>2. tnext[j] \in DOMAIN io_threads_list[j]
        BY ONLY <2>2, <4>1
      <4>3. io_threads_list[j][tnext[j]] \in Client
        BY <4>1, <4>2
      <4> QED
        BY <4>2, <4>3
    <3>2. visits' = [visits EXCEPT ![c] = @ + 1]
      BY <1>9, <2>2, <3>1 DEF Work
    <3>3. visits[c] = 0 /\ c \in Elements(queue[batch])
      <4>1. m \in Nat
        BY <2>1, <3>1 DEF IInv, TypeOK, ThreadTypeOK
      <4>2. ~(m < tnext[j])
        BY <3>1, <4>1
      <4> QED
        BY <2>1, <3>1, <4>2 DEF IInv, VisitsInv
    <3>4. visits'[c] = 1 /\ \A d \in Client \ {c} : visits'[d] = visits[d]
      BY <3>2, <3>3 DEF IInv, TypeOK, ThreadTypeOK
    <3>5. c \in AbstractTodo /\ AbstractTodo' = AbstractTodo \ {c} /\ AbstractOp' = AbstractOp
      <4>1. AbstractTodo = {d \in Elements(queue[batch]) : visits[d] = 0}
        BY <2>1 DEF AbstractTodo
      <4>2. AbstractTodo' = {d \in Elements(queue[batch]) : visits'[d] = 0}
        BY <2>1 DEF AbstractTodo, Elements
      <4>3. AbstractOp' = AbstractOp
        BY <2>1 DEF AbstractOp
      <4>4. c \in AbstractTodo
        BY ONLY <3>3, <4>1
      <4>5. ASSUME NEW d \in Elements(queue[batch])
            PROVE  visits'[d] = 0 <=> visits[d] = 0 /\ d # c
        <5>1. d \in Client
          BY <1>3, <4>5
        <5> QED
          BY ONLY <3>4, <5>1
      <4>6. AbstractTodo' = AbstractTodo \ {c}
        BY ONLY <4>1, <4>2, <4>5
      <4> QED
        BY ONLY <4>3, <4>4, <4>6
    <3> QED
      BY <3>5
  <2>3. CASE ~(tnext[j] <= Len(io_threads_list[j]))
    BY <1>2, <1>9, <2>1, <2>3 DEF Work
  <2> QED
    BY <2>2, <2>3
<1>10. CASE UNCHANGED vars
  BY <1>1, <1>2, <1>10 DEF vars, mainVars, threadVars, Serving
<1> QED
  BY <1>4, <1>5, <1>6, <1>7, <1>8, <1>9, <1>10 DEF Next, MainBusy, IOThreadMain

\* The handshake of the threads implements the batches of IOBatch, but for their
\* end: every client of a batch is served exactly once before the batch ends.
THEOREM ImplementsBatches == Spec => Abstract!Init /\ [][Abstract!Next]_(Abstract!vars)
<1>1. Init => Abstract!Init
  BY DEF Init, Abstract!Init, Serving
<1>2. IInv /\ [Next]_vars => [Abstract!Next]_(Abstract!vars)
  BY Simulation, Zenon DEF AbstractOp, AbstractTodo, Abstract!Next, Abstract!vars, Abstract!Start,
     Abstract!Serve, Abstract!Finish
<1> QED
  BY <1>1, <1>2, InitInv, InvStep, PTL DEF Spec

=============================================================================
