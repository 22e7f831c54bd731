--------------------------- MODULE ClientsInvariant ---------------------------
(***************************************************************************)
(* The inductive invariant of Clients, for any number of clients, commands  *)
(* and batches, what the functions on one client and on a queue make of it,  *)
(* and the steps that handle events.                                       *)
(*                                                                         *)
(* Two things the model shows to go wrong limit what is true: two threads    *)
(* that link an error reply at the same time (excluded by Sequential), and a *)
(* command that handles events while the queue of reads is walked over       *)
(* (excluded by NoBusy).                                                   *)
(***************************************************************************)
EXTENDS Clients, FiniteSetTheorems, TLAPS

\* At most one client gets an error reply from a thread.
Sequential == \A c, d \in Malformed : c = d

\* No command that runs for long comes out of a batch of reads.
NoBusy == "busy" \notin BatchCommands

-----------------------------------------------------------------------------
(* The inductive invariant, by parts.                                      *)

Rec == [flags : SUBSET Flag, inb : Int, out : {0, 1}, ev : SUBSET {R, W},
        pw : Int, close : {0, 1}, unb : {0, 1}]

\* The queue of unblocked clients and that of clients to close hold a client
\* once if it has the flag; who is to be closed after its reply has one.
FlagInv(r) ==
    /\ r.unb = IF UNBLOCKED \in r.flags THEN 1 ELSE 0
    /\ r.close = IF CLOSE_ASAP \in r.flags THEN 1 ELSE 0
    /\ CLOSE_AFTER_REPLY \in r.flags /\ REPLY_OFF \notin r.flags =>
          r.out = 1 \/ CLOSE_ASAP \in r.flags

\* So does the queue of writes, unless a thread is linking the client, and
\* output has someone to write it.
PwInv(r, linking) ==
    /\ r.pw = IF PENDING_WRITE \in r.flags /\ ~linking THEN 1 ELSE 0
    /\ linking => PENDING_WRITE \in r.flags

OutInv(r) ==
    r.out = 1 => \/ PENDING_WRITE \in r.flags \/ W \in r.ev
                 \/ CLOSE_ASAP \in r.flags \/ PROTECTED \in r.flags

WriteInv(r, linking) == PwInv(r, linking) /\ OutInv(r)

CountInv(r, linking) == r \in Rec /\ FlagInv(r) /\ (Sequential => PwInv(r, linking))

RecInv(r, linking) == r \in Rec /\ FlagInv(r) /\ (Sequential => WriteInv(r, linking))

\* s is what a function makes of r: the flag of the queue of reads is as it was.
Makes(r, s, linking) ==
    RecInv(s, linking) /\ (PENDING_READ \in s.flags <=> PENDING_READ \in r.flags)

-----------------------------------------------------------------------------
(* The functions that change one client.                                   *)

LEMMA FreeIsRec == RecInv(Free, FALSE) /\ Free.flags = {} /\ Free \in Rec
BY DEF RecInv, Rec, FlagInv, WriteInv, PwInv, OutInv, Free, Flag

LEMMA InstallMakes ==
    ASSUME NEW linking \in BOOLEAN, NEW r, RecInv(r, linking)
    PROVE  /\ Makes(r, clientInstallWriteHandler(r), linking)
           /\ clientInstallWriteHandler(r).flags = r.flags \union {PENDING_WRITE}
           /\ clientInstallWriteHandler(r).out = r.out
           /\ clientInstallWriteHandler(r).ev = r.ev
<1>1. CASE PENDING_WRITE \in r.flags
  BY <1>1 DEF clientInstallWriteHandler, Has, Makes, RecInv, Rec
<1>2. CASE PENDING_WRITE \notin r.flags
  <2>1. PICK s : s = clientInstallWriteHandler(r)
    OBVIOUS
  <2>2. s = [r EXCEPT !.flags = @ \union {PENDING_WRITE}, !.pw = @ + 1]
    BY <1>2, <2>1 DEF clientInstallWriteHandler, Has, Set, RecInv, Rec
  <2>3. /\ s \in Rec /\ s.flags = r.flags \union {PENDING_WRITE} /\ s.pw = r.pw + 1
        /\ s.out = r.out /\ s.ev = r.ev /\ s.close = r.close /\ s.unb = r.unb
    <3>1. r \in Rec /\ r.flags \union {PENDING_WRITE} \in SUBSET Flag /\ r.pw + 1 \in Int
      BY DEF RecInv, Rec, Flag
    <3> QED
      BY <2>2, <3>1, Zenon DEF Rec
  <2>4. FlagInv(s)
    BY <2>3 DEF RecInv, FlagInv, PENDING_WRITE, CLOSE_ASAP, CLOSE_AFTER_REPLY, UNBLOCKED, REPLY_OFF
  <2>5. Sequential => WriteInv(s, linking)
    BY <1>2, <2>3 DEF RecInv, WriteInv, PwInv, OutInv
  <2> QED
    BY <2>1, <2>3, <2>4, <2>5 DEF Makes, RecInv, PENDING_WRITE, PENDING_READ
<1> QED
  BY <1>1, <1>2

LEMMA AddReplyMakes ==
    ASSUME NEW linking \in BOOLEAN, NEW r, RecInv(r, linking)
    PROVE  /\ Makes(r, addReply(r), linking)
           /\ addReply(r).flags \in {r.flags, r.flags \union {PENDING_WRITE}}
           /\ REPLY_OFF \notin r.flags /\ CLOSE_AFTER_REPLY \notin r.flags => addReply(r).out = 1
<1>1. CASE REPLY_OFF \in r.flags
  BY <1>1 DEF addReply, Has, Makes
<1>2. CASE REPLY_OFF \notin r.flags
  <2>1. PICK p : p = prepareClientToWrite(r)
    OBVIOUS
  <2>2. /\ RecInv(p, linking) /\ p.out = r.out /\ (PENDING_READ \in p.flags <=> PENDING_READ \in r.flags)
        /\ p.flags \in {r.flags, r.flags \union {PENDING_WRITE}}
        /\ p.out = 1 \/ PENDING_WRITE \in p.flags
    <3>1. r.out \in {0, 1}
      BY DEF RecInv, Rec
    <3> QED
      BY <2>1, <3>1, InstallMakes DEF prepareClientToWrite, Makes
  <2>3. PICK o : o = IF Has(r, CLOSE_AFTER_REPLY) THEN p.out ELSE 1
    OBVIOUS
  <2>4. addReply(r) = [p EXCEPT !.out = o]
    BY <1>2, <2>1, <2>2, <2>3 DEF addReply, Has
  <2>5. PICK s : s = [p EXCEPT !.out = o]
    BY Zenon
  <2>6. o \in {0, 1} /\ (o = 0 => p.out = 0) /\ (CLOSE_AFTER_REPLY \notin r.flags => o = 1)
        /\ (o = 0 \/ o = p.out \/ CLOSE_AFTER_REPLY \notin r.flags)
    BY <2>2, <2>3 DEF Has, RecInv, Rec
  <2>7. /\ s \in Rec /\ s.flags = p.flags /\ s.pw = p.pw /\ s.out = o
        /\ s.ev = p.ev /\ s.close = p.close /\ s.unb = p.unb
    BY <2>2, <2>5, <2>6 DEF RecInv, Rec
  <2>8. FlagInv(s)
    BY <2>2, <2>6, <2>7 DEF RecInv, FlagInv
  <2>9. Sequential => WriteInv(s, linking)
    BY <2>2, <2>6, <2>7 DEF RecInv, WriteInv, PwInv, OutInv
  <2> QED
    BY <2>2, <2>4, <2>5, <2>6, <2>7, <2>8, <2>9 DEF Makes, RecInv
<1> QED
  BY <1>1, <1>2

\* Flags no queue goes by, and the query buffer.
LEMMA NeutralMakes ==
    ASSUME NEW linking \in BOOLEAN, NEW r, RecInv(r, linking), NEW s \in Rec,
           s.out = r.out, s.ev = r.ev, s.pw = r.pw, s.close = r.close, s.unb = r.unb,
           \A f \in Flag \ {BLOCKED, PENDING_COMMAND, PENDING_READ} : f \in s.flags <=> f \in r.flags
    PROVE  RecInv(s, linking)
<1>1. \A f \in {PENDING_WRITE, CLOSE_ASAP, CLOSE_AFTER_REPLY, UNBLOCKED, PROTECTED, REPLY_OFF} :
        f \in s.flags <=> f \in r.flags
  BY DEF Flag, PENDING_WRITE, CLOSE_ASAP, CLOSE_AFTER_REPLY, UNBLOCKED, PROTECTED, REPLY_OFF,
         BLOCKED, PENDING_COMMAND, PENDING_READ
<1>2. FlagInv(s)
  BY <1>1 DEF RecInv, FlagInv
<1>3. Sequential => WriteInv(s, linking)
  BY <1>1 DEF RecInv, WriteInv, PwInv, OutInv
<1> QED
  BY <1>2, <1>3 DEF RecInv

LEMMA SetNeutralMakes ==
    ASSUME NEW linking \in BOOLEAN, NEW r, RecInv(r, linking), NEW f \in {BLOCKED, PENDING_COMMAND}
    PROVE  Makes(r, Set(r, f), linking) /\ Makes(r, Clear(r, f), linking)
<1>1. r \in Rec /\ f \in Flag
  BY DEF RecInv, Flag
<1>2. /\ Set(r, f) \in Rec /\ Set(r, f).flags = r.flags \union {f}
      /\ Set(r, f).out = r.out /\ Set(r, f).ev = r.ev /\ Set(r, f).pw = r.pw
      /\ Set(r, f).close = r.close /\ Set(r, f).unb = r.unb
  BY <1>1 DEF Set, Rec
<1>3. /\ Clear(r, f) \in Rec /\ Clear(r, f).flags = r.flags \ {f}
      /\ Clear(r, f).out = r.out /\ Clear(r, f).ev = r.ev /\ Clear(r, f).pw = r.pw
      /\ Clear(r, f).close = r.close /\ Clear(r, f).unb = r.unb
  BY <1>1 DEF Clear, Rec
<1>4. RecInv(Set(r, f), linking)
  BY <1>2, NeutralMakes
<1>5. RecInv(Clear(r, f), linking)
  BY <1>3, NeutralMakes
<1> QED
  BY <1>2, <1>3, <1>4, <1>5 DEF Makes, PENDING_READ, BLOCKED, PENDING_COMMAND

LEMMA SetReadMakes ==
    ASSUME NEW linking \in BOOLEAN, NEW r, RecInv(r, linking)
    PROVE  /\ RecInv(Set(r, PENDING_READ), linking) /\ PENDING_READ \in Set(r, PENDING_READ).flags
           /\ RecInv(Clear(r, PENDING_READ), linking) /\ PENDING_READ \notin Clear(r, PENDING_READ).flags
<1> DEFINE f == PENDING_READ
<1>1. r \in Rec /\ f \in Flag
  BY DEF RecInv, Flag
<1>2. /\ Set(r, f) \in Rec /\ Set(r, f).flags = r.flags \union {f}
      /\ Set(r, f).out = r.out /\ Set(r, f).ev = r.ev /\ Set(r, f).pw = r.pw
      /\ Set(r, f).close = r.close /\ Set(r, f).unb = r.unb
  BY <1>1 DEF Set, Rec
<1>3. /\ Clear(r, f) \in Rec /\ Clear(r, f).flags = r.flags \ {f}
      /\ Clear(r, f).out = r.out /\ Clear(r, f).ev = r.ev /\ Clear(r, f).pw = r.pw
      /\ Clear(r, f).close = r.close /\ Clear(r, f).unb = r.unb
  BY <1>1 DEF Clear, Rec
<1>4. RecInv(Set(r, f), linking)
  BY <1>2, NeutralMakes
<1>5. RecInv(Clear(r, f), linking)
  BY <1>3, NeutralMakes
<1> QED
  BY <1>2, <1>3, <1>4, <1>5

LEMMA InbMakes ==
    ASSUME NEW linking \in BOOLEAN, NEW r, RecInv(r, linking), NEW n \in Int
    PROVE  /\ Makes(r, [r EXCEPT !.inb = n], linking)
           /\ [r EXCEPT !.inb = n].flags = r.flags /\ [r EXCEPT !.inb = n].pw = r.pw
           /\ [r EXCEPT !.inb = n].out = r.out
<1>1. r \in Rec
  BY DEF RecInv
<1>2. PICK s : s = [r EXCEPT !.inb = n]
  BY Zenon
<1>3. /\ s \in Rec /\ s.flags = r.flags /\ s.out = r.out /\ s.ev = r.ev /\ s.pw = r.pw
      /\ s.close = r.close /\ s.unb = r.unb
  BY <1>1, <1>2 DEF Rec
<1>4. RecInv(s, linking)
  BY <1>3, NeutralMakes
<1> QED
  BY <1>2, <1>3, <1>4 DEF Makes

LEMMA QueueMakes ==
    ASSUME NEW linking \in BOOLEAN, NEW r, RecInv(r, linking)
    PROVE  Makes(r, queueClientForReprocessing(r), linking)
<1>1. CASE UNBLOCKED \in r.flags
  BY <1>1 DEF queueClientForReprocessing, Has, Makes
<1>2. CASE UNBLOCKED \notin r.flags
  <2>1. PICK s : s = queueClientForReprocessing(r)
    OBVIOUS
  <2>2. r \in Rec /\ r.unb + 1 = 1 /\ r.flags \union {UNBLOCKED} \in SUBSET Flag
    BY <1>2 DEF RecInv, Rec, Flag, FlagInv
  <2>3. s = [r EXCEPT !.flags = @ \union {UNBLOCKED}, !.unb = @ + 1]
    BY <1>2, <2>1, <2>2 DEF queueClientForReprocessing, Has, Set, Rec
  <2>4. /\ s \in Rec /\ s.flags = r.flags \union {UNBLOCKED} /\ s.pw = r.pw
        /\ s.out = r.out /\ s.ev = r.ev /\ s.close = r.close /\ s.unb = 1
    BY <2>2, <2>3, Zenon DEF Rec
  <2>5. FlagInv(s)
    BY <2>4 DEF RecInv, FlagInv, CLOSE_ASAP, UNBLOCKED, CLOSE_AFTER_REPLY, REPLY_OFF
  <2>6. Sequential => WriteInv(s, linking)
    BY <2>4 DEF RecInv, WriteInv, PwInv, OutInv, UNBLOCKED, PENDING_WRITE
  <2> QED
    BY <2>1, <2>4, <2>5, <2>6 DEF Makes, RecInv, UNBLOCKED, PENDING_READ
<1> QED
  BY <1>1, <1>2

LEMMA UnblockMakes ==
    ASSUME NEW linking \in BOOLEAN, NEW r, RecInv(r, linking)
    PROVE  Makes(r, unblockClient(r), linking)
<1>1. Makes(r, Clear(r, BLOCKED), linking)
  BY SetNeutralMakes
<1>2. Makes(Clear(r, BLOCKED), unblockClient(r), linking)
  BY <1>1, QueueMakes DEF Makes, unblockClient
<1> QED
  BY <1>1, <1>2 DEF Makes

\* processUnblockedClients takes a client off its queue.
LEMMA DequeueMakes ==
    ASSUME NEW linking \in BOOLEAN, NEW r, RecInv(r, linking), r.unb > 0
    PROVE  Makes(r, [Clear(r, UNBLOCKED) EXCEPT !.unb = @ - 1], linking)
<1>1. PICK s : s = [Clear(r, UNBLOCKED) EXCEPT !.unb = @ - 1]
  BY Zenon
<1>2. r \in Rec /\ r.unb - 1 = 0
  BY DEF RecInv, Rec
<1>3. s = [r EXCEPT !.flags = @ \ {UNBLOCKED}, !.unb = @ - 1]
  BY <1>1, <1>2 DEF Clear, Rec
<1>4. /\ s \in Rec /\ s.flags = r.flags \ {UNBLOCKED} /\ s.pw = r.pw
      /\ s.out = r.out /\ s.ev = r.ev /\ s.close = r.close /\ s.unb = 0
  BY <1>2, <1>3, Zenon DEF Rec
<1>5. FlagInv(s)
  BY <1>4 DEF RecInv, FlagInv, CLOSE_ASAP, UNBLOCKED, CLOSE_AFTER_REPLY, REPLY_OFF
<1>6. Sequential => WriteInv(s, linking)
  BY <1>4 DEF RecInv, WriteInv, PwInv, OutInv, UNBLOCKED, PENDING_WRITE, CLOSE_ASAP, PROTECTED
<1> QED
  BY <1>1, <1>4, <1>5, <1>6 DEF Makes, RecInv, UNBLOCKED, PENDING_READ

\* freeClient leaves no trace of a client in the queues that were searched.
LEMMA UnlinkMakes ==
    ASSUME NEW r, RecInv(r, FALSE)
    PROVE  /\ RecInv(Unlinked(r), FALSE) /\ Unlinked(r).flags = {}
           /\ Sequential => Unlinked(r) = Free
<1>1. PICK u : u = IF Has(r, BLOCKED) THEN unblockClient(r) ELSE r
  OBVIOUS
<1>2. RecInv(u, FALSE)
  BY <1>1, UnblockMakes, Zenon DEF Makes
<1>3. PICK n : n = IF Has(u, PENDING_WRITE) THEN u.pw - 1 ELSE u.pw
  OBVIOUS
<1>4. n \in Int /\ (Sequential => n = 0)
  BY <1>2, <1>3 DEF RecInv, Rec, WriteInv, PwInv, OutInv, Has
<1>5. Unlinked(r) = [Free EXCEPT !.pw = n, !.unb = 0, !.close = 0]
  <2>1. /\ (IF Has(u, UNBLOCKED) THEN u.unb - 1 ELSE u.unb) = 0
        /\ (IF Has(u, CLOSE_ASAP) THEN u.close - 1 ELSE u.close) = 0
    BY <1>2 DEF RecInv, FlagInv, Has
  <2> QED
    BY <1>1, <1>3, <2>1, Zenon DEF Unlinked, unlinkClient
<1>6. Unlinked(r) = [flags |-> {}, inb |-> 0, out |-> 0, ev |-> {}, pw |-> n, close |-> 0, unb |-> 0]
  BY <1>5, Zenon DEF Free
<1> QED
  BY <1>4, <1>6 DEF RecInv, Rec, FlagInv, WriteInv, PwInv, OutInv, Free

LEMMA CloseAfterMakes ==
    ASSUME NEW linking \in BOOLEAN, NEW r, RecInv(r, linking)
    PROVE  /\ Makes(r, Set(addReply(r), CLOSE_AFTER_REPLY), linking)
           /\ Set(addReply(r), CLOSE_AFTER_REPLY).pw = addReply(r).pw
<1>1. PICK a : a = addReply(r)
  OBVIOUS
<1>2. /\ RecInv(a, linking) /\ (PENDING_READ \in a.flags <=> PENDING_READ \in r.flags)
      /\ a.flags \in {r.flags, r.flags \union {PENDING_WRITE}}
      /\ REPLY_OFF \notin r.flags /\ CLOSE_AFTER_REPLY \notin r.flags => a.out = 1
  BY <1>1, AddReplyMakes DEF Makes
<1>3. PICK s : s = Set(a, CLOSE_AFTER_REPLY)
  OBVIOUS
<1>4. a \in Rec /\ a.flags \union {CLOSE_AFTER_REPLY} \in SUBSET Flag
  BY <1>2 DEF RecInv, Rec, Flag
<1>5. /\ s \in Rec /\ s.flags = a.flags \union {CLOSE_AFTER_REPLY} /\ s.pw = a.pw
      /\ s.out = a.out /\ s.ev = a.ev /\ s.close = a.close /\ s.unb = a.unb
  BY <1>3, <1>4 DEF Set, Rec
<1>6. FlagInv(s)
  BY <1>2, <1>5 DEF RecInv, FlagInv, CLOSE_ASAP, UNBLOCKED, CLOSE_AFTER_REPLY, REPLY_OFF, PENDING_WRITE
<1>7. Sequential => WriteInv(s, linking)
  BY <1>2, <1>5 DEF RecInv, WriteInv, PwInv, OutInv, CLOSE_AFTER_REPLY, PENDING_WRITE
<1> QED
  BY <1>1, <1>2, <1>3, <1>5, <1>6, <1>7 DEF Makes, RecInv, CLOSE_AFTER_REPLY, PENDING_READ

LEMMA ReplyOffMakes ==
    ASSUME NEW linking \in BOOLEAN, NEW r, RecInv(r, linking)
    PROVE  Makes(r, Set(r, REPLY_OFF), linking)
<1>1. PICK s : s = Set(r, REPLY_OFF)
  OBVIOUS
<1>2. r \in Rec /\ r.flags \union {REPLY_OFF} \in SUBSET Flag
  BY DEF RecInv, Rec, Flag
<1>3. /\ s \in Rec /\ s.flags = r.flags \union {REPLY_OFF} /\ s.pw = r.pw
      /\ s.out = r.out /\ s.ev = r.ev /\ s.close = r.close /\ s.unb = r.unb
  BY <1>1, <1>2 DEF Set, Rec
<1>4. FlagInv(s)
  BY <1>3 DEF RecInv, FlagInv, CLOSE_ASAP, UNBLOCKED, CLOSE_AFTER_REPLY, REPLY_OFF
<1>5. Sequential => WriteInv(s, linking)
  BY <1>3 DEF RecInv, WriteInv, PwInv, OutInv, REPLY_OFF, PENDING_WRITE
<1> QED
  BY <1>1, <1>3, <1>4, <1>5 DEF Makes, RecInv, REPLY_OFF, PENDING_READ

LEMMA ProtectMakes ==
    ASSUME NEW linking \in BOOLEAN, NEW r, RecInv(r, linking)
    PROVE  Makes(r, protectClient(r), linking)
<1>1. PICK s : s = protectClient(r)
  OBVIOUS
<1>2. r \in Rec /\ r.flags \union {PROTECTED} \in SUBSET Flag
  BY DEF RecInv, Rec, Flag
<1>3. /\ s \in Rec /\ s.flags = r.flags \union {PROTECTED} /\ s.pw = r.pw
      /\ s.out = r.out /\ s.close = r.close /\ s.unb = r.unb
  BY <1>1, <1>2, Zenon DEF protectClient, Set, Rec
<1>4. FlagInv(s)
  BY <1>3 DEF RecInv, FlagInv, CLOSE_ASAP, UNBLOCKED, CLOSE_AFTER_REPLY, REPLY_OFF, PROTECTED
<1>5. Sequential => WriteInv(s, linking)
  BY <1>3 DEF RecInv, WriteInv, PwInv, OutInv, PROTECTED, PENDING_WRITE
<1> QED
  BY <1>1, <1>3, <1>4, <1>5 DEF Makes, RecInv, PROTECTED, PENDING_READ

\* The output of a protected client is queued again when the protection ends.
\* Before the client is queued its output may have nobody to write it.
LEMMA UnprotectMakes ==
    ASSUME NEW r, RecInv(r, FALSE)
    PROVE  Makes(r, unprotectClient(r), FALSE)
<1>1. PICK u : u = [Clear(r, PROTECTED) EXCEPT !.ev = @ \union {R}]
  BY Zenon
<1>2. r \in Rec /\ r.flags \ {PROTECTED} \in SUBSET Flag
  BY DEF RecInv, Rec
<1>3. /\ u \in Rec /\ u.flags = r.flags \ {PROTECTED} /\ u.pw = r.pw /\ u.ev = r.ev \union {R}
      /\ u.out = r.out /\ u.close = r.close /\ u.unb = r.unb
  BY <1>1, <1>2, Zenon DEF Clear, Rec
<1>4. FlagInv(u)
  BY <1>3 DEF RecInv, FlagInv, CLOSE_ASAP, UNBLOCKED, CLOSE_AFTER_REPLY, REPLY_OFF, PROTECTED
<1>5. PENDING_READ \in u.flags <=> PENDING_READ \in r.flags
  BY <1>3 DEF PENDING_READ, PROTECTED
<1>6. Sequential => u.pw = IF PENDING_WRITE \in u.flags THEN 1 ELSE 0
  BY <1>3 DEF RecInv, WriteInv, PwInv, OutInv, PENDING_WRITE, PROTECTED
<1>7. unprotectClient(r) = IF r.out = 1 THEN clientInstallWriteHandler(u) ELSE u
  BY <1>1 DEF unprotectClient
<1>8. CASE r.out # 1
  <2>1. Sequential => WriteInv(u, FALSE)
    BY <1>3, <1>6, <1>8 DEF WriteInv, PwInv, OutInv
  <2> QED
    BY <1>3, <1>4, <1>5, <1>7, <1>8, <2>1, Zenon DEF Makes, RecInv
<1>9. CASE r.out = 1 /\ PENDING_WRITE \in u.flags
  <2>1. Sequential => WriteInv(u, FALSE)
    BY <1>3, <1>6, <1>9 DEF WriteInv, PwInv, OutInv
  <2> QED
    BY <1>3, <1>4, <1>5, <1>7, <1>9, <2>1, Zenon DEF Makes, RecInv, clientInstallWriteHandler, Has
<1>10. CASE r.out = 1 /\ PENDING_WRITE \notin u.flags
  <2>1. PICK s : s = clientInstallWriteHandler(u)
    OBVIOUS
  <2>2. s = [u EXCEPT !.flags = @ \union {PENDING_WRITE}, !.pw = @ + 1]
    BY <1>10, <2>1 DEF clientInstallWriteHandler, Has, Set
  <2>3. u.flags \union {PENDING_WRITE} \in SUBSET Flag /\ u.pw + 1 \in Int
    BY <1>3 DEF Rec, Flag
  <2>4. /\ s \in Rec /\ s.flags = u.flags \union {PENDING_WRITE} /\ s.pw = u.pw + 1
        /\ s.out = u.out /\ s.ev = u.ev /\ s.close = u.close /\ s.unb = u.unb
    BY <1>3, <2>2, <2>3, Zenon DEF Rec
  <2>5. FlagInv(s)
    BY <1>4, <2>4 DEF FlagInv, PENDING_WRITE, CLOSE_ASAP, CLOSE_AFTER_REPLY, UNBLOCKED, REPLY_OFF
  <2>6. Sequential => WriteInv(s, FALSE)
    BY <1>6, <1>10, <2>4 DEF WriteInv, PwInv, OutInv
  <2>7. PENDING_READ \in s.flags <=> PENDING_READ \in r.flags
    BY <1>5, <2>4 DEF PENDING_WRITE, PENDING_READ
  <2>8. unprotectClient(r) = s
    BY <1>7, <1>10, <2>1
  <2> QED
    BY <2>4, <2>5, <2>6, <2>7, <2>8, Zenon DEF Makes, RecInv
<1> QED
  BY <1>8, <1>9, <1>10, Zenon

LEMMA FreeAsyncCounts ==
    ASSUME NEW linking \in BOOLEAN, NEW r, CountInv(r, linking) \/ (r \in Rec /\ r.close = 0
             /\ r.unb = (IF UNBLOCKED \in r.flags THEN 1 ELSE 0) /\ CLOSE_ASAP \notin r.flags
             /\ (Sequential => PwInv(r, linking)))
    PROVE  /\ CountInv(freeClientAsync(r), linking)
           /\ freeClientAsync(r).flags = r.flags \union {CLOSE_ASAP}
           /\ freeClientAsync(r).pw = r.pw /\ freeClientAsync(r).ev = r.ev
           /\ freeClientAsync(r).out = r.out
<1>1. CASE CLOSE_ASAP \in r.flags
  <2>1. freeClientAsync(r) = r /\ CountInv(r, linking) /\ r.flags = r.flags \union {CLOSE_ASAP}
    BY <1>1 DEF freeClientAsync, Has, CountInv, Rec
  <2> QED
    BY <2>1
<1>2. CASE CLOSE_ASAP \notin r.flags
  <2>1. PICK s : s = freeClientAsync(r)
    OBVIOUS
  <2>2. r \in Rec /\ r.close + 1 = 1 /\ r.flags \union {CLOSE_ASAP} \in SUBSET Flag
    BY <1>2 DEF CountInv, Rec, Flag, FlagInv
  <2>3. s = [r EXCEPT !.flags = @ \union {CLOSE_ASAP}, !.close = @ + 1]
    BY <1>2, <2>1, <2>2 DEF freeClientAsync, Has, Set, Rec
  <2>4. /\ s \in Rec /\ s.flags = r.flags \union {CLOSE_ASAP} /\ s.pw = r.pw
        /\ s.out = r.out /\ s.ev = r.ev /\ s.close = 1 /\ s.unb = r.unb
    BY <2>2, <2>3, Zenon DEF Rec
  <2>5. FlagInv(s)
    BY <2>4 DEF CountInv, FlagInv, CLOSE_ASAP, UNBLOCKED
  <2>6. Sequential => PwInv(s, linking)
    BY <2>4 DEF CountInv, PwInv, CLOSE_ASAP, PENDING_WRITE
  <2> QED
    BY <2>1, <2>4, <2>5, <2>6 DEF CountInv
<1> QED
  BY <1>1, <1>2

LEMMA FreeAsyncMakes ==
    ASSUME NEW linking \in BOOLEAN, NEW r, RecInv(r, linking)
    PROVE  /\ Makes(r, freeClientAsync(r), linking)
           /\ freeClientAsync(r).pw = r.pw
<1>1. CountInv(r, linking)
  BY DEF RecInv, CountInv, WriteInv
<1>2. /\ CountInv(freeClientAsync(r), linking) /\ freeClientAsync(r).pw = r.pw
      /\ freeClientAsync(r).flags = r.flags \union {CLOSE_ASAP}
  BY <1>1, FreeAsyncCounts
<1> QED
  BY <1>2 DEF Makes, RecInv, CountInv, WriteInv, OutInv, PENDING_READ, CLOSE_ASAP

\* What is written is removed; the end of a reply closes the client.
Written(r, w, outcome, linking) ==
    /\ CountInv(w, linking) /\ w.pw = r.pw
    /\ w.flags = r.flags \/ w.flags = r.flags \union {CLOSE_ASAP}
    /\ w = r \/ w.out = 0 \/ CLOSE_ASAP \in w.flags
    /\ outcome = "error" /\ w.out # 0 => CLOSE_ASAP \in w.flags

LEMMA WriteCounts ==
    ASSUME NEW linking \in BOOLEAN, NEW r, CountInv(r, linking), NEW outcome \in WriteOutcomes,
           NEW installed \in BOOLEAN, NEW w, w = writeToClient(r, outcome, installed)
    PROVE  Written(r, w, outcome, linking)
<1> USE DEF Written
<1>0. r \in Rec
  BY DEF CountInv
<1>1. CASE outcome = "error" /\ r.out = 1
  <2>1. w = freeClientAsync(r)
    BY <1>1 DEF writeToClient
  <2> QED
    BY <2>1, FreeAsyncCounts
<1>2. CASE outcome = "some" /\ r.out = 1
  <2>1. w = r
    BY <1>2 DEF writeToClient
  <2> QED
    BY <1>2, <2>1
<1>3. CASE ~(outcome = "error" /\ r.out = 1) /\ ~(outcome = "some" /\ r.out = 1)
  <2>1. PICK d : d = IF installed THEN [r EXCEPT !.out = 0, !.ev = @ \ {W}]
                                  ELSE [r EXCEPT !.out = 0]
    BY Zenon
  <2>2. w = IF Has(r, CLOSE_AFTER_REPLY) THEN freeClientAsync(d) ELSE d
    BY <1>3, <2>1 DEF writeToClient
  <2>4. /\ d \in Rec /\ d.flags = r.flags /\ d.pw = r.pw
        /\ d.out = 0 /\ d.close = r.close /\ d.unb = r.unb
    BY <1>0, <2>1, Zenon DEF Rec
  <2>5. Sequential => PwInv(d, linking)
    BY <2>4 DEF CountInv, PwInv
  <2>6. CASE CLOSE_AFTER_REPLY \notin r.flags
    <3>1. FlagInv(d)
      BY <2>4, <2>6 DEF CountInv, FlagInv
    <3>2. w = d
      BY <2>2, <2>6 DEF Has
    <3> QED
      BY <2>4, <2>5, <3>1, <3>2 DEF CountInv
  <2>7. CASE CLOSE_AFTER_REPLY \in r.flags
    <3>1. \/ CountInv(d, linking)
          \/ /\ d \in Rec /\ d.close = 0 /\ d.unb = (IF UNBLOCKED \in d.flags THEN 1 ELSE 0)
             /\ CLOSE_ASAP \notin d.flags /\ (Sequential => PwInv(d, linking))
      BY <2>4, <2>5 DEF CountInv, FlagInv
    <3>2. w = freeClientAsync(d)
      BY <2>2, <2>7 DEF Has
    <3> QED
      BY <2>4, <3>1, <3>2, FreeAsyncCounts
  <2> QED
    BY <2>6, <2>7
<1> QED
  BY <1>1, <1>2, <1>3

LEMMA WriteMakes ==
    ASSUME NEW linking \in BOOLEAN, NEW r, RecInv(r, linking), NEW outcome \in WriteOutcomes,
           NEW installed \in BOOLEAN
    PROVE  /\ Makes(r, writeToClient(r, outcome, installed), linking)
           /\ writeToClient(r, outcome, installed).pw = r.pw
<1>1. PICK w : w = writeToClient(r, outcome, installed)
  OBVIOUS
<1>2. CountInv(r, linking)
  BY DEF RecInv, CountInv, WriteInv
<1>3. /\ CountInv(w, linking) /\ w.pw = r.pw
      /\ w.flags = r.flags \/ w.flags = r.flags \union {CLOSE_ASAP}
      /\ w = r \/ w.out = 0 \/ CLOSE_ASAP \in w.flags
  <2>1. Written(r, w, outcome, linking)
    BY <1>1, <1>2, WriteCounts, Zenon
  <2> QED
    BY ONLY <2>1 DEF Written
<1>4. Sequential => OutInv(w)
  BY <1>3 DEF RecInv, WriteInv, OutInv
<1> QED
  BY <1>1, <1>3, <1>4 DEF Makes, RecInv, CountInv, WriteInv, PENDING_READ, CLOSE_ASAP

\* A client taken off the queue of writes is written to, or gets its handler,
\* or is closed, or is protected.
LEMMA WriteOrInstallMakes ==
    ASSUME NEW r0, RecInv(r0, FALSE), r0.pw # 0, NEW outcome \in WriteOutcomes,
           NEW installs \in BOOLEAN, NEW threaded \in BOOLEAN
    PROVE  Makes(r0, WriteOrInstall(r0, outcome, installs, threaded), FALSE)
<1>1. PICK r : r = [Clear(r0, PENDING_WRITE) EXCEPT !.pw = @ - 1]
  BY Zenon
<1>2. r0 \in Rec /\ r0.flags \ {PENDING_WRITE} \in SUBSET Flag /\ r0.pw - 1 \in Int
  BY DEF RecInv, Rec
<1>3. /\ r \in Rec /\ r.flags = r0.flags \ {PENDING_WRITE} /\ r.pw = r0.pw - 1
      /\ r.out = r0.out /\ r.ev = r0.ev /\ r.close = r0.close /\ r.unb = r0.unb
  BY <1>1, <1>2, Zenon DEF Clear, Rec
<1>4. FlagInv(r)
  BY <1>3 DEF RecInv, FlagInv, CLOSE_ASAP, UNBLOCKED, CLOSE_AFTER_REPLY, REPLY_OFF, PENDING_WRITE
<1>5. Sequential => PwInv(r, FALSE)
  BY <1>3 DEF RecInv, WriteInv, PwInv
<1>6. CountInv(r, FALSE)
  BY <1>3, <1>4, <1>5, Zenon DEF CountInv
<1>7. PICK w : w = writeToClient(r, outcome, FALSE)
  BY Zenon
<1>8. /\ CountInv(w, FALSE)
      /\ w.flags = r.flags \/ w.flags = r.flags \union {CLOSE_ASAP}
      /\ w = r \/ w.out = 0 \/ CLOSE_ASAP \in w.flags
      /\ outcome = "error" /\ w.out # 0 => CLOSE_ASAP \in w.flags
  <2>1. Written(r, w, outcome, FALSE)
    BY ONLY <1>6, <1>7, WriteCounts, FALSE \in BOOLEAN, outcome \in WriteOutcomes, Zenon
  <2> QED
    BY ONLY <2>1 DEF Written
<1>9. /\ PENDING_READ \in r.flags <=> PENDING_READ \in r0.flags
      /\ PENDING_READ \in w.flags <=> PENDING_READ \in r0.flags
  BY <1>3, <1>8 DEF PENDING_READ, PENDING_WRITE, CLOSE_ASAP
<1>10. WriteOrInstall(r0, outcome, installs, threaded) =
         IF Has(r, PROTECTED) /\ ~threaded THEN r
         ELSE IF w.out = 0 \/ (outcome = "error" /\ ~threaded) THEN w
         ELSE IF installs THEN [w EXCEPT !.ev = @ \union {W}]
         ELSE freeClientAsync(w)
  BY <1>1, <1>7 DEF WriteOrInstall
<1>11. CASE Has(r, PROTECTED) /\ ~threaded
  <2>1. OutInv(r)
    BY <1>11 DEF OutInv, Has
  <2> QED
    BY <1>6, <1>9, <1>10, <1>11, <2>1, Zenon DEF Makes, RecInv, CountInv, WriteInv
<1>12. CASE ~(Has(r, PROTECTED) /\ ~threaded) /\ (w.out = 0 \/ (outcome = "error" /\ ~threaded))
  <2>1. OutInv(w)
    BY <1>8, <1>12 DEF OutInv
  <2> QED
    BY <1>8, <1>9, <1>10, <1>12, <2>1, Zenon DEF Makes, RecInv, CountInv, WriteInv
<1>13. CASE /\ ~(Has(r, PROTECTED) /\ ~threaded) /\ ~(w.out = 0 \/ (outcome = "error" /\ ~threaded))
            /\ installs
  <2>1. PICK s : s = [w EXCEPT !.ev = @ \union {W}]
    BY Zenon
  <2>2. w \in Rec
    BY <1>8 DEF CountInv
  <2>3. /\ s \in Rec /\ s.flags = w.flags /\ s.pw = w.pw /\ s.ev = w.ev \union {W}
        /\ s.out = w.out /\ s.close = w.close /\ s.unb = w.unb
    BY <2>1, <2>2 DEF Rec
  <2>4. CountInv(s, FALSE) /\ OutInv(s)
    BY <1>8, <2>3 DEF CountInv, FlagInv, PwInv, OutInv
  <2>5. WriteOrInstall(r0, outcome, installs, threaded) = s
    BY <1>10, <1>13, <2>1
  <2> QED
    BY <1>9, <2>3, <2>4, <2>5, Zenon DEF Makes, RecInv, CountInv, WriteInv
<1>14. CASE /\ ~(Has(r, PROTECTED) /\ ~threaded) /\ ~(w.out = 0 \/ (outcome = "error" /\ ~threaded))
            /\ ~installs
  <2>1. WriteOrInstall(r0, outcome, installs, threaded) = freeClientAsync(w)
    BY <1>10, <1>14
  <2>2. CountInv(freeClientAsync(w), FALSE) /\ freeClientAsync(w).flags = w.flags \union {CLOSE_ASAP}
    BY <1>8, FreeAsyncCounts, Zenon
  <2>3. OutInv(freeClientAsync(w)) /\ (PENDING_READ \in freeClientAsync(w).flags <=> PENDING_READ \in r0.flags)
    BY <1>9, <2>2 DEF OutInv, PENDING_READ, CLOSE_ASAP
  <2> QED
    BY <2>1, <2>2, <2>3, Zenon DEF Makes, RecInv, CountInv, WriteInv
<1> QED
  BY <1>11, <1>12, <1>13, <1>14, Zenon

LEMMA ReceivedMakes ==
    ASSUME NEW linking \in BOOLEAN, NEW r, RecInv(r, linking), NEW n \in Nat
    PROVE  Makes(r, Received(r, n), linking) /\ Received(r, n).pw = r.pw
<1>1. r.inb + n \in Int
  BY DEF RecInv, Rec
<1> QED
  BY <1>1, FreeAsyncMakes, InbMakes DEF Received

LEMMA ParsedMakes ==
    ASSUME NEW linking \in BOOLEAN, NEW r, RecInv(r, linking), NEW p, p = [r EXCEPT !.inb = @ - 1]
    PROVE  /\ Makes(r, p, linking) /\ p.pw = r.pw
           /\ Makes(r, Set(p, PENDING_COMMAND), linking) /\ Set(p, PENDING_COMMAND).pw = r.pw
           /\ Makes(r, Set(addReply(p), CLOSE_AFTER_REPLY), linking)
<1>1. r.inb - 1 \in Int
  BY DEF RecInv, Rec
<1>2. Makes(r, p, linking) /\ p.pw = r.pw
  BY <1>1, InbMakes
<1>3. RecInv(p, linking) /\ (PENDING_READ \in p.flags <=> PENDING_READ \in r.flags)
  BY <1>2 DEF Makes
<1>4. Makes(p, Set(p, PENDING_COMMAND), linking)
  BY <1>3, SetNeutralMakes
<1>5. Set(p, PENDING_COMMAND).pw = p.pw
  BY <1>3 DEF Set, RecInv, Rec
<1>6. Makes(p, Set(addReply(p), CLOSE_AFTER_REPLY), linking)
  BY <1>3, CloseAfterMakes
<1> QED
  BY <1>2, <1>3, <1>4, <1>5, <1>6 DEF Makes

LEMMA RefuseMakes ==
    ASSUME NEW linking \in BOOLEAN, NEW r, RecInv(r, linking)
    PROVE  Makes(r, Refuse(r), linking)
<1>1. CASE ~MayProcess(r)
  BY <1>1 DEF Refuse, Makes
<1>2. CASE MayProcess(r) /\ Has(r, PENDING_READ)
  <2>1. PICK p : p = [r EXCEPT !.inb = @ - 1]
    BY Zenon
  <2>2. r \in Rec
    BY DEF RecInv
  <2>3. Refuse(r) = Set(p, PENDING_COMMAND)
    BY <1>2, <2>1, <2>2, Zenon DEF Refuse, Set, Rec
  <2> QED
    BY <2>1, <2>3, ParsedMakes
<1>3. CASE MayProcess(r) /\ ~Has(r, PENDING_READ)
  <2>1. Makes(r, addReply(r), linking)
    BY AddReplyMakes
  <2>2. Makes(addReply(r), [addReply(r) EXCEPT !.inb = 0], linking)
    BY <2>1, InbMakes DEF Makes
  <2>3. Refuse(r) = [addReply(r) EXCEPT !.inb = 0]
    BY <1>3 DEF Refuse
  <2> QED
    BY <2>1, <2>2, <2>3 DEF Makes
<1> QED
  BY <1>1, <1>2, <1>3

-----------------------------------------------------------------------------
(* The queue of reads.                                                     *)

Distinct(s) == \A i, k \in 1..Len(s) : s[i] = s[k] => i = k

LEMMA ConsFacts ==
    ASSUME NEW s \in Seq(Client), NEW c \in Client
    PROVE  /\ <<c>> \o s \in Seq(Client) /\ Elements(<<c>> \o s) = Elements(s) \union {c}
           /\ Distinct(s) /\ c \notin Elements(s) => Distinct(<<c>> \o s)
<1>1. PICK t : t = <<c>> \o s
  BY Zenon
<1>2. /\ t \in Seq(Client) /\ Len(t) = Len(s) + 1 /\ t[1] = c
      /\ \A i \in 1..Len(s) : t[i + 1] = s[i]
  BY <1>1
<1>3. \A i \in 1..Len(t) : i = 1 \/ (i - 1 \in 1..Len(s) /\ t[i] = s[i - 1])
  <2>1. ASSUME NEW i \in 1..Len(t), i # 1 PROVE i - 1 \in 1..Len(s) /\ t[i] = s[i - 1]
    <3>1. i - 1 \in 1..Len(s) /\ (i - 1) + 1 = i
      BY <1>2, <2>1
    <3> QED
      BY <1>2, <3>1
  <2> QED
    BY <2>1
<1>4. Elements(t) = Elements(s) \union {c}
  <2>1. 1 \in 1..Len(t) /\ \A i \in 1..Len(s) : i + 1 \in 1..Len(t)
    BY <1>2
  <2>2. Elements(t) \subseteq Elements(s) \union {c}
    <3>1. ASSUME NEW i \in 1..Len(t) PROVE t[i] = c \/ \E k \in 1..Len(s) : t[i] = s[k]
      BY <1>2, <1>3
    <3> QED
      BY <3>1 DEF Elements
  <2>3. Elements(s) \union {c} \subseteq Elements(t)
    BY <1>2, <2>1 DEF Elements
  <2> QED
    BY <2>2, <2>3
<1>5. ASSUME Distinct(s), c \notin Elements(s), NEW i \in 1..Len(t), NEW k \in 1..Len(t), t[i] = t[k]
      PROVE  i = k
  <2>1. \A j \in 1..Len(s) : s[j] # c
    BY <1>5 DEF Elements
  <2>2. CASE i = 1 /\ k = 1
    BY <2>2
  <2>3. CASE i = 1 /\ k # 1
    BY <1>2, <1>3, <1>5, <2>1, <2>3
  <2>4. CASE i # 1 /\ k = 1
    BY <1>2, <1>3, <1>5, <2>1, <2>4
  <2>5. CASE i # 1 /\ k # 1
    <3>1. i - 1 \in 1..Len(s) /\ k - 1 \in 1..Len(s) /\ s[i - 1] = s[k - 1]
      BY <1>3, <1>5, <2>5
    <3>2. i - 1 = k - 1
      BY <1>5, <3>1 DEF Distinct
    <3> QED
      BY <3>2
  <2> QED
    BY <2>2, <2>3, <2>4, <2>5
<1> QED
  BY <1>1, <1>2, <1>4, <1>5 DEF Distinct

LEMMA TailFacts ==
    ASSUME NEW s \in Seq(Client), s # <<>>, Distinct(s)
    PROVE  /\ Head(s) \in Client /\ Tail(s) \in Seq(Client) /\ Distinct(Tail(s))
           /\ Head(s) \in Elements(s)
           /\ Elements(Tail(s)) = Elements(s) \ {Head(s)}
<1>1. PICK t : t = Tail(s)
  BY Zenon
<1>2. /\ t \in Seq(Client) /\ Len(s) \in Nat /\ Len(s) >= 1 /\ Len(t) = Len(s) - 1
      /\ \A i \in 1..Len(t) : t[i] = s[i + 1]
      /\ Head(s) = s[1] /\ s[1] \in Client
  BY <1>1
<1>3. Head(s) \in Elements(s)
  BY <1>2 DEF Elements
<1>4. ASSUME NEW i \in 1..Len(t), NEW k \in 1..Len(t), t[i] = t[k] PROVE i = k
  <2>1. i + 1 \in 1..Len(s) /\ k + 1 \in 1..Len(s) /\ s[i + 1] = s[k + 1]
    BY <1>2, <1>4
  <2>2. i + 1 = k + 1
    BY <2>1 DEF Distinct
  <2> QED
    BY <2>2
<1>5. ASSUME NEW i \in 1..Len(t) PROVE t[i] \in Elements(s) /\ t[i] # Head(s)
  <2>1. i + 1 \in 1..Len(s) /\ i + 1 # 1 /\ 1 \in 1..Len(s) /\ t[i] = s[i + 1]
    BY <1>2
  <2> QED
    BY <1>2, <2>1 DEF Distinct, Elements
<1>6. ASSUME NEW i \in 1..Len(s), s[i] # Head(s) PROVE s[i] \in Elements(t)
  <2>1. i # 1
    BY <1>2, <1>6
  <2>2. i - 1 \in 1..Len(t) /\ (i - 1) + 1 = i
    BY <1>2, <2>1
  <2>3. s[i] = t[i - 1]
    BY <1>2, <2>2
  <2> QED
    BY <2>2, <2>3 DEF Elements
<1>7. Elements(t) = Elements(s) \ {Head(s)}
  <2>1. Elements(t) \subseteq Elements(s) \ {Head(s)}
    BY <1>5 DEF Elements
  <2>2. Elements(s) \ {Head(s)} \subseteq Elements(t)
    BY <1>6 DEF Elements
  <2> QED
    BY <2>1, <2>2
<1> QED
  BY <1>1, <1>2, <1>3, <1>4, <1>7 DEF Distinct

\* listDelNode of the first node that holds c.
LEMMA RemoveFacts ==
    ASSUME NEW s \in Seq(Client), NEW c \in Client
    PROVE  /\ Remove(s, c) \in Seq(Client)
           /\ Elements(s) \ {c} \subseteq Elements(Remove(s, c))
           /\ Elements(Remove(s, c)) \subseteq Elements(s)
           /\ Distinct(s) => /\ Distinct(Remove(s, c))
                             /\ Elements(Remove(s, c)) = Elements(s) \ {c}
<1>1. CASE c \notin Elements(s)
  <2>1. Remove(s, c) = s /\ Elements(s) \ {c} = Elements(s)
    BY <1>1 DEF Remove
  <2> QED
    BY <2>1
<1>2. CASE c \in Elements(s)
  <2> DEFINE P(i) == s[i] = c /\ \A k \in 1..(i - 1) : s[k] # c
             at == CHOOSE i \in 1..Len(s) : P(i)
             t == [i \in 1..(Len(s) - 1) |-> IF i < at THEN s[i] ELSE s[i + 1]]
  <2>1. \E i \in 1..Len(s) : P(i)
    <3>1. PICK T : T = {i \in 1..Len(s) : s[i] = c}
      BY Zenon
    <3>2. T \in SUBSET Nat /\ T # {}
      BY <1>2, <3>1 DEF Elements
    <3>3. PICK x \in T : \A y \in T : x <= y
      <4>1. PICK x \in T : \A y \in T : ~(<<y, x>> \in OpToRel(<, Nat))
        BY <3>2, NatLessThanWellFounded, WFMin, Zenon
      <4>2. ASSUME NEW y \in T PROVE ~(y < x)
        BY <3>2, <4>1, Zenon DEF OpToRel
      <4>3. \A y \in T : x <= y
        BY <3>2, <4>2
      <4> QED
        BY <4>3
    <3>4. ASSUME NEW k \in 1..(x - 1) PROVE s[k] # c
      <4>1. x \in 1..Len(s) /\ Len(s) \in Nat
        BY <3>1
      <4>2. k \in 1..Len(s) /\ ~(x <= k)
        BY <4>1
      <4> QED
        BY <3>1, <3>3, <4>2
    <3> QED
      BY <3>1, <3>3, <3>4
  <2>2. at \in 1..Len(s) /\ P(at)
    BY <2>1
  <2>3. Remove(s, c) = t
    BY <1>2 DEF Remove
  <2> HIDE DEF at, P
  <2>4. s[at] = c /\ Len(s) \in Nat /\ Len(s) - 1 \in Nat
    BY <2>2 DEF P
  <2>5. ASSUME NEW i \in 1..(Len(s) - 1)
        PROVE  /\ i < at => i \in 1..Len(s) /\ t[i] = s[i] /\ i # at
               /\ ~(i < at) => i + 1 \in 1..Len(s) /\ t[i] = s[i + 1] /\ i + 1 # at
    BY <2>2, <2>4
  <2>6. t \in [1..(Len(s) - 1) -> Client]
    BY <2>2, <2>4
  <2> HIDE DEF t
  <2>7. t \in Seq(Client) /\ Len(t) = Len(s) - 1
    BY <2>4, <2>6
  <2>8. ASSUME NEW k \in 1..Len(s), s[k] # c PROVE \E i \in 1..Len(t) : t[i] = s[k]
    <3>1. k # at
      BY <2>4, <2>8
    <3>2. CASE k < at
      <4>1. k \in 1..(Len(s) - 1)
        BY <2>2, <2>4, <3>2
      <4> QED
        BY <2>5, <2>7, <3>2, <4>1
    <3>3. CASE ~(k < at)
      <4>1. k - 1 \in 1..(Len(s) - 1) /\ ~(k - 1 < at) /\ (k - 1) + 1 = k
        BY <2>2, <2>4, <3>1, <3>3
      <4> QED
        BY <2>5, <2>7, <4>1
    <3> QED
      BY <3>2, <3>3
  <2>9. ASSUME NEW i \in 1..Len(t) PROVE t[i] \in Elements(s)
    BY <2>5, <2>7 DEF Elements
  <2>10. /\ Elements(s) \ {c} \subseteq Elements(t) /\ Elements(t) \subseteq Elements(s)
    BY <2>8, <2>9 DEF Elements
  <2>11. ASSUME Distinct(s)
         PROVE  Distinct(t) /\ Elements(t) = Elements(s) \ {c}
    <3>1. ASSUME NEW i \in 1..Len(t) PROVE t[i] # c
      BY <2>2, <2>4, <2>5, <2>7, <2>11 DEF Distinct
    <3>2. ASSUME NEW i \in 1..Len(t), NEW k \in 1..Len(t), t[i] = t[k] PROVE i = k
      <4>1. CASE i < at /\ k < at
        BY <2>5, <2>7, <2>11, <3>2, <4>1 DEF Distinct
      <4>2. CASE ~(i < at) /\ ~(k < at)
        <5>1. i + 1 \in 1..Len(s) /\ k + 1 \in 1..Len(s) /\ s[i + 1] = s[k + 1]
          BY <2>5, <2>7, <3>2, <4>2
        <5>2. i + 1 = k + 1
          BY <2>11, <5>1 DEF Distinct
        <5> QED
          BY <5>2
      <4>3. CASE i < at /\ ~(k < at)
        <5>1. i \in 1..Len(s) /\ k + 1 \in 1..Len(s) /\ s[i] = s[k + 1]
          BY <2>5, <2>7, <3>2, <4>3
        <5>2. i = k + 1
          BY <2>11, <5>1 DEF Distinct
        <5> QED
          BY <2>2, <4>3, <5>2
      <4>4. CASE ~(i < at) /\ k < at
        <5>1. i + 1 \in 1..Len(s) /\ k \in 1..Len(s) /\ s[i + 1] = s[k]
          BY <2>5, <2>7, <3>2, <4>4
        <5>2. i + 1 = k
          BY <2>11, <5>1 DEF Distinct
        <5> QED
          BY <2>2, <4>4, <5>2
      <4> QED
        BY <4>1, <4>2, <4>3, <4>4
    <3>3. c \notin Elements(t)
      BY <3>1 DEF Elements
    <3> QED
      BY <2>10, <3>2, <3>3 DEF Distinct
  <2> QED
    BY <2>3, <2>7, <2>10, <2>11
<1> QED
  BY <1>1, <1>2

\* The position of a node among the ones that are kept.
LEMMA Ranks ==
    ASSUME NEW l \in Nat, NEW K \in SUBSET (1..l)
    PROVE  /\ Cardinality(K) \in Nat
           /\ \A i \in K : Cardinality({k \in K : k <= i}) \in 1..Cardinality(K)
           /\ \A i, j \in K : Cardinality({k \in K : k <= i}) = Cardinality({k \in K : k <= j}) => i = j
           /\ \A n \in 1..Cardinality(K) : \E i \in K : Cardinality({k \in K : k <= i}) = n
<1> DEFINE Low(i) == {k \in K : k <= i}
<1>1. IsFiniteSet(K) /\ Cardinality(K) \in Nat
  <2>1. IsFiniteSet(1..l)
    BY FS_Interval
  <2>2. IsFiniteSet(K)
    BY <2>1, FS_Subset, Zenon
  <2> QED
    BY <2>2, FS_CardinalityType
<1>2. ASSUME NEW i \in K PROVE Cardinality(Low(i)) \in 1..Cardinality(K)
  <2>1. IsFiniteSet(Low(i)) /\ Cardinality(Low(i)) <= Cardinality(K)
    BY <1>1, FS_Subset
  <2>2. Cardinality(Low(i)) \in Nat
    BY <2>1, FS_CardinalityType
  <2>3. Cardinality(Low(i)) # 0
    <3>1. i \in Low(i)
      OBVIOUS
    <3> QED
      BY <2>1, <3>1, FS_EmptySet
  <2> QED
    BY <1>1, <2>1, <2>2, <2>3
<1>3. ASSUME NEW i \in K, NEW j \in K, Cardinality(Low(i)) = Cardinality(Low(j)), i < j PROVE FALSE
  <2>0. \A k \in K : k \in Int
    OBVIOUS
  <2>1. Low(i) \in SUBSET Low(j) /\ j \in Low(j) /\ j \notin Low(i)
    <3>1. ASSUME NEW k \in Low(i) PROVE k \in Low(j)
      <4>1. k \in K /\ k <= i
        BY <3>1
      <4>2. k \in Int /\ i \in Int /\ j \in Int
        BY <2>0, <4>1
      <4>3. k <= j
        BY <1>3, <4>1, <4>2
      <4> QED
        BY <4>1, <4>3
    <3>2. j <= j /\ ~(j <= i)
      BY <1>3, <2>0
    <3> QED
      BY <3>1, <3>2, Zenon
  <2>2. IsFiniteSet(Low(j))
    BY <1>1, FS_Subset
  <2>3. Low(i) = Low(j)
    BY <1>3, <2>1, <2>2, FS_Subset
  <2> QED
    BY <2>1, <2>3
<1>4. ASSUME NEW i \in K, NEW j \in K, Cardinality(Low(i)) = Cardinality(Low(j)) PROVE i = j
  <2>1. i \in Int /\ j \in Int
    OBVIOUS
  <2> QED
    BY <1>3, <1>4, <2>1
<1> HIDE DEF Low
<1>5. PICK rank : rank = [i \in K |-> Cardinality(Low(i))]
  BY Zenon
<1>6. rank \in Injection(K, 1..Cardinality(K))
  BY <1>2, <1>4, <1>5 DEF Injection, IsInjective
<1>7. IsFiniteSet(1..Cardinality(K)) /\ Cardinality(1..Cardinality(K)) = Cardinality(K)
  BY <1>1, FS_Interval
<1>8. rank \in Surjection(K, 1..Cardinality(K))
  BY <1>6, <1>7, FS_Injection
<1>9. \A n \in 1..Cardinality(K) : \E i \in K : rank[i] = n
  BY <1>8 DEF Surjection
<1>10. \A n \in 1..Cardinality(K) : \E i \in K : Cardinality(Low(i)) = n
  BY <1>5, <1>9
<1> QED
  BY <1>1, <1>2, <1>4, <1>10 DEF Low

LEMMA WithoutFacts ==
    ASSUME NEW s \in Seq(Client), NEW S
    PROVE  /\ Without(s, S) \in Seq(Client)
           /\ Elements(Without(s, S)) = Elements(s) \ S
           /\ Distinct(s) => Distinct(Without(s, S))
<1> DEFINE kept == {i \in 1..Len(s) : s[i] \notin S}
           Rank(i) == Cardinality({k \in kept : k <= i})
           Pos(n) == CHOOSE i \in kept : Rank(i) = n
           t == [n \in 1..Cardinality(kept) |-> s[Pos(n)]]
<1>1. Without(s, S) = t
  BY DEF Without
<1>2. Len(s) \in Nat /\ kept \in SUBSET (1..Len(s)) /\ \A i \in kept : s[i] \in Client /\ s[i] \notin S
  OBVIOUS
<1>3. \A i \in 1..Len(s) : i \in kept <=> s[i] \notin S
  OBVIOUS
<1> HIDE DEF kept
<1>4. /\ Cardinality(kept) \in Nat
      /\ \A i \in kept : Rank(i) \in 1..Cardinality(kept)
      /\ \A i, j \in kept : Rank(i) = Rank(j) => i = j
      /\ \A n \in 1..Cardinality(kept) : \E i \in kept : Rank(i) = n
  BY <1>2, Ranks, Zenon
<1> HIDE DEF Rank
<1>5. ASSUME NEW n \in 1..Cardinality(kept) PROVE Pos(n) \in kept /\ Rank(Pos(n)) = n
  BY <1>4
<1> HIDE DEF Pos
<1>6. t \in [1..Cardinality(kept) -> Client]
  BY <1>2, <1>5, Zenon
<1>7. t \in Seq(Client) /\ Len(t) = Cardinality(kept) /\ \A n \in 1..Len(t) : t[n] = s[Pos(n)]
  BY <1>4, <1>6
<1> HIDE DEF t
<1>8. ASSUME NEW n \in 1..Len(t) PROVE t[n] \in Elements(s) \ S
  BY <1>2, <1>5, <1>7, Zenon DEF Elements
<1>9. ASSUME NEW i \in 1..Len(s), s[i] \notin S PROVE s[i] \in Elements(t)
  <2>1. i \in kept /\ Rank(i) \in 1..Len(t)
    BY <1>3, <1>4, <1>7, <1>9
  <2>2. Pos(Rank(i)) = i
    BY <1>4, <1>5, <1>7, <2>1, Zenon
  <2> QED
    BY <1>7, <2>1, <2>2 DEF Elements
<1>10. Elements(t) = Elements(s) \ S
  BY <1>8, <1>9 DEF Elements
<1>11. ASSUME Distinct(s), NEW m \in 1..Len(t), NEW n \in 1..Len(t), t[m] = t[n] PROVE m = n
  <2>1. Pos(m) = Pos(n)
    BY <1>2, <1>5, <1>7, <1>11, Zenon DEF Distinct
  <2> QED
    BY <1>5, <1>7, <2>1
<1> QED
  BY <1>1, <1>7, <1>10, <1>11 DEF Distinct

-----------------------------------------------------------------------------
(* The inductive invariant.                                                *)

Inside == {"nested", "input", "command"}
Places == Inside \union {"events", "threads", "collect", "unblocked", "writes", "sync"}

TypeInv ==
    /\ live \subseteq Client /\ todo \subseteq Client
    /\ pr \in Seq(Client) /\ rest \in Seq(Client)
    /\ loaded \in [Client -> {<<>>} \union [Client -> Int]]
    /\ pc \in Places /\ from \in {"events", "batch", "unblocked"}
    /\ pc \in Inside => cur \in Client

RecordsInv ==
    /\ cl \in [Client -> Rec]
    /\ \A c \in Client : RecInv(cl[c], loaded[c] # <<>>)

\* The only thread that loaded the list of writes still knows what it holds.
ThreadInv ==
    /\ pc # "threads" => todo = {}
    /\ \A c \in Client : loaded[c] # <<>> =>
          /\ c \in todo /\ c \in Malformed
          /\ Sequential => loaded[c] = [d \in Client |-> cl[d].pw]

Core == TypeInv /\ RecordsInv /\ ThreadInv

FreeInv == \A c \in Client \ live : cl[c] = Free
MainInv ==
    /\ pc \in Inside => cur \in live
    /\ NoBusy => (pc = "nested" => from # "batch")

\* The nodes of the queue of reads that are still to be handled: they hold
\* flagged clients, each once, and every flagged client unless events were
\* handled during the walk.
Queue == IF Walking THEN rest ELSE pr
QueueInv ==
    /\ Distinct(Queue)
    /\ \A c \in Elements(Queue) : c \in live /\ PENDING_READ \in cl[c].flags
    /\ NoBusy => \A c \in Client : PENDING_READ \in cl[c].flags => c \in Elements(Queue)
    /\ Walking => Elements(rest) \subseteq Elements(pr)
    /\ todo \subseteq Elements(pr)

Order == FreeInv /\ MainInv /\ QueueInv

IInv == Core /\ (Sequential => Order)

LEMMA QuietFacts ==
    ASSUME Core, todo = {}
    PROVE  \A c \in Client : loaded[c] = <<>> /\ RecInv(cl[c], FALSE)
<1>1. \A c \in Client : loaded[c] = <<>>
  BY DEF Core, ThreadInv
<1>2. \A c \in Client : (loaded[c] # <<>>) = FALSE
  BY <1>1
<1> QED
  BY <1>1, <1>2 DEF Core, RecordsInv, RecInv, WriteInv, PwInv

\* No thread runs, and every client is left in order.
LEMMA QuietStep ==
    ASSUME Core, todo = {}, TypeInv', UNCHANGED loaded, pc' # "threads" => todo' = {},
           cl' \in [Client -> Rec], \A c \in Client : RecInv(cl'[c], FALSE)
    PROVE  Core'
<1>1. \A c \in Client : loaded'[c] = <<>>
  BY QuietFacts, Zenon
<1>2. \A c \in Client : (loaded'[c] # <<>>) = FALSE
  BY <1>1
<1>3. RecordsInv'
  BY <1>2 DEF RecordsInv, RecInv, WriteInv, PwInv
<1>4. ThreadInv'
  BY <1>1 DEF ThreadInv
<1> QED
  BY <1>3, <1>4 DEF Core

\* The queue of reads and who is allocated stay as they are.
LEMMA QueueStays ==
    ASSUME QueueInv, UNCHANGED <<pr, rest>>, Walking' <=> Walking, live \subseteq live',
           todo' \subseteq Elements(pr),
           \A c \in Client : PENDING_READ \in cl'[c].flags <=> PENDING_READ \in cl[c].flags,
           pr \in Seq(Client), rest \in Seq(Client)
    PROVE  QueueInv'
<1>1. Queue' = Queue
  BY DEF Queue
<1>2. Distinct(Queue)' /\ Elements(Queue)' = Elements(Queue)
  BY <1>1 DEF QueueInv, Distinct, Elements
<1>3. Elements(Queue) \subseteq Client
  BY DEF Queue, Elements
<1>4. Elements(pr)' = Elements(pr) /\ Elements(rest)' = Elements(rest)
  BY DEF Elements
<1> QED
  BY <1>2, <1>3, <1>4 DEF QueueInv

\* Only the main thread moves on, to a batch of reads or within its loop.
LEMMA MoveOn ==
    ASSUME IInv, todo = {}, TypeInv', UNCHANGED <<cl, live, pr, rest, loaded>>,
           Walking' <=> Walking, Sequential => MainInv',
           pc' # "threads" => todo' = {}, todo' \subseteq Elements(pr)
    PROVE  IInv'
<1>1. Core'
  BY QuietFacts, QuietStep, Zenon DEF IInv, Core, RecordsInv
<1>2. ASSUME Sequential PROVE Order'
  <2>1. FreeInv'
    BY <1>2 DEF IInv, Order, FreeInv
  <2>2. QueueInv'
    BY <1>2, QueueStays DEF IInv, Order, Core, TypeInv
  <2> QED
    BY <1>2, <2>1, <2>2 DEF Order
<1> QED
  BY <1>1, <1>2 DEF IInv

LEMMA ManyClients ==
    ASSUME IInv, todo = {}, TypeInv', UNCHANGED <<live, pr, rest, todo, loaded>>,
           Walking' <=> Walking, Sequential => MainInv',
           DOMAIN cl' = Client, cl' = [c \in Client |-> cl'[c]],
           \A c \in Client : Makes(cl[c], cl'[c], FALSE),
           Sequential => \A c \in Client \ live : cl'[c] = cl[c]
    PROVE  IInv'
<1>1. \A c \in Client : RecInv(cl'[c], FALSE) /\ cl'[c] \in Rec
  BY Zenon DEF Makes, RecInv
<1>2. cl' \in [Client -> Rec]
  BY <1>1, Zenon
<1>3. Core'
  BY <1>1, <1>2, QuietStep, Zenon DEF IInv
<1>4. ASSUME Sequential PROVE Order'
  <2>1. FreeInv'
    BY <1>4 DEF IInv, Order, FreeInv
  <2>2. QueueInv'
    <3>1. todo' \subseteq Elements(pr)
      OBVIOUS
    <3> QED
      BY <1>4, <3>1, QueueStays, Zenon DEF IInv, Order, Makes, Core, TypeInv
  <2> QED
    BY <1>4, <2>1, <2>2 DEF Order
<1> QED
  BY <1>3, <1>4 DEF IInv

LEMMA OneClient ==
    ASSUME IInv, todo = {}, TypeInv', UNCHANGED <<live, pr, rest, todo, loaded>>,
           Walking' <=> Walking, Sequential => MainInv',
           NEW c \in Client, NEW n, cl' = [cl EXCEPT ![c] = n],
           Makes(cl[c], n, FALSE), Sequential => c \in live
    PROVE  IInv'
<1>1. cl \in [Client -> Rec] /\ n \in Rec
  BY DEF IInv, Core, RecordsInv, Makes, RecInv
<1>2. /\ DOMAIN cl' = Client /\ cl' = [d \in Client |-> cl'[d]]
      /\ \A d \in Client : cl'[d] = IF d = c THEN n ELSE cl[d]
  BY <1>1, Zenon
<1>3. \A d \in Client : Makes(cl[d], cl[d], FALSE)
  BY QuietFacts, Zenon DEF IInv, Makes
<1>4. \A d \in Client : Makes(cl[d], cl'[d], FALSE)
  BY <1>2, <1>3, Zenon
<1>5. Sequential => \A d \in Client \ live : cl'[d] = cl[d]
  BY <1>2
<1> QED
  BY <1>2, <1>4, <1>5, ManyClients, Zenon

-----------------------------------------------------------------------------
(* The handlers of file events.                                            *)

LEMMA NotThreads ==
    ASSUME IInv, pc # "threads"
    PROVE  /\ todo = {} /\ TypeInv
           /\ \A c \in Client : loaded[c] = <<>> /\ RecInv(cl[c], FALSE)
<1>1. todo = {} /\ TypeInv /\ Core
  BY DEF IInv, Core, ThreadInv
<1> QED
  BY <1>1, QuietFacts, Zenon

\* A new client is in the memory of one that no queue names any more.
LEMMA AcceptKeeps ==
    ASSUME IInv, NEW c \in Client, acceptTcpHandler(c)
    PROVE  IInv'
<1>1. /\ pc \in {"events", "nested"} /\ c \notin live /\ live' = live \union {c}
      /\ cl' = [cl EXCEPT ![c] = [cl[c] EXCEPT !.ev = {R}]]
      /\ UNCHANGED <<pr, pc, cur, from, rest, todo, loaded>>
  BY DEF acceptTcpHandler, Polling, SetClient, mainVars
<1>2. /\ todo = {} /\ TypeInv /\ \A d \in Client : loaded[d] = <<>> /\ RecInv(cl[d], FALSE)
  BY <1>1, NotThreads, Zenon
<1>3. TypeInv'
  BY <1>1, <1>2 DEF TypeInv
<1>4. PICK n : n = [cl[c] EXCEPT !.ev = {R}]
  BY Zenon
<1>5. cl \in [Client -> Rec] /\ cl[c] \in Rec
  BY DEF IInv, Core, RecordsInv
<1>6. /\ n \in Rec /\ n.flags = cl[c].flags /\ n.out = cl[c].out /\ n.pw = cl[c].pw
      /\ n.close = cl[c].close /\ n.unb = cl[c].unb
  BY <1>4, <1>5 DEF Rec
<1>7. Sequential => cl[c] = Free /\ n.out = 0
  BY <1>1, <1>6 DEF IInv, Order, FreeInv, Free
<1>8. RecInv(cl[c], FALSE)
  BY <1>2, Zenon
<1>9. FlagInv(n) /\ (Sequential => WriteInv(n, FALSE))
  BY <1>6, <1>7, <1>8 DEF RecInv, FlagInv, WriteInv, PwInv, OutInv
<1>10. RecInv(n, FALSE)
  BY <1>6, <1>9, Zenon DEF RecInv
<1>11. \A d \in Client : cl'[d] = IF d = c THEN n ELSE cl[d]
  BY <1>1, <1>4, <1>5
<1>12. Core'
  <2>1. cl' \in [Client -> Rec]
    BY <1>1, <1>4, <1>5, <1>6
  <2>2. \A d \in Client : RecInv(cl'[d], FALSE)
    BY <1>2, <1>10, <1>11, Zenon
  <2> QED
    BY <1>1, <1>2, <1>3, <2>1, <2>2, QuietStep, Zenon DEF IInv
<1>13. ASSUME Sequential PROVE Order'
  <2>1. FreeInv'
    BY <1>1, <1>11, <1>13 DEF IInv, Order, FreeInv
  <2>2. MainInv'
    BY <1>1, <1>13 DEF IInv, Order, MainInv
  <2>3. QueueInv'
    <3>1. Walking' <=> Walking
      BY <1>1 DEF Walking
    <3>2. \A d \in Client : PENDING_READ \in cl'[d].flags <=> PENDING_READ \in cl[d].flags
      BY <1>6, <1>11
    <3>3. todo' \subseteq Elements(pr)
      BY <1>1, <1>2
    <3> QED
      BY <1>1, <1>2, <1>13, <3>1, <3>2, <3>3, QueueStays DEF IInv, Order, TypeInv
  <2> QED
    BY <2>1, <2>2, <2>3 DEF Order
<1> QED
  BY <1>12, <1>13 DEF IInv

\* Only a client that is not in the queue of reads is added to it.
LEMMA PostponeKeeps ==
    ASSUME IInv, NEW c \in Client, postponeClientRead(c)
    PROVE  IInv'
<1>1. /\ pc \in {"events", "nested"} /\ c \in live /\ PENDING_READ \notin cl[c].flags
      /\ cl' = [cl EXCEPT ![c] = Set(cl[c], PENDING_READ)] /\ pr' = <<c>> \o pr
      /\ UNCHANGED <<live, pc, cur, from, rest, todo, loaded>>
  BY DEF postponeClientRead, Polling, SetClient, mainVars, Has
<1>2. /\ todo = {} /\ TypeInv /\ \A d \in Client : loaded[d] = <<>> /\ RecInv(cl[d], FALSE)
  BY <1>1, NotThreads, Zenon
<1>3. pr \in Seq(Client) /\ rest \in Seq(Client)
  BY <1>2 DEF TypeInv
<1>4. pr' \in Seq(Client) /\ Elements(pr') = Elements(pr) \union {c}
      /\ (Distinct(pr) /\ c \notin Elements(pr) => Distinct(pr'))
  BY <1>1, <1>3, ConsFacts
<1>5. TypeInv'
  BY <1>1, <1>2, <1>4 DEF TypeInv
<1>6. PICK n : n = Set(cl[c], PENDING_READ)
  OBVIOUS
<1>7. RecInv(n, FALSE) /\ PENDING_READ \in n.flags /\ n \in Rec
  BY <1>2, <1>6, SetReadMakes, Zenon DEF RecInv
<1>8. cl \in [Client -> Rec]
  BY DEF IInv, Core, RecordsInv
<1>9. \A d \in Client : cl'[d] = IF d = c THEN n ELSE cl[d]
  BY <1>1, <1>6, <1>8
<1>10. Core'
  <2>1. cl' \in [Client -> Rec]
    BY <1>1, <1>6, <1>7, <1>8
  <2>2. \A d \in Client : RecInv(cl'[d], FALSE)
    BY <1>2, <1>7, <1>9, Zenon
  <2> QED
    BY <1>1, <1>2, <1>5, <2>1, <2>2, QuietStep, Zenon DEF IInv
<1>11. ASSUME Sequential PROVE Order'
  <2>1. FreeInv'
    BY <1>1, <1>9, <1>11 DEF IInv, Order, FreeInv
  <2>2. MainInv'
    BY <1>1, <1>11 DEF IInv, Order, MainInv
  <2>3. QueueInv
    BY <1>11 DEF IInv, Order
  <2>4. todo' \subseteq Elements(pr)'
    BY <1>1, <1>2, <1>4
  <2>5. c \notin Elements(Queue)
    BY <1>1, <2>3 DEF QueueInv
  <2>6. CASE Walking
    <3>1. Queue = rest /\ Queue' = rest /\ Walking' /\ ~NoBusy /\ rest' = rest
      BY <1>1, <1>11, <2>6 DEF Walking, Queue, IInv, Order, MainInv
    <3>2. Elements(rest)' = Elements(rest) /\ Elements(pr)' = Elements(pr) \union {c}
      BY <1>1, <1>4, Zenon DEF Elements
    <3>3. Distinct(rest) /\ \A d \in Elements(rest) : d \in live /\ PENDING_READ \in cl[d].flags /\ d # c
      BY <2>3, <2>5, <3>1 DEF QueueInv
    <3>4. \A d \in Elements(rest) : d \in Client
      BY <1>3 DEF Elements
    <3>5. Elements(rest) \subseteq Elements(pr)
      BY <2>3, <2>6 DEF QueueInv
    <3> QED
      BY ONLY <1>1, <1>9, <2>1, <2>2, <2>4, <3>1, <3>2, <3>3, <3>4, <3>5 DEF Order, QueueInv
  <2>7. CASE ~Walking
    <3>1. Queue = pr /\ Queue' = pr' /\ ~Walking'
      BY <1>1, <2>7 DEF Walking, Queue
    <3>2. Distinct(pr') /\ Elements(Queue)' = Elements(pr) \union {c} /\ Distinct(Queue)'
      <4>1. Distinct(pr) /\ c \notin Elements(pr)
        BY <2>3, <2>5, <3>1 DEF QueueInv
      <4>2. Distinct(pr') /\ Elements(pr') = Elements(pr) \union {c}
        BY <1>4, <4>1
      <4> QED
        BY ONLY <3>1, <4>2, Zenon DEF Distinct, Elements
    <3>3. \A d \in Elements(pr) : d \in live /\ PENDING_READ \in cl[d].flags /\ d \in Client
      BY <1>3, <2>3, <3>1 DEF QueueInv, Elements
    <3>4. NoBusy => \A d \in Client : PENDING_READ \in cl[d].flags => d \in Elements(pr)
      BY <2>3, <3>1 DEF QueueInv
    <3> QED
      BY ONLY <1>1, <1>7, <1>9, <2>1, <2>2, <2>4, <3>1, <3>2, <3>3, <3>4 DEF Order, QueueInv
  <2> QED
    BY <2>6, <2>7
<1> QED
  BY <1>10, <1>11 DEF IInv

LEMMA ReadQueryKeeps ==
    ASSUME IInv, NEW c \in Client, NEW n \in 0..MaxCommands, readQueryFromClient(c, n)
    PROVE  IInv'
<1>1. PICK r : r = Received(cl[c], n)
  OBVIOUS
<1>2. /\ pc \in {"events", "nested"} /\ c \in live /\ UNCHANGED <<live, pr, rest, todo, loaded>>
      /\ \/ /\ pc = "events" /\ cl' = [cl EXCEPT ![c] = r]
            /\ pc' = "input" /\ cur' = c /\ from' = "events"
         \/ /\ cl' = [cl EXCEPT ![c] = IF n > 0 THEN Refuse(r) ELSE r]
            /\ UNCHANGED <<pc, cur, from>>
  BY <1>1 DEF readQueryFromClient, Polling, SetClient, Enter
<1>3. /\ todo = {} /\ TypeInv /\ \A d \in Client : loaded[d] = <<>> /\ RecInv(cl[d], FALSE)
  BY <1>2, NotThreads, Zenon
<1>4. n \in Nat
  BY ClientsAssumption
<1>5. Makes(cl[c], r, FALSE)
  <2>1. RecInv(cl[c], FALSE)
    BY <1>3, Zenon
  <2> QED
    BY <1>1, <1>4, <2>1, ReceivedMakes, FALSE \in BOOLEAN, Zenon
<1>6. Makes(r, Refuse(r), FALSE)
  BY <1>5, RefuseMakes, FALSE \in BOOLEAN, Zenon DEF Makes
<1>7. PICK x : x = IF n > 0 THEN Refuse(r) ELSE r
  OBVIOUS
<1>8. Makes(cl[c], x, FALSE)
  BY <1>5, <1>6, <1>7, Zenon DEF Makes
<1>9. CASE pc = "events" /\ cl' = [cl EXCEPT ![c] = r] /\ pc' = "input" /\ cur' = c /\ from' = "events"
  <2>1. TypeInv' /\ MainInv' /\ (Walking' <=> Walking)
    BY <1>2, <1>3, <1>9 DEF TypeInv, MainInv, Walking, Places, Inside
  <2> QED
    BY <1>2, <1>3, <1>5, <1>9, <2>1, OneClient, Zenon
<1>10. CASE cl' = [cl EXCEPT ![c] = x] /\ UNCHANGED <<pc, cur, from>>
  <2>1. TypeInv' /\ (Sequential => MainInv') /\ (Walking' <=> Walking)
    BY <1>2, <1>3, <1>10 DEF TypeInv, IInv, Order, MainInv, Walking
  <2> QED
    BY <1>2, <1>3, <1>8, <1>10, <2>1, OneClient, Zenon
<1> QED
  BY <1>2, <1>7, <1>9, <1>10

LEMMA SendReplyKeeps ==
    ASSUME IInv, NEW c \in Client, NEW outcome \in WriteOutcomes, sendReplyToClient(c, outcome)
    PROVE  IInv'
<1>1. PICK w : w = writeToClient(cl[c], outcome, TRUE)
  BY Zenon
<1>2. /\ pc \in {"events", "nested"} /\ c \in live /\ cl' = [cl EXCEPT ![c] = w]
      /\ UNCHANGED <<live, pr, pc, cur, from, rest, todo, loaded>>
  BY <1>1 DEF sendReplyToClient, Polling, SetClient, mainVars
<1>3. /\ todo = {} /\ TypeInv /\ \A d \in Client : loaded[d] = <<>> /\ RecInv(cl[d], FALSE)
  BY <1>2, NotThreads, Zenon
<1>4. Makes(cl[c], w, FALSE)
  <2>1. RecInv(cl[c], FALSE)
    BY <1>3, Zenon
  <2> QED
    BY <1>1, <2>1, WriteMakes, FALSE \in BOOLEAN, TRUE \in BOOLEAN, Zenon
<1>5. TypeInv' /\ (Sequential => MainInv') /\ (Walking' <=> Walking)
  BY <1>2, <1>3 DEF TypeInv, IInv, Order, MainInv, Walking
<1> QED
  BY <1>2, <1>3, <1>4, <1>5, OneClient, Zenon

\* Every queued client is written to or gets its handler.
LEMMA WriteAllMakes ==
    ASSUME NEW threaded \in BOOLEAN, IInv, WriteAll(threaded), pc # "threads"
    PROVE  /\ DOMAIN cl' = Client /\ cl' = [c \in Client |-> cl'[c]]
           /\ \A c \in Client : Makes(cl[c], cl'[c], FALSE)
           /\ Sequential => \A c \in Client \ live : cl'[c] = cl[c]
<1>1. PICK outcome \in [Client -> WriteOutcomes], installs \in BOOLEAN :
        cl' = [c \in Client |-> IF cl[c].pw = 0 THEN cl[c]
                                ELSE WriteOrInstall(cl[c], outcome[c], installs, threaded)]
  BY DEF WriteAll
<1>2. \A c \in Client : RecInv(cl[c], FALSE)
  BY NotThreads, Zenon
<1>3. ASSUME NEW c \in Client PROVE Makes(cl[c], cl'[c], FALSE)
  <2>1. CASE cl[c].pw = 0
    BY <1>1, <1>2, <2>1, Zenon DEF Makes
  <2>2. CASE cl[c].pw # 0
    <3>1. cl'[c] = WriteOrInstall(cl[c], outcome[c], installs, threaded)
      BY <1>1, <2>2
    <3>2. outcome[c] \in WriteOutcomes
      BY <1>1
    <3> QED
      BY <1>2, <2>2, <3>1, <3>2, WriteOrInstallMakes, Zenon
  <2> QED
    BY <2>1, <2>2, Zenon
<1>4. ASSUME Sequential, NEW c \in Client \ live PROVE cl'[c] = cl[c]
  <2>1. cl[c].pw = 0
    BY <1>4 DEF IInv, Order, FreeInv, Free
  <2> QED
    BY <1>1, <2>1
<1> QED
  BY <1>1, <1>3, <1>4, Zenon

LEMMA PendingWritesKeeps ==
    ASSUME IInv, handleClientsWithPendingWrites
    PROVE  IInv'
<1>1. /\ pc \in {"nested", "sync"} /\ WriteAll(FALSE)
      /\ pc' = (IF pc = "nested" THEN pc ELSE "events")
      /\ UNCHANGED <<live, pr, cur, from, rest, todo, loaded>>
  BY Zenon DEF handleClientsWithPendingWrites
<1>2. todo = {} /\ TypeInv
  BY <1>1, NotThreads, Zenon
<1>3. /\ DOMAIN cl' = Client /\ cl' = [c \in Client |-> cl'[c]]
      /\ \A c \in Client : Makes(cl[c], cl'[c], FALSE)
      /\ Sequential => \A c \in Client \ live : cl'[c] = cl[c]
  <2>1. pc # "threads"
    BY <1>1
  <2> QED
    BY <1>1, <2>1, WriteAllMakes, FALSE \in BOOLEAN, Zenon
<1>4. TypeInv' /\ (Sequential => MainInv') /\ (Walking' <=> Walking)
  BY <1>1, <1>2 DEF TypeInv, IInv, Order, MainInv, Walking, Inside, Places
<1> QED
  BY <1>1, <1>2, <1>3, <1>4, ManyClients, Zenon

-----------------------------------------------------------------------------
(* Processing what was read.                                               *)

LEMMA InputKeeps ==
    ASSUME IInv, processInputBuffer
    PROVE  IInv'
<1>1. PICK r : r = cl[cur]
  OBVIOUS
<1>2. PICK p : p = [r EXCEPT !.inb = @ - 1]
  BY Zenon
<1>3. /\ pc = "input" /\ UNCHANGED <<live, pr, rest, todo, loaded>>
      /\ \/ pc' = Back /\ cur' = NULL /\ from' = "events" /\ cl' = cl
         \/ /\ cl' = [cl EXCEPT ![cur] = Set(addReply(p), CLOSE_AFTER_REPLY)]
            /\ UNCHANGED <<pc, cur, from>>
         \/ /\ cl' = [cl EXCEPT ![cur] = Set(p, PENDING_COMMAND)]
            /\ UNCHANGED <<pc, cur, from>>
         \/ cl' = [cl EXCEPT ![cur] = p] /\ pc' = "command" /\ UNCHANGED <<cur, from>>
  BY <1>1, <1>2 DEF processInputBuffer, SetClient, Enter
<1>4. /\ todo = {} /\ TypeInv /\ \A d \in Client : loaded[d] = <<>> /\ RecInv(cl[d], FALSE)
  BY <1>3, NotThreads, Zenon
<1>5. cur \in Client /\ (Sequential => cur \in live)
  BY <1>3, <1>4 DEF TypeInv, IInv, Order, MainInv, Inside
<1>6. /\ Makes(r, p, FALSE) /\ Makes(r, Set(p, PENDING_COMMAND), FALSE)
      /\ Makes(r, Set(addReply(p), CLOSE_AFTER_REPLY), FALSE)
  <2>1. RecInv(r, FALSE)
    BY <1>1, <1>4, <1>5, Zenon
  <2> QED
    BY <1>2, <2>1, ParsedMakes, FALSE \in BOOLEAN, Zenon
<1>7. CASE pc' = Back /\ cur' = NULL /\ from' = "events" /\ cl' = cl
  <2>1. pc' \in {"events", "collect", "unblocked"} /\ (pc' = "collect" <=> from = "batch")
    BY <1>4, <1>7 DEF Back, TypeInv
  <2>2. TypeInv' /\ MainInv' /\ (Walking' <=> Walking)
    BY <1>3, <1>4, <1>7, <2>1 DEF TypeInv, MainInv, Walking, Places, Inside
  <2>3. cl \in [Client -> Rec] /\ \A d \in Client : Makes(cl[d], cl[d], FALSE)
    BY <1>4, Zenon DEF IInv, Core, RecordsInv, Makes
  <2>4. /\ DOMAIN cl' = Client /\ cl' = [d \in Client |-> cl'[d]]
        /\ \A d \in Client : cl'[d] = cl[d]
    BY <1>7, <2>3
  <2> QED
    BY <1>3, <1>4, <2>2, <2>3, <2>4, ManyClients, Zenon
<1>8. CASE UNCHANGED <<pc, cur, from>> \/ (pc' = "command" /\ UNCHANGED <<cur, from>>)
  <2>1. TypeInv' /\ (Sequential => MainInv') /\ (Walking' <=> Walking)
    BY <1>3, <1>4, <1>5, <1>8 DEF TypeInv, MainInv, Walking, Places, Inside
  <2>2. CASE cl' = [cl EXCEPT ![cur] = Set(addReply(p), CLOSE_AFTER_REPLY)]
    BY <1>1, <1>3, <1>4, <1>5, <1>6, <2>1, <2>2, OneClient, Zenon
  <2>3. CASE cl' = [cl EXCEPT ![cur] = Set(p, PENDING_COMMAND)]
    BY <1>1, <1>3, <1>4, <1>5, <1>6, <2>1, <2>3, OneClient, Zenon
  <2>4. CASE cl' = [cl EXCEPT ![cur] = p]
    BY <1>1, <1>3, <1>4, <1>5, <1>6, <2>1, <2>4, OneClient, Zenon
  <2>5. CASE cl' = cl
    <3>1. cl' = [cl EXCEPT ![cur] = cl[cur]] /\ Makes(cl[cur], cl[cur], FALSE)
      BY <1>4, <1>5, <2>5, Zenon DEF IInv, Core, RecordsInv, Makes
    <3> QED
      BY <1>3, <1>4, <1>5, <2>1, <3>1, OneClient, Zenon
  <2> QED
    BY <1>3, <2>2, <2>3, <2>4, <2>5
<1> QED
  BY <1>3, <1>7, <1>8

LEMMA CommandFacts ==
    ASSUME IInv, pc \in Inside
    PROVE  /\ todo = {} /\ TypeInv /\ cur \in Client /\ (Sequential => cur \in live)
           /\ \A d \in Client : loaded[d] = <<>> /\ RecInv(cl[d], FALSE)
<1>1. pc # "threads"
  BY DEF Inside
<1>2. todo = {} /\ TypeInv /\ \A d \in Client : loaded[d] = <<>> /\ RecInv(cl[d], FALSE)
  BY <1>1, NotThreads, Zenon
<1> QED
  BY <1>2, Zenon DEF TypeInv, IInv, Order, MainInv

LEMMA OnSelfKeeps ==
    ASSUME IInv, NEW kind \in CommandKinds, CommandOnSelf(kind)
    PROVE  IInv'
<1>1. /\ pc = "command" /\ kind \in Kinds
      /\ pc' = (IF kind = "busy" THEN "nested" ELSE "input")
      /\ UNCHANGED <<live, pr, cur, from, rest, todo, loaded>>
  BY DEF CommandOnSelf, Running
<1>2. pc \in Inside
  BY <1>1 DEF Inside
<1>3. /\ todo = {} /\ TypeInv /\ cur \in Client /\ (Sequential => cur \in live)
      /\ RecInv(cl[cur], FALSE)
  BY <1>2, CommandFacts, Zenon
<1>4. \E n : cl' = [cl EXCEPT ![cur] = n] /\ Makes(cl[cur], n, FALSE)
  <2>1. /\ Makes(cl[cur], addReply(cl[cur]), FALSE)
        /\ Makes(cl[cur], Set(addReply(cl[cur]), CLOSE_AFTER_REPLY), FALSE)
        /\ Makes(cl[cur], Set(cl[cur], BLOCKED), FALSE)
        /\ Makes(cl[cur], Set(cl[cur], REPLY_OFF), FALSE)
        /\ Makes(cl[cur], protectClient(cl[cur]), FALSE)
    <3>1. BLOCKED \in {BLOCKED, PENDING_COMMAND} /\ FALSE \in BOOLEAN
      OBVIOUS
    <3> QED
      BY <1>3, <3>1, AddReplyMakes, CloseAfterMakes, SetNeutralMakes, ReplyOffMakes, ProtectMakes, Zenon
  <2> QED
    BY <2>1, Zenon DEF CommandOnSelf, SetClient
<1>5. TypeInv' /\ (Sequential => MainInv') /\ (Walking' <=> Walking)
  <2>1. TypeInv' /\ (Walking' <=> Walking)
    BY <1>1, <1>3 DEF TypeInv, Walking, Places, Inside
  <2>2. NoBusy /\ pc' = "nested" => from # "batch"
    BY <1>1 DEF Kinds, NoBusy
  <2> QED
    BY <1>1, <1>3, <2>1, <2>2 DEF MainInv
<1> QED
  BY <1>1, <1>3, <1>4, <1>5, OneClient, Zenon

LEMMA EndBusyKeeps ==
    ASSUME IInv, EndBusy
    PROVE  IInv'
<1>1. PICK n : n = addReply(unprotectClient(cl[cur]))
  OBVIOUS
<1>2. /\ pc = "nested" /\ pc' = "input" /\ cl' = [cl EXCEPT ![cur] = n]
      /\ UNCHANGED <<live, pr, cur, from, rest, todo, loaded>>
  BY <1>1 DEF EndBusy, SetClient
<1>3. pc \in Inside
  BY <1>2 DEF Inside
<1>4. /\ todo = {} /\ TypeInv /\ cur \in Client /\ (Sequential => cur \in live)
      /\ RecInv(cl[cur], FALSE)
  BY <1>3, CommandFacts, Zenon
<1>5. Makes(cl[cur], n, FALSE)
  <2>1. Makes(cl[cur], unprotectClient(cl[cur]), FALSE)
    BY <1>4, UnprotectMakes, Zenon
  <2>2. Makes(unprotectClient(cl[cur]), n, FALSE)
    BY <1>1, <2>1, AddReplyMakes, FALSE \in BOOLEAN, Zenon DEF Makes
  <2> QED
    BY <2>1, <2>2, Zenon DEF Makes
<1>6. TypeInv' /\ (Sequential => MainInv') /\ (Walking' <=> Walking)
  BY <1>2, <1>4 DEF TypeInv, MainInv, Walking, Places, Inside
<1> QED
  BY <1>2, <1>4, <1>5, <1>6, OneClient, Zenon

LEMMA TwoClients ==
    ASSUME IInv, todo = {}, TypeInv', UNCHANGED <<live, pr, rest, todo, loaded>>,
           Walking' <=> Walking, Sequential => MainInv',
           NEW c \in Client, NEW d \in Client, c # d, NEW m, NEW n,
           cl' = [cl EXCEPT ![d] = m, ![c] = n], Makes(cl[d], m, FALSE), Makes(cl[c], n, FALSE),
           Sequential => c \in live /\ d \in live
    PROVE  IInv'
<1>1. cl \in [Client -> Rec] /\ m \in Rec /\ n \in Rec
  BY DEF IInv, Core, RecordsInv, Makes, RecInv
<1>2. /\ DOMAIN cl' = Client /\ cl' = [e \in Client |-> cl'[e]]
      /\ \A e \in Client : cl'[e] = IF e = c THEN n ELSE IF e = d THEN m ELSE cl[e]
  BY <1>1, Zenon
<1>3. \A e \in Client : Makes(cl[e], cl[e], FALSE)
  BY QuietFacts, Zenon DEF IInv, Makes
<1>4. \A e \in Client : Makes(cl[e], cl'[e], FALSE)
  BY <1>2, <1>3, Zenon
<1>5. Sequential => \A e \in Client \ live : cl'[e] = cl[e]
  BY <1>2
<1> QED
  BY <1>2, <1>4, <1>5, ManyClients, Zenon

LEMMA OnOtherKeeps ==
    ASSUME IInv, NEW kind \in CommandKinds, NEW d \in Client, CommandOnOther(kind, d)
    PROVE  IInv'
<1>1. /\ pc = "command" /\ d \in live /\ d # cur /\ pc' = "input"
      /\ UNCHANGED <<live, pr, cur, from, rest, todo, loaded>>
  BY DEF CommandOnOther, Running
<1>2. pc \in Inside
  BY <1>1 DEF Inside
<1>3. /\ todo = {} /\ TypeInv /\ cur \in Client /\ (Sequential => cur \in live)
      /\ RecInv(cl[cur], FALSE) /\ RecInv(cl[d], FALSE)
  BY <1>2, CommandFacts, Zenon
<1>4. TypeInv' /\ (Sequential => MainInv') /\ (Walking' <=> Walking)
  BY <1>1, <1>3 DEF TypeInv, MainInv, Walking, Places, Inside
<1>5. Makes(cl[cur], addReply(cl[cur]), FALSE)
  BY <1>3, AddReplyMakes, FALSE \in BOOLEAN, Zenon
<1>6. /\ Makes(cl[d], addReply(cl[d]), FALSE)
      /\ Makes(cl[d], freeClientAsync(addReply(cl[d])), FALSE)
      /\ Makes(cl[d], unblockClient(addReply(cl[d])), FALSE)
  <2>1. Makes(cl[d], addReply(cl[d]), FALSE)
    BY <1>3, AddReplyMakes, FALSE \in BOOLEAN, Zenon
  <2>2. /\ Makes(addReply(cl[d]), freeClientAsync(addReply(cl[d])), FALSE)
        /\ Makes(addReply(cl[d]), unblockClient(addReply(cl[d])), FALSE)
    BY <2>1, FreeAsyncMakes, UnblockMakes, FALSE \in BOOLEAN, Zenon DEF Makes
  <2> QED
    BY <2>1, <2>2, Zenon DEF Makes
<1>7. cl \in [Client -> Rec]
  BY DEF IInv, Core, RecordsInv
<1>8. \E m : /\ Makes(cl[d], m, FALSE)
             /\ cl' = [cl EXCEPT ![d] = m, ![cur] = addReply(cl[cur])]
  <2>1. CASE \E r \in {addReply(cl[d]), freeClientAsync(addReply(cl[d]))} :
               cl' = [cl EXCEPT ![d] = r, ![cur] = addReply(@)]
    <3>1. PICK r \in {addReply(cl[d]), freeClientAsync(addReply(cl[d]))} :
            cl' = [cl EXCEPT ![d] = r, ![cur] = addReply(@)]
      BY <2>1, Zenon
    <3>2. cl' = [cl EXCEPT ![d] = r, ![cur] = addReply(cl[cur])]
      BY <1>1, <1>3, <1>7, <3>1
    <3> QED
      BY <1>6, <3>1, <3>2, Zenon
  <2>2. CASE cl' = [cl EXCEPT ![d] = unblockClient(addReply(@)), ![cur] = addReply(@)]
    <3>1. cl' = [cl EXCEPT ![d] = unblockClient(addReply(cl[d])), ![cur] = addReply(cl[cur])]
      BY <1>1, <1>3, <1>7, <2>2
    <3> QED
      BY <1>6, <3>1, Zenon
  <2> QED
    BY <2>1, <2>2, Zenon DEF CommandOnOther
<1> QED
  BY <1>1, <1>3, <1>4, <1>5, <1>8, TwoClients, Zenon

\* CLIENT KILL takes the client out of every queue that names it.
LEMMA KillKeeps ==
    ASSUME IInv, NEW d \in Client, clientKill(d)
    PROVE  IInv'
<1>1. /\ pc = "command" /\ d \in live /\ d # cur /\ pc' = "input"
      /\ UNCHANGED <<cur, from, todo, loaded>>
  BY DEF clientKill, Running
<1>2. pc \in Inside
  BY <1>1 DEF Inside
<1>3. /\ todo = {} /\ TypeInv /\ cur \in Client /\ (Sequential => cur \in live)
      /\ \A c \in Client : RecInv(cl[c], FALSE)
  BY <1>2, CommandFacts, Zenon
<1>4. cl \in [Client -> Rec] /\ pr \in Seq(Client) /\ rest \in Seq(Client)
  BY <1>3 DEF IInv, Core, RecordsInv, TypeInv
<1>5. PICK a : a = addReply(cl[cur])
  OBVIOUS
<1>6. Makes(cl[cur], a, FALSE)
  BY <1>3, <1>5, AddReplyMakes, FALSE \in BOOLEAN, Zenon
<1>7. Walking' <=> Walking
  BY <1>1 DEF Walking
<1>8. CASE Has(cl[d], PROTECTED)
  <2>1. /\ cl' = [cl EXCEPT ![d] = freeClientAsync(@), ![cur] = addReply(@)]
        /\ UNCHANGED <<live, pr, rest>>
    BY <1>8 DEF clientKill
  <2>2. cl' = [cl EXCEPT ![d] = freeClientAsync(cl[d]), ![cur] = a]
    BY <1>1, <1>3, <1>4, <1>5, <2>1
  <2>3. Makes(cl[d], freeClientAsync(cl[d]), FALSE)
    BY <1>3, FreeAsyncMakes, FALSE \in BOOLEAN, Zenon
  <2>4. TypeInv' /\ (Sequential => MainInv')
    BY <1>1, <1>3, <2>1 DEF TypeInv, MainInv, Places, Inside
  <2> QED
    BY <1>1, <1>3, <1>6, <1>7, <2>1, <2>2, <2>3, <2>4, TwoClients, Zenon
<1>9. CASE ~Has(cl[d], PROTECTED)
  <2>1. /\ cl' = [cl EXCEPT ![d] = Unlinked(@), ![cur] = addReply(@)]
        /\ live' = live \ {d}
        /\ pr' = (IF PENDING_READ \in cl[d].flags THEN Remove(pr, d) ELSE pr)
        /\ rest' = (IF PENDING_READ \in cl[d].flags THEN Remove(rest, d) ELSE rest)
    BY <1>9 DEF clientKill, Has
  <2>2. PICK u : u = Unlinked(cl[d])
    OBVIOUS
  <2>3. \A c \in Client : cl'[c] = IF c = d THEN u ELSE IF c = cur THEN a ELSE cl[c]
    BY <1>1, <1>3, <1>4, <1>5, <2>1, <2>2
  <2>4. RecInv(u, FALSE) /\ u.flags = {} /\ (Sequential => u = Free) /\ u \in Rec
    BY <1>3, <2>2, UnlinkMakes, Zenon DEF RecInv
  <2>5. cl' \in [Client -> Rec] /\ \A c \in Client : RecInv(cl'[c], FALSE)
    <3>1. a \in Rec /\ RecInv(a, FALSE)
      BY <1>6, Zenon DEF Makes, RecInv
    <3>2. DOMAIN cl' = Client /\ cl' = [c \in Client |-> cl'[c]]
      BY <1>4, <2>1, Zenon
    <3>3. \A c \in Client : RecInv(cl'[c], FALSE) /\ cl'[c] \in Rec
      BY <1>3, <1>4, <2>3, <2>4, <3>1, Zenon
    <3> QED
      BY <3>2, <3>3, Zenon
  <2>6. /\ Remove(pr, d) \in Seq(Client) /\ Remove(rest, d) \in Seq(Client)
        /\ Elements(pr) \ {d} \subseteq Elements(Remove(pr, d))
        /\ Elements(Remove(pr, d)) \subseteq Elements(pr)
    BY <1>4, RemoveFacts
  <2>7. TypeInv'
    BY <1>1, <1>3, <2>1, <2>6, Zenon DEF TypeInv, Places, Inside
  <2>8. Core'
    BY <1>1, <1>3, <2>5, <2>7, QuietStep, Zenon DEF IInv
  <2>9. ASSUME Sequential PROVE Order'
    <3>1. FreeInv'
      <4>1. \A c \in Client \ live' : c # d => c \notin live /\ c # cur
        BY <1>3, <2>1, <2>9
      <4> QED
        BY <2>3, <2>4, <2>9, <4>1 DEF IInv, Order, FreeInv
    <3>2. MainInv'
      BY <1>1, <1>3, <2>1, <2>9 DEF MainInv
    <3>3. QueueInv /\ Queue \in Seq(Client)
      BY <1>4, <2>9 DEF IInv, Order, Queue
    <3>4. Distinct(Queue) /\ \A c \in Elements(Queue) : c \in live /\ PENDING_READ \in cl[c].flags
      BY <3>3 DEF QueueInv
    <3>5. Queue' = IF PENDING_READ \in cl[d].flags THEN Remove(Queue, d) ELSE Queue
      BY <1>7, <2>1 DEF Queue
    <3>6. Distinct(Queue') /\ Elements(Queue') = Elements(Queue) \ {d}
      <4>1. CASE PENDING_READ \in cl[d].flags
        BY <3>3, <3>4, <3>5, <4>1, RemoveFacts
      <4>2. CASE PENDING_READ \notin cl[d].flags
        <5>1. Queue' = Queue /\ d \notin Elements(Queue)
          BY <3>4, <3>5, <4>2
        <5>2. Elements(Queue) \ {d} = Elements(Queue)
          BY <5>1
        <5> QED
          BY <3>4, <5>1, <5>2
      <4> QED
        BY <4>1, <4>2
    <3>7. Walking => Elements(rest') \subseteq Elements(pr')
      <4>1. ASSUME Walking PROVE Elements(rest') \subseteq Elements(pr')
        <5>1. Queue = rest /\ Queue' = rest' /\ Elements(rest) \subseteq Elements(pr)
          BY <1>7, <3>3, <4>1 DEF Queue, QueueInv
        <5>2. Elements(pr) \ {d} \subseteq Elements(pr')
          BY <2>1, <2>6
        <5> QED
          BY <3>6, <5>1, <5>2
      <4> QED
        BY <4>1
    <3>8. \A c \in Client : /\ c # d => (PENDING_READ \in cl'[c].flags <=> PENDING_READ \in cl[c].flags)
                            /\ c = d => PENDING_READ \notin cl'[c].flags
      BY <1>6, <2>3, <2>4 DEF Makes
    <3>9. Elements(Queue) \subseteq Client
      BY <3>3 DEF Elements
    <3>10. NoBusy => \A c \in Client : PENDING_READ \in cl[c].flags => c \in Elements(Queue)
      BY <3>3 DEF QueueInv
    <3>11. QueueInv'
      <4>1. Distinct(Queue)' /\ Elements(Queue)' = Elements(Queue) \ {d}
            /\ (Walking' => Elements(rest)' \subseteq Elements(pr)')
        BY ONLY <1>7, <3>6, <3>7, Zenon DEF Distinct, Elements
      <4>2. todo' = {}
        BY <1>1, <1>3
      <4> QED
        BY ONLY <2>1, <3>4, <3>8, <3>9, <3>10, <4>1, <4>2, Zenon DEF QueueInv
    <3> QED
      BY <3>1, <3>2, <3>11 DEF Order
  <2> QED
    BY <2>8, <2>9 DEF IInv
<1> QED
  BY <1>8, <1>9

=============================================================================
