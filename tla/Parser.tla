------------------------------- MODULE Parser ------------------------------
(***************************************************************************)
(* From bytes to commands (networking.c).  read() returns the stream of a    *)
(* connection in pieces of any size; readQueryFromClient appends them to the *)
(* query buffer and processInputBuffer takes as many requests out of it as   *)
(* it can, in the inline or the multibulk format.  A request that is not     *)
(* complete is resumed at the next read, from multibulklen, bulklen and the  *)
(* arguments already made.                                                 *)
(*                                                                         *)
(* A connection is a normal one, whose reads may be done by an I/O thread    *)
(* that parses one command and leaves its execution to the main thread, or   *)
(* the link to the master, whose stream is also forwarded to the replicas    *)
(* as far as it has been applied.                                          *)
(***************************************************************************)
EXTENDS Sds, FiniteSets

CONSTANTS
    Streams,        \* the streams: sequences of frames, see Frame below
    ReadLen,        \* PROTO_IOBUF_LEN
    InlineMax,      \* PROTO_INLINE_MAX_SIZE
    BigArg,         \* PROTO_MBULK_BIG_ARG
    MaxMultibulk,   \* 1024*1024 arguments
    MaxBulk,        \* server.proto_max_bulk_len
    MaxQuerybuf,    \* server.client_max_querybuf_len
    MaxHolds        \* bound: commands with an effect on the connection

VARIABLES
    frames,         \* the stream, as the peer made it
    role,           \* "normal", "master" or "slave"
    gopher,         \* server.gopher_enabled
    unread,         \* bytes the peer has sent and read() not returned
    c,              \* the client: buffer and parsing state
    flags,          \* its flags
    pc,             \* what the server does with it
    executed,       \* the arguments of every command passed to processCommand
    repl,           \* read_reploff, reploff, pending_querybuf of a master link,
                    \* what was forwarded, and prev_offset of the current call
    holds           \* commands that blocked, paused, ... so far

vars == <<frames, role, gopher, unread, c, flags, pc, executed, repl, holds>>

\* A frame: the bytes of a request, the commands it stands for (none or one), its
\* fate ("served", "refused", "either" for a line longer than the limit, which
\* depends on how it is cut, "stalls" for a line that a NUL hides the end of),
\* and whether it is in the inline format.
Frame(bytes, cmds, fate, inline) ==
    [bytes |-> bytes, cmds |-> cmds, fate |-> fate, inline |-> inline]

CRLF == <<"\r", "\n">>
Bytes(fs) == FlattenSeq([i \in 1..Len(fs) |-> fs[i].bytes])
Commands(fs) == FlattenSeq([i \in 1..Len(fs) |-> fs[i].cmds])

NewClient == [querybuf |-> <<>>, qb_pos |-> 0, reqtype |-> "none", multibulklen |-> 0,
              bulklen |-> -1, argv |-> <<>>, asserts |-> TRUE]

Init ==
    /\ frames \in Streams
    /\ role \in {"normal", "master", "slave"}
    /\ gopher \in BOOLEAN
    /\ unread = Bytes(frames)
    /\ c = NewClient
    /\ flags = {}
    /\ pc = "idle"
    /\ executed = <<>>
    /\ repl = [read |-> 0, reploff |-> 0, pending |-> <<>>, forwarded |-> <<>>, prev |-> 0]
    /\ holds = 0

-----------------------------------------------------------------------------
(* The two formats.  Each operator takes the client and returns it with the  *)
(* outcome: "ok" (a request is complete), "again" (more bytes are needed) or *)
(* "error" (a protocol error, answered and followed by the end).             *)

Result(client, outcome) == [client |-> client, outcome |-> outcome]

\* strchr() from qb_pos on: the offset of byte b, or -1 if there is none
\* before the terminator or a NUL.
Find(client, b) ==
    LET rest == CString(sdsrange(client.querybuf, client.qb_pos, -1))
    IN  IF client.qb_pos >= Len(client.querybuf) \/ b \notin ToSet(rest) THEN -1
        ELSE client.qb_pos + SelectInSeq(rest, LAMBDA x : x = b) - 1

Unparsed(client) == Len(client.querybuf) - client.qb_pos

\* The bytes from offset i to before offset j.
Text(client, i, j) == SubSeq(client.querybuf, i + 1, j)

\* Without the end of the line: wait for it, unless too much has come.
NoLine(client) == Result(client, IF Unparsed(client) > InlineMax THEN "error" ELSE "again")

\* processInlineBuffer
processInlineBuffer(client) ==
    LET nl == Find(client, "\n")
        cr == nl > client.qb_pos /\ client.querybuf[nl] = "\r"
        args == sdssplitargs(Text(client, client.qb_pos, IF cr THEN nl - 1 ELSE nl))
    IN  CASE nl = -1 -> NoLine(client)
          [] nl # -1 /\ ~args.ok -> Result(client, "error")
          [] OTHER -> Result([client EXCEPT !.qb_pos = nl + 1,
                                            !.argv = SelectSeq(args.args, LAMBDA a : a # <<>>)], "ok")

\* string2ll (util.c): the set of the number s is, or {}.
Digits == <<"0", "1", "2", "3", "4", "5", "6", "7", "8", "9">>
string2ll(s) ==
    CASE Len(s) = 1 -> {i - 1 : i \in {i \in 1..10 : Digits[i] = s[1]}}
      [] Len(s) = 2 /\ s[1] = "-" -> {1 - i : i \in {i \in 2..10 : Digits[i] = s[2]}}
      [] OTHER -> {}

Whole(client, cr) == cr - client.qb_pos <= Unparsed(client) - 2

\* The trimming of the buffer before a big argument is read.
BeforeBig(client, len) ==
    IF len >= BigArg /\ Unparsed(client) <= len + 2
    THEN [client EXCEPT !.querybuf = sdsrange(@, client.qb_pos, -1), !.qb_pos = 0]
    ELSE client

TakeBulkEagerly(client) ==
    LET len == client.bulklen
        whole == client.qb_pos = 0 /\ len >= BigArg
    IN  [client EXCEPT
            !.argv = Append(@, Text(client, client.qb_pos, client.qb_pos + len)),
            !.querybuf = IF whole THEN <<>> ELSE @,
            !.qb_pos = IF whole THEN 0 ELSE @ + len + 2,
            !.bulklen = -1,
            !.multibulklen = @ - 1]

\* A bulk that fills the buffer takes the buffer over; others are copied.
TakeBulk(client) ==
    LET len == client.bulklen
        whole == client.qb_pos = 0 /\ len >= BigArg /\ Len(client.querybuf) = len + 2
    IN  [client EXCEPT
            !.argv = Append(@, IF whole THEN SubSeq(client.querybuf, 1, len)
                               ELSE Text(client, client.qb_pos, client.qb_pos + len)),
            !.querybuf = IF whole THEN <<>> ELSE @,
            !.qb_pos = IF whole THEN 0 ELSE @ + len + 2,
            !.bulklen = -1,
            !.multibulklen = @ - 1]

\* The loop over the arguments.
RECURSIVE Bulks(_)
Bulks(client) ==
    LET cr == Find(client, "\r")
        lengths == string2ll(Text(client, client.qb_pos + 1, cr)) \cap 0..MaxBulk
        Sized(len) == [BeforeBig([client EXCEPT !.qb_pos = cr + 2], len) EXCEPT !.bulklen = len]
    IN  CASE client.multibulklen = 0 -> Result(client, "ok")
          [] client.multibulklen > 0 /\ client.bulklen = -1 ->
                IF cr = -1 THEN NoLine(client)
                ELSE IF ~Whole(client, cr) THEN Result(client, "again")
                ELSE IF client.querybuf[client.qb_pos + 1] # "$" \/ lengths = {}
                THEN Result(client, "error")
                ELSE Bulks(Sized(CHOOSE len \in lengths : TRUE))
          [] OTHER -> IF Unparsed(client) < client.bulklen + 2 THEN Result(client, "again")
                      ELSE Bulks(TakeBulk(client))

\* processMultibulkBuffer
processMultibulkBuffer(client) ==
    LET cr == Find(client, "\r")
        counts == {n \in string2ll(Text(client, client.qb_pos + 1, cr)) : n <= MaxMultibulk}
        count == CHOOSE n \in counts : TRUE
        fresh == [client EXCEPT !.asserts = @ /\ client.argv = <<>>]
        headed == [fresh EXCEPT !.asserts = @ /\ client.querybuf[client.qb_pos + 1] = "*"]
    IN  IF client.multibulklen > 0 THEN Bulks(client)
        ELSE IF cr = -1 THEN NoLine(fresh)
        ELSE IF ~Whole(client, cr) THEN Result(fresh, "again")
        ELSE IF counts = {} THEN Result(headed, "error")
        ELSE IF count <= 0 THEN Result([headed EXCEPT !.qb_pos = cr + 2], "ok")
        ELSE Bulks([headed EXCEPT !.qb_pos = cr + 2, !.multibulklen = count])

-----------------------------------------------------------------------------
(* Reading and processing.                                                 *)

ResetKeepsArgv(client) ==
    [client EXCEPT !.reqtype = "none", !.multibulklen = 0, !.bulklen = -1]

\* resetClient
resetClient(client) ==
    [client EXCEPT !.argv = <<>>, !.reqtype = "none", !.multibulklen = 0, !.bulklen = -1]

ReadSizeOrZero ==
    LET remaining == c.bulklen + 2 - Len(c.querybuf)
    IN  IF /\ c.reqtype = "multibulk" /\ c.multibulklen > 0
           /\ c.bulklen # -1 /\ c.bulklen >= BigArg /\ remaining \in 0..ReadLen
        THEN remaining ELSE ReadLen

\* readlen of readQueryFromClient: not past a big argument that is being read.
ReadSize ==
    LET remaining == c.bulklen + 2 - Len(c.querybuf)
    IN  IF /\ c.reqtype = "multibulk" /\ c.multibulklen > 0
           /\ c.bulklen # -1 /\ c.bulklen >= BigArg
           /\ remaining > 0 /\ remaining < ReadLen
        THEN remaining ELSE ReadLen

\* readQueryFromClient, in the main thread or in an I/O thread.  No byte means
\* that the peer has closed the connection, or that read() has failed: freeClientAsync.
readQueryFromClient ==
    /\ pc = "idle" /\ "FREED" \notin flags
    /\ \E threaded \in IF role = "normal" THEN BOOLEAN ELSE {FALSE} :
       \E n \in 0..(IF ReadSize < Len(unread) THEN ReadSize ELSE Len(unread)) :
          LET failed == n = 0 /\ unread # <<>> /\ ReadSize # 0
              bytes == SubSeq(unread, 1, n)
              buffer == c.querybuf \o bytes
              freed == n = 0 \/ Len(buffer) > MaxQuerybuf
          IN  /\ unread' = SubSeq(unread, n + 1, Len(unread))
              /\ c' = [c EXCEPT !.querybuf = buffer]
              /\ repl' = IF role # "master" THEN repl
                         ELSE [repl EXCEPT !.read = @ + n, !.pending = @ \o bytes,
                                           !.prev = repl.reploff]
              /\ flags' = flags \cup (IF failed THEN {"FREED", "FAILED"}
                                      ELSE IF freed THEN {"FREED"}
                                      ELSE IF threaded THEN {"PENDING_READ"} ELSE {})
              /\ pc' = IF freed THEN "idle" ELSE "loop"
    /\ UNCHANGED <<frames, role, gopher, executed, holds>>

\* What makes processInputBuffer leave its loop.
Held ==
    \/ "PAUSED" \in flags /\ role # "slave"
    \/ {"BLOCKED", "PENDING_COMMAND", "CLOSE"} \cap flags # {}
    \/ "LUA_TIMEDOUT" \in flags /\ role = "master"

\* A request of the Gopher protocol: an empty line, or one word that is a path.
GopherRequest(client) ==
    /\ gopher /\ client.reqtype = "inline"
    /\ Len(client.argv) = 0 \/ (Len(client.argv) = 1 /\ client.argv[1][1] = "/")

\* setProtocolError: answer with the error, then close.
setProtocolError(fs) == fs \cup {"CLOSE", "ERROR"}

\* One turn of the loop of processInputBuffer, up to the execution of a command.
Parse ==
    /\ pc = "loop" /\ c.qb_pos < Len(c.querybuf) /\ ~Held
    /\ LET star == c.querybuf[c.qb_pos + 1] = "*"
           typed == IF c.reqtype # "none" THEN c
                    ELSE [c EXCEPT !.reqtype = IF star THEN "multibulk" ELSE "inline"]
           parsed == IF typed.reqtype = "inline" THEN processInlineBuffer(typed)
                     ELSE processMultibulkBuffer(typed)
           gophered == parsed.outcome = "ok" /\ GopherRequest(parsed.client)
           ready == parsed.outcome = "ok" /\ ~gophered /\ parsed.client.argv # <<>>
           empty == parsed.outcome = "ok" /\ ~gophered /\ parsed.client.argv = <<>>
       IN  /\ c' = IF gophered \/ empty THEN resetClient(parsed.client) ELSE parsed.client
           /\ flags' = IF parsed.outcome = "error" THEN setProtocolError(flags)
                       ELSE flags \cup (IF gophered THEN {"CLOSE"}
                                        ELSE IF ready /\ "PENDING_READ" \in flags
                                        THEN {"PENDING_COMMAND"} ELSE {})
           /\ pc' = IF parsed.outcome = "again" THEN "leave"
                    ELSE IF ready /\ "PENDING_READ" \notin flags THEN "command" ELSE "loop"
    /\ UNCHANGED <<frames, role, gopher, unread, executed, repl, holds>>

\* What a command may do to the connection it comes from.  Only a replica can be
\* freed while its command runs, by the flush of the replicas' buffers.
Effects ==
    {"none"} \cup (IF "MULTI" \in flags THEN {"exec"} ELSE {})
    \cup (IF holds < MaxHolds /\ "MULTI" \notin flags
          THEN {"multi", "block", "module", "pause", "quit"} \cup (IF role = "slave" THEN {"freed"} ELSE {})
          ELSE {})

FlagsAfter(effect) ==
    CASE effect = "none" -> flags
      [] effect = "multi" -> flags \cup {"MULTI"}
      [] effect = "exec" -> flags \ {"MULTI"}
      [] effect = "block" -> flags \cup {"BLOCKED"}
      [] effect = "module" -> flags \cup {"BLOCKED", "MODULE"}
      [] effect = "pause" -> flags \cup {"PAUSED"}
      [] effect = "quit" -> flags \cup {"CLOSE"}
      [] effect = "freed" -> flags \cup {"FREED"}

AppliedInMulti(effect) ==
    IF role = "master" THEN repl.read - Len(c.querybuf) + c.qb_pos ELSE repl.reploff

\* The offset of the master's stream that has been applied.
AppliedOffset(effect) ==
    IF role = "master" /\ "MULTI" \notin FlagsAfter(effect)
    THEN repl.read - Len(c.querybuf) + c.qb_pos ELSE repl.reploff

\* processCommandAndResetClient.  processCommand fails for QUIT and for a client
\* that was freed; the arguments stay for a module that blocked the client.
processCommandAndResetClient ==
    /\ pc = "command"
    /\ executed' = Append(executed, c.argv)
    /\ \E effect \in Effects :
          /\ flags' = FlagsAfter(effect)
          /\ repl' = IF effect \in {"quit", "freed"} THEN repl
                     ELSE [repl EXCEPT !.reploff = AppliedOffset(effect)]
          /\ c' = IF effect \in {"quit", "freed", "module"} THEN c ELSE resetClient(c)
          /\ pc' = IF effect = "freed" THEN "idle" ELSE "loop"
          /\ holds' = IF effect \in {"none", "exec"} THEN holds ELSE holds + 1
    /\ UNCHANGED <<frames, role, gopher, unread>>

\* The end of processInputBuffer, where the buffer is trimmed, and of
\* processInputBufferAndReplicate, where the part of the master's stream that
\* was applied is forwarded.
Leave ==
    /\ pc = "leave" \/ (pc = "loop" /\ (c.qb_pos = Len(c.querybuf) \/ Held))
    /\ c' = [c EXCEPT !.querybuf = sdsrange(@, c.qb_pos, -1), !.qb_pos = 0]
    /\ LET applied == repl.reploff - repl.prev
       IN  repl' = IF role # "master" \/ applied = 0 THEN repl
                   ELSE [repl EXCEPT !.forwarded = @ \o SubSeq(repl.pending, 1, applied),
                                     !.pending = sdsrange(@, applied, -1)]
    /\ pc' = IF "PENDING_READ" \in flags THEN "collect" ELSE "idle"
    /\ UNCHANGED <<frames, role, gopher, unread, flags, executed, holds>>

\* The main thread's part for a client an I/O thread has read from
\* (handleClientsWithPendingReadsUsingThreads).
Collect ==
    /\ pc = "collect"
    /\ flags' = flags \ {"PENDING_READ", "PENDING_COMMAND"}
    /\ pc' = IF "PENDING_COMMAND" \in flags THEN "command" ELSE "loop"
    /\ UNCHANGED <<frames, role, gopher, unread, c, executed, repl, holds>>

-----------------------------------------------------------------------------
(* The rest of the server.                                                 *)

\* A command of another client pauses the clients, or its script times out.
OtherClient(flag) ==
    /\ pc \in {"idle", "collect"} /\ holds < MaxHolds
    /\ {flag, "FREED"} \cap flags = {}
    /\ flags' = flags \cup {flag}
    /\ holds' = holds + 1
    /\ UNCHANGED <<frames, role, gopher, unread, c, pc, executed, repl>>

\* The client is processed again (processUnblockedClients): at once, if it has
\* a query in its buffer.
Resume(client) ==
    /\ c' = client
    /\ pc' = IF client.querybuf # <<>> THEN "loop" ELSE "idle"
    /\ repl' = [repl EXCEPT !.prev = repl.reploff]
    /\ UNCHANGED <<frames, role, gopher, unread, executed, holds>>

\* unblockClient; a client blocked by a module is reset only now.
Unblock ==
    /\ pc = "idle" /\ "BLOCKED" \in flags /\ "FREED" \notin flags
    /\ flags' = flags \ {"BLOCKED", "MODULE"}
    /\ Resume(IF "MODULE" \in flags THEN resetClient(c) ELSE c)

EndUnnoticed(flag) ==
    /\ pc = "idle" /\ flag \in flags /\ "FREED" \notin flags
    /\ flags' = flags \ {flag}
    /\ UNCHANGED <<frames, role, gopher, unread, c, pc, executed, repl, holds>>

\* The pause ends: clientsArePaused queues all clients but replicas and blocked ones.
\* The script ends: the link to the master is queued.
EndOf(flag) ==
    /\ pc = "idle" /\ flag \in flags /\ "FREED" \notin flags
    /\ flags' = flags \ {flag}
    /\ IF "BLOCKED" \in flags \/ role = (IF flag = "PAUSED" THEN "slave" ELSE "normal")
       THEN UNCHANGED <<frames, role, gopher, unread, c, pc, executed, repl, holds>>
       ELSE Resume(c)

\* The client is gone.
Freed == pc = "idle" /\ "FREED" \in flags /\ UNCHANGED vars

Next ==
    \/ readQueryFromClient \/ Parse \/ processCommandAndResetClient \/ Leave \/ Collect
    \/ OtherClient("PAUSED") \/ OtherClient("LUA_TIMEDOUT")
    \/ EndOf("PAUSED") \/ EndOf("LUA_TIMEDOUT")
    \/ Unblock \/ Freed

Spec == Init /\ [][Next]_vars

-----------------------------------------------------------------------------
(* Properties.                                                             *)

\* The frames before the first that is refused, stalls, or is answered as Gopher.
Served ==
    LET Stops(f) == \/ f.fate \in {"refused", "stalls"}
                    \/ gopher /\ f.inline /\ (f.cmds = <<>> \/ f.cmds = <<<<<<"/">>>>>>)
        stop == SelectInSeq(frames, Stops)
    IN  IF stop = 0 THEN frames ELSE SubSeq(frames, 1, stop - 1)

\* However the stream is cut into reads, whoever reads it, and wherever the
\* processing is held up and resumed, the commands that run are the ones the
\* peer sent, whole and in order.
CommandsAsSent ==
    IsPrefix(executed \o (IF "PENDING_COMMAND" \in flags THEN <<c.argv>> ELSE <<>>),
             Commands(Served))

\* Nothing is left in the buffer: once all was read and nothing holds the
\* client, every command has run.  A request that is not well formed has been
\* refused by then.
NothingLeftBehind ==
    pc = "idle" /\ unread = <<>> /\ flags \subseteq {"MULTI"} =>
        /\ executed = Commands(Served)
        /\ \A i \in DOMAIN frames : frames[i].fate \in {"refused", "stalls"} => i > Len(Served)
        /\ Len(Served) < Len(frames) => frames[Len(Served) + 1].fate = "stalls"

\* A connection is given up with a cause.  A protocol error is only found in a
\* request that is not well formed, or in a line beyond the limit, and only after
\* all requests before it have run.  Without one, a client is freed when its peer
\* has closed the connection, when read() fails, when its buffer is too long, or as a
\* replica.
ClosedWithCause ==
    /\ "ERROR" \in flags =>
        \E i \in DOMAIN frames : /\ frames[i].fate \in {"refused", "either", "stalls"}
                                 /\ executed = Commands(SubSeq(frames, 1, i - 1))
    /\ "FREED" \in flags /\ "FAILED" \notin flags =>
        unread = <<>> \/ Len(c.querybuf) > MaxQuerybuf \/ role = "slave"

\* A master's offset, the stream forwarded to the replicas and the bytes kept
\* for forwarding describe the same point: the end of the last command that was
\* applied, or the beginning of an open transaction.
OffsetIsApplied ==
    role = "master" /\ pc = "idle" =>
        LET sent == Bytes(frames)
        IN  /\ repl.forwarded = SubSeq(sent, 1, repl.reploff)
            /\ repl.pending = SubSeq(sent, repl.reploff + 1, repl.read)
            /\ "CLOSE" \notin flags =>
                 \E i \in 0..Len(frames) :
                    LET applied == Commands(SubSeq(frames, 1, i))
                    IN  /\ repl.reploff = Len(Bytes(SubSeq(frames, 1, i)))
                        /\ IsPrefix(applied, executed)
                        /\ executed = applied <=> "MULTI" \notin flags

\* The assertions of processMultibulkBuffer: no argument is left over when a
\* request begins, and a multibulk request begins with '*'.
ParserAssertsHold == c.asserts
=============================================================================
