------------------------------- MODULE Reply -------------------------------
(***************************************************************************)
(* From replies to bytes (networking.c).  A command builds its reply with    *)
(* calls of the addReply family.  Each appends a piece to the client's       *)
(* static buffer or, once that is full, to a list of blocks; the length of   *)
(* an aggregate that is not known in advance is left out and filled in later *)
(* (addReplyDeferredLen).  writeToClient sends what the socket takes.  The   *)
(* size of the list is limited, at once or over time.                        *)
(*                                                                         *)
(* The unit of the model is a token: the header of a reply ("*2", "$1",      *)
(* ":7"), a byte of data, or the end of a line.                              *)
(***************************************************************************)
EXTENDS Integers, Sequences, FiniteSetsExt

CONSTANTS
    Kinds,          \* the replies commands make: types of Value, "deferred ..."
    Actions,        \* the other commands: "HELLO", "ON", "OFF", "SKIP", "QUIT", "MODULE"
    Sentinel,       \* server.sentinel_mode
    BufSize,        \* PROTO_REPLY_CHUNK_BYTES, of the static buffer
    Chunk,          \* PROTO_REPLY_CHUNK_BYTES, of a block
    GlueMax,        \* PROTO_REPLY_CHUNK_BYTES * 4, the most that is moved for a length
    ItemSize,       \* sizeof(listNode) + sizeof(clientReplyBlock)
    Limits,         \* client_obuf_limits: [hard, soft, seconds], 0 for no limit
    Align,          \* the allocator rounds sizes up to a multiple of this
    MaxCommands,    \* bound on the commands
    MaxTime         \* bound on server.unixtime

\* The types of values.
Aggregates == {"array", "map", "set", "push"}
Leaves == {"status", "error", "int", "bulk", "null", "nullarray", "bool", "double", "infinity",
           "longdouble", "verbatim"}

ASSUME ReplyAssumption ==
    /\ Kinds \subseteq Aggregates \cup Leaves \cup {"help"}
    /\ {BufSize, Chunk, Align} \subseteq Nat \ {0}
    /\ {GlueMax, ItemSize} \subseteq Nat
    /\ Limits \subseteq [hard : Nat, soft : Nat, seconds : Nat]

VARIABLES
    c,          \* the client
    limit,      \* the limits of the client's class
    wire,       \* the tokens the peer has received
    replied,    \* the replies the peer is to see: a value and the protocol
    mute,       \* what CLIENT REPLY asked for: 0, -1 for OFF, or the command to skip
    ncmd,       \* commands executed
    last,       \* the kind of the last command that added to the buffers
    now,        \* server.unixtime
    above       \* since when the buffer has been at the soft limit; 0 if it is not

vars == <<c, limit, wire, replied, mute, ncmd, last, now, above>>

-----------------------------------------------------------------------------
(* Values and their encoding.                                              *)

\* A value: its type, an identification, and the elements of an aggregate.
Value(type, id, elements) == [type |-> type, id |-> id, elements |-> elements]
Leaf(type, id) == Value(type, id, <<>>)

Token(t, n) == [t |-> t, n |-> n]
End == Token("\r\n", 0)

\* The length that is announced: a map has half as many pairs as elements.
Length(v) == IF v.type = "map" THEN Len(v.elements) \div 2 ELSE Len(v.elements)

-----------------------------------------------------------------------------
(* The output buffers.                                                     *)

NewClient(flags) ==
    [buf |-> <<>>, list |-> <<>>, sentlen |-> 0, reply_bytes |-> 0, softtime |-> 0,
     resp |-> 2, flags |-> flags]

Block(size, tokens) == [null |-> FALSE, size |-> size, tokens |-> tokens]
Placeholder == [null |-> TRUE, size |-> 0, tokens |-> <<>>]

\* zmalloc_usable: the size of a block for n tokens
Usable(n) == Align * ((n + Align - 1) \div Align)

\* getClientOutputBufferMemoryUsage
Memory(cl) == cl.reply_bytes + ItemSize * Len(cl.list)

\* checkClientOutputBufferLimits: obuf_soft_limit_reached_time after the check, and
\* whether a limit has been reached.
LimitNotIncluded(cl) ==
    LET hard == limit.hard # 0 /\ Memory(cl) > limit.hard
        soft == limit.soft # 0 /\ Memory(cl) >= limit.soft
    IN  [time |-> IF ~soft THEN 0 ELSE IF cl.softtime = 0 THEN now ELSE cl.softtime,
         reached |-> hard \/ (soft /\ cl.softtime # 0 /\ now - cl.softtime > limit.seconds)]

checkClientOutputBufferLimits(cl) ==
    LET hard == limit.hard # 0 /\ Memory(cl) >= limit.hard
        soft == limit.soft # 0 /\ Memory(cl) >= limit.soft
    IN  [time |-> IF ~soft THEN 0 ELSE IF cl.softtime = 0 THEN now ELSE cl.softtime,
         reached |-> hard \/ (soft /\ cl.softtime # 0 /\ now - cl.softtime > limit.seconds)]

\* asyncCloseClientOnOutputBufferLimitReached; a fake client has no limits.
CheckLimits(cl) ==
    LET check == checkClientOutputBufferLimits(cl)
    IN  IF "MODULE" \in cl.flags \/ cl.reply_bytes = 0 \/ "CLOSE_ASAP" \in cl.flags THEN cl
        ELSE [cl EXCEPT !.softtime = check.time,
                        !.flags = @ \cup (IF check.reached THEN {"CLOSE_ASAP"} ELSE {})]

\* prepareClientToWrite
MayWrite(cl) == "MODULE" \in cl.flags \/ {"REPLY_OFF", "REPLY_SKIP"} \cap cl.flags = {}

\* _addReplyProtoToList: fill the tail, then add a block for the rest.
_addReplyProtoToList(cl, tokens) ==
    LET n == Len(cl.list)
        tail == cl.list[n]
        room == IF n = 0 THEN 0 ELSE tail.size - Len(tail.tokens)
        copied == IF room < Len(tokens) THEN room ELSE Len(tokens)
        rest == SubSeq(tokens, copied + 1, Len(tokens))
        size == Usable(IF Len(rest) < Chunk THEN Chunk ELSE Len(rest))
        filled == IF copied = 0 THEN cl.list
                  ELSE [cl.list EXCEPT ![n].tokens = @ \o SubSeq(tokens, 1, copied)]
    IN  CheckLimits(IF rest = <<>> THEN [cl EXCEPT !.list = filled]
                    ELSE [cl EXCEPT !.list = Append(filled, Block(size, rest)),
                                    !.reply_bytes = @ + size])

\* addReplyProto: into the static buffer, unless the list is in use.
StaticFirst(cl, tokens) ==
    CASE ~MayWrite(cl) \/ "CLOSE_AFTER_REPLY" \in cl.flags -> cl
      [] OTHER -> IF Len(cl.buf) + Len(tokens) <= BufSize
                  THEN [cl EXCEPT !.buf = @ \o tokens]
                  ELSE _addReplyProtoToList(cl, tokens)

addReplyProto(cl, tokens) ==
    CASE ~MayWrite(cl) \/ "CLOSE_AFTER_REPLY" \in cl.flags -> cl
      [] OTHER -> IF cl.list = <<>> /\ Len(cl.buf) + Len(tokens) <= BufSize
                  THEN [cl EXCEPT !.buf = @ \o tokens]
                  ELSE _addReplyProtoToList(cl, tokens)

\* addReplyDeferredLen
addReplyDeferredLen(cl) ==
    IF MayWrite(cl) THEN [cl EXCEPT !.list = Append(@, Placeholder)] ELSE cl

\* setDeferredAggregateLen, for the placeholder added last: put the length in
\* front of the next block if there is room, else make it a block.
setDeferredAggregateLen(cl, tokens) ==
    LET nulls == {i \in DOMAIN cl.list : cl.list[i].null}
        node == Max(nulls)
        next == cl.list[node + 1]
        glue == /\ node < Len(cl.list)
                /\ next.size - Len(next.tokens) >= Len(tokens)
                /\ Len(next.tokens) < GlueMax
    IN  IF nulls = {} THEN cl
        ELSE CheckLimits(
                IF glue THEN [cl EXCEPT !.list =
                                SubSeq(@, 1, node - 1)
                                \o <<[next EXCEPT !.tokens = tokens \o @]>>
                                \o SubSeq(@, node + 2, Len(@))]
                ELSE [cl EXCEPT !.list[node] = Block(Usable(Len(tokens)), tokens),
                                !.reply_bytes = @ + Usable(Len(tokens))])

-----------------------------------------------------------------------------
(* The addReply family.                                                    *)

\* A header, data and the end of the line, one call each: addReplyErrorLength,
\* addReplyStatusLength, addReplyBulk, addReplyBulkCBuffer, addReplyBulkSds.
addReplyParts(cl, header, id) ==
    addReplyProto(addReplyProto(addReplyProto(cl, <<header>>), <<Token("data", id)>>), <<End>>)

addReplyBulk(cl, id) == addReplyParts(cl, Token("$", 1), id)

\* addReply(shared.ok)
addReplyOk(cl) == addReplyProto(cl, <<Token("+", 0), Token("data", 0), End>>)

\* For a finite number and for an infinite one.
addReplyDouble(cl, id) ==
    addReplyProto(cl, <<Token(IF cl.resp = 2 THEN "$" ELSE ",", 1), Token("data", id), End>>)
addReplyInfinity(cl, id) == IF cl.resp = 2 THEN addReplyBulk(cl, id) ELSE addReplyDouble(cl, id)

addReplyHumanLongDouble(cl, id) ==
    addReplyParts(cl, Token(IF cl.resp = 2 THEN "$" ELSE ",", 1), id)

addReplyVerbatim(cl, id) == addReplyParts(cl, Token(IF cl.resp = 2 THEN "$" ELSE "=", 1), id)

\* addReplyNull, addReplyNullArray
addReplyNull(cl, t) == addReplyProto(cl, <<IF cl.resp = 2 THEN Token(t, -1) ELSE Token("_", 0)>>)

addReplyBool(cl, id) == addReplyProto(cl, <<Token(IF cl.resp = 2 THEN ":" ELSE "#", id)>>)

addReplyLongLong(cl, id) == addReplyProto(cl, <<Token(":", id)>>)

addReplyLeaf(cl, v) ==
    CASE v.type = "status" -> addReplyParts(cl, Token("+", 0), v.id)
      [] v.type = "error" -> addReplyParts(cl, Token("-", 0), v.id)
      [] v.type = "int" -> addReplyLongLong(cl, v.id)
      [] v.type = "bulk" -> addReplyBulk(cl, v.id)
      [] v.type = "null" -> addReplyNull(cl, "$")
      [] v.type = "nullarray" -> addReplyNull(cl, "*")
      [] v.type = "bool" -> addReplyBool(cl, v.id)
      [] v.type = "double" -> addReplyDouble(cl, v.id)
      [] v.type = "infinity" -> addReplyInfinity(cl, v.id)
      [] v.type = "longdouble" -> addReplyHumanLongDouble(cl, v.id)
      [] v.type = "verbatim" -> addReplyVerbatim(cl, v.id)

\* addReplyArrayLen, addReplyMapLen, addReplySetLen, addReplyPushLen: the header for n elements,
\* which are pairs in a map.
AggregateLen(resp, type, n) ==
    CASE type = "map" -> IF resp = 2 THEN Token("*", 2 * n) ELSE Token("%", n)
      [] type = "set" -> Token(IF resp = 2 THEN "*" ELSE "~", n)
      [] type = "push" -> Token(IF resp = 2 THEN "*" ELSE ">", n)
      [] type = "array" -> Token("*", n)

\* setDeferredArrayLen, setDeferredMapLen, setDeferredSetLen, setDeferredPushLen
DeferredLen(resp, type, n) == AggregateLen(resp, type, n)

\* The start and the end of an aggregate.
Open(cl, v, deferred) ==
    IF deferred THEN addReplyDeferredLen(cl)
    ELSE addReplyProto(cl, <<AggregateLen(cl.resp, v.type, Length(v))>>)

Close(cl, v, deferred) ==
    IF deferred THEN setDeferredAggregateLen(cl, <<DeferredLen(cl.resp, v.type, Length(v))>>)
    ELSE cl

\* The elements of an aggregate: leaves, and aggregates without elements.
addReplyElement(cl, v, deferred) ==
    IF v.type \in Aggregates THEN Close(Open(cl, v, deferred), v, deferred)
    ELSE addReplyLeaf(cl, v)

addReplyElements(cl, elements, deferred) ==
    LET after[i \in 0..Len(elements)] ==
            IF i = 0 THEN cl ELSE addReplyElement(after[i - 1], elements[i], deferred)
    IN  after[Len(elements)]

\* The calls that reply with v.
addReplyValue(cl, v, deferred) ==
    IF v.type \in Aggregates
    THEN Close(addReplyElements(Open(cl, v, deferred), v.elements, deferred), v, deferred)
    ELSE addReplyLeaf(cl, v)

-----------------------------------------------------------------------------
(* Commands.                                                               *)

\* The reply of command k: one value of the given kind; "help" is that of
\* addReplyHelp, the lines of a subcommand HELP.
Sample(kind, k) ==
    CASE kind = "array" -> Value("array", 0, <<Leaf("longdouble", k), Leaf("nullarray", 0)>>)
      [] kind = "map" -> Value("map", 0, <<Leaf("int", k), Leaf("bool", 1)>>)
      [] kind = "set" -> Value("set", 0, <<Leaf("null", 0), Leaf("verbatim", k)>>)
      [] kind = "push" -> Value("push", 0, <<Leaf("error", k), Value("map", 0, <<>>)>>)
      [] kind = "help" -> Value("array", 0, <<Leaf("status", k), Leaf("status", 0)>>)
      [] OTHER -> Leaf(kind, IF kind \in {"null", "nullarray"} THEN 0 ELSE k)

Silent == mute \in {-1, ncmd + 1}

\* resetClient, after every command: the flags of CLIENT REPLY SKIP move on.
resetClient(cl) ==
    [cl EXCEPT !.flags = (@ \ {"REPLY_SKIP", "REPLY_SKIP_NEXT"})
                         \cup (IF "REPLY_SKIP_NEXT" \in @ THEN {"REPLY_SKIP"} ELSE {})]

\* A command leaves the client as cl; the peer is to see the given values.
Execute(kind, cl, values) ==
    /\ ncmd < MaxCommands
    /\ {"CLOSE_AFTER_REPLY", "CLOSE_ASAP"} \cap c.flags = {}
    /\ c' = resetClient(cl)
    /\ replied' = replied \o values
    /\ ncmd' = ncmd + 1
    /\ last' = IF cl.buf = c.buf /\ cl.list = c.list THEN last ELSE kind
    /\ above' = IF limit.soft = 0 \/ Memory(cl) < limit.soft THEN 0
                ELSE IF above = 0 THEN now ELSE above
    /\ UNCHANGED <<limit, wire, now>>

Unless(silent, resp, v) == IF silent THEN <<>> ELSE <<[resp |-> resp, value |-> v]>>

\* A command that replies with one value.
Command ==
    \E kind \in Kinds, deferred \in BOOLEAN :
        LET v == Sample(kind, ncmd + 1)
        IN  /\ deferred => v.type \in Aggregates
            /\ kind = "help" => deferred
            /\ Execute(kind, addReplyValue(c, v, deferred), Unless(Silent, c.resp, v))
            /\ UNCHANGED mute

\* CLIENT REPLY ON, OFF and SKIP (clientCommand).
clientReply ==
    \/ /\ "ON" \in Actions
       /\ LET on == [c EXCEPT !.flags = @ \ {"REPLY_SKIP", "REPLY_OFF"}]
          IN  Execute("ON", addReplyOk(on), Unless(FALSE, c.resp, Leaf("status", 0)))
       /\ mute' = 0
    \/ /\ "OFF" \in Actions
       /\ Execute("OFF", [c EXCEPT !.flags = @ \cup {"REPLY_OFF"}], <<>>)
       /\ mute' = -1
    \/ /\ "SKIP" \in Actions
       /\ Execute("SKIP", IF "REPLY_OFF" \in c.flags THEN c
                          ELSE [c EXCEPT !.flags = @ \cup {"REPLY_SKIP_NEXT"}], <<>>)
       /\ mute' = IF mute = -1 THEN mute ELSE ncmd + 2

\* helloCommand: the protocol is switched before the reply is made.  The pairs
\* server, version and id are left out, in the reply and in its length of 7.
Text == [proto |-> 11, mode |-> 12, sentinel |-> 13, standalone |-> 14, role |-> 15,
         master |-> 16, modules |-> 17]

HelloPairs ==
    LET B(id) == Leaf("bulk", id)
    IN  <<B(Text.proto), Leaf("int", 3), B(Text.mode)>>
        \o (IF Sentinel THEN <<B(Text.sentinel)>> ELSE <<>>) \o <<B(Text.standalone)>>
        \o (IF Sentinel THEN <<>> ELSE <<B(Text.role), B(Text.master)>>)
        \o <<B(Text.modules), Value("array", 0, <<>>)>>

HelloValue ==
    LET B(id) == Leaf("bulk", id)
    IN  Value("map", 0,
              <<B(Text.proto), Leaf("int", 3),
                B(Text.mode), B(IF Sentinel THEN Text.sentinel ELSE Text.standalone)>>
              \o (IF Sentinel THEN <<>> ELSE <<B(Text.role), B(Text.master)>>)
              \o <<B(Text.modules), Value("array", 0, <<>>)>>)

helloCommand ==
    /\ "HELLO" \in Actions
    /\ \E resp \in {2, 3} :
          LET header == addReplyProto([c EXCEPT !.resp = resp],
                                      <<AggregateLen(resp, "map", 7 - 3)>>)
          IN  Execute("HELLO", addReplyElements(header, HelloPairs, FALSE),
                      Unless(Silent, resp, HelloValue))
    /\ UNCHANGED mute

\* QUIT: the connection is closed once the reply is written.
Quit ==
    /\ "QUIT" \in Actions
    /\ LET after == addReplyOk(c)
       IN  Execute("QUIT", [after EXCEPT !.flags = @ \cup {"CLOSE_AFTER_REPLY"}],
                   Unless(Silent, c.resp, Leaf("status", 0)))
    /\ UNCHANGED mute

\* AddReplyFromClient: what the fake client collected is moved to the client.
AddReplyFromClient(dst, src) ==
    LET moved == addReplyProto(dst, src.buf)
    IN  IF ~MayWrite(dst) THEN dst
        ELSE [moved EXCEPT !.list = @ \o src.list, !.reply_bytes = @ + src.reply_bytes]

\* A module replies through a fake client, and then unblocks the client.
ModuleReply ==
    /\ "MODULE" \in Actions
    /\ \E kind \in Kinds :
          LET v == Sample(kind, ncmd + 1)
              fake == [NewClient({"MODULE"}) EXCEPT !.resp = c.resp]
          IN  Execute("MODULE",
                      AddReplyFromClient(c, addReplyValue(fake, v, FALSE)),
                      Unless(Silent, c.resp, v))
    /\ UNCHANGED mute

-----------------------------------------------------------------------------
(* Writing.                                                                *)

Pending(cl) == cl.buf # <<>> \/ cl.list # <<>>

\* The list without its head, which has been sent.
DropHeadUsed(cl) ==
    [cl EXCEPT !.list = Tail(@), !.sentlen = 0, !.reply_bytes = @ - Len(cl.list[1].tokens)]

DropHead(cl) ==
    [cl EXCEPT !.list = Tail(@), !.sentlen = 0, !.reply_bytes = @ - cl.list[1].size]

\* What the next write() is given: the rest of the buffer, or of the first block.
Unsent(cl) ==
    LET tokens == IF cl.buf # <<>> THEN cl.buf ELSE cl.list[1].tokens
    IN  SubSeq(tokens, cl.sentlen + 1, Len(tokens))

\* The client after write() has taken n tokens.
Sent(cl, n) ==
    IF n < Len(Unsent(cl)) THEN [cl EXCEPT !.sentlen = @ + n]
    ELSE IF cl.buf # <<>> THEN [cl EXCEPT !.buf = <<>>, !.sentlen = 0]
    ELSE DropHead(cl)

\* One write() of writeToClient.  The loop may end after any of them: the socket
\* is full, or enough was sent for one event.
writeToClient ==
    /\ Pending(c)
    /\ \E n \in {1, Len(Unsent(c))} :
          LET after == Sent(c, n)
          IN  /\ wire' = wire \o SubSeq(Unsent(c), 1, n)
              /\ c' = IF Pending(after) THEN after
                      ELSE [after EXCEPT !.sentlen = 0,
                                         !.flags = @ \cup (IF "CLOSE_AFTER_REPLY" \in @
                                                           THEN {"CLOSE_ASAP"} ELSE {})]
              /\ above' = IF Memory(after) < limit.soft THEN 0 ELSE above
    /\ UNCHANGED <<limit, replied, mute, ncmd, last, now>>

\* The clock of the soft limit; nothing else here reads it.
Tick ==
    /\ limit.soft # 0 /\ now < MaxTime
    /\ now' = now + 1
    /\ UNCHANGED <<c, limit, wire, replied, mute, ncmd, last, above>>

\* All commands have run and their replies are sent.
Finished ==
    /\ ~Pending(c) /\ (limit.soft = 0 \/ now = MaxTime)
    /\ ncmd = MaxCommands \/ {"CLOSE_AFTER_REPLY", "CLOSE_ASAP"} \cap c.flags # {}
    /\ UNCHANGED vars

Init ==
    /\ c = NewClient({})
    /\ limit \in Limits
    /\ wire = <<>> /\ replied = <<>>
    /\ mute = 0 /\ ncmd = 0 /\ last = "none"
    /\ now = 1 /\ above = 0

Next ==
    \/ Command \/ clientReply \/ helloCommand \/ Quit \/ ModuleReply
    \/ writeToClient \/ Tick \/ Finished

Spec == Init /\ [][Next]_vars

-----------------------------------------------------------------------------
(* Properties.                                                             *)

\* The memory of the blocks of a list.
Bytes(list) ==
    LET sum[i \in 0..Len(list)] == IF i = 0 THEN 0 ELSE sum[i - 1] + list[i].size
    IN  sum[Len(list)]

\* reply_bytes is the size of the blocks in the list, so that it is 0 when the list
\* is empty (asserted in writeToClient), and no placeholder survives a command.
ReplyBytesExact ==
    /\ c.reply_bytes = Bytes(c.list)
    /\ \A i \in DOMAIN c.list : ~c.list[i].null /\ c.list[i].tokens # <<>>

\* The hard limit: the client is on its way out when its memory reaches it, unless
\* the reply came from a module and nothing was added since.
HardLimitCloses ==
    limit.hard # 0 /\ Memory(c) >= limit.hard => "CLOSE_ASAP" \in c.flags \/ last = "MODULE"

\* The soft limit: a client is only closed for it after its buffer has been at the
\* limit continuously for the given number of seconds.
SoftLimitContinuous ==
    /\ "CLOSE_ASAP" \in c.flags /\ "CLOSE_AFTER_REPLY" \notin c.flags
    /\ limit.hard = 0 \/ Memory(c) < limit.hard
    => above # 0 /\ now - above > limit.seconds
=============================================================================
