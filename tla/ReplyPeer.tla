----------------------------- MODULE ReplyPeer -----------------------------
(***************************************************************************)
(* The peer of Reply: what it makes of the tokens it receives.              *)
(***************************************************************************)
EXTENDS Reply, SequencesExt

\* What a client of the given protocol makes of a value.
RECURSIVE Seen(_, _)
Seen(resp, v) ==
    LET type == CASE resp = 2 /\ v.type \in Aggregates -> "array"
                  [] resp = 2 /\ v.type = "bool" -> "int"
                  [] resp = 2 /\ v.type \in {"double", "infinity", "longdouble", "verbatim"} -> "bulk"
                  [] resp = 3 /\ v.type \in {"infinity", "longdouble"} -> "double"
                  [] resp = 3 /\ v.type = "nullarray" -> "null"
                  [] OTHER -> v.type
    IN  Value(type, v.id, [i \in 1..Len(v.elements) |-> Seen(resp, v.elements[i])])

\* The peer's decoder: the value at position i and the position after it, which
\* is 0 if the tokens end before the value does.
Incomplete == [value |-> Leaf("none", 0), next |-> 0]

RECURSIVE Decode(_, _), DecodeN(_, _, _)
Decode(tokens, i) ==
    LET t == tokens[i].t
        n == tokens[i].n
        one == [value |-> Leaf(CASE t \in {"$", "*"} -> IF t = "$" THEN "null" ELSE "nullarray"
                                 [] t = "_" -> "null" [] t = ":" -> "int" [] OTHER -> "bool",
                               IF t \in {":", "#"} THEN n ELSE 0), next |-> i + 1]
        line(type) == IF i + 2 <= Len(tokens) /\ tokens[i + 1].t = "data" /\ tokens[i + 2] = End
                      THEN [value |-> Leaf(type, tokens[i + 1].n), next |-> i + 3] ELSE Incomplete
        all(type, k) == LET rest == DecodeN(tokens, i + 1, k)
                        IN  [value |-> Value(type, 0, rest.values), next |-> rest.next]
    IN  IF i > Len(tokens) THEN Incomplete
        ELSE CASE n = -1 \/ t \in {"_", ":", "#"} -> one
               [] t = "+" -> line("status")  [] t = "-" -> line("error")
               [] t = "$" /\ n > 0 -> line("bulk")  [] t = "," -> line("double")
               [] t = "=" -> line("verbatim")
               [] t = "*" /\ n >= 0 -> all("array", n)  [] t = "%" -> all("map", 2 * n)
               [] t = "~" -> all("set", n)  [] t = ">" -> all("push", n)
               [] OTHER -> Incomplete
DecodeN(tokens, i, n) ==
    LET first == Decode(tokens, i)
        rest == DecodeN(tokens, first.next, n - 1)
    IN  IF n = 0 THEN [values |-> <<>>, next |-> i]
        ELSE IF first.next = 0 THEN [values |-> <<>>, next |-> 0]
        ELSE [values |-> <<first.value>> \o rest.values, next |-> rest.next]

\* All that the peer has received or will receive.
Output ==
    LET buffered == c.buf \o FlattenSeq([i \in 1..Len(c.list) |-> c.list[i].tokens])
    IN  wire \o SubSeq(buffered, c.sentlen + 1, Len(buffered))

\* The peer decodes exactly the replies of the commands whose replies are on, in
\* order and with nothing over, whatever way they took through the static buffer,
\* the blocks, the placeholders of deferred lengths and the fake client, and
\* wherever the writes were cut; a RESP2 client is sent no type of RESP3.
PeerSeesReplies ==
    LET seen == DecodeN(Output, 1, Len(replied))
    IN  /\ seen.values = [i \in DOMAIN replied |-> Seen(replied[i].resp, replied[i].value)]
        /\ seen.next = Len(Output) + 1
=============================================================================
