----------------------------- MODULE MCParser ------------------------------
(* Parser for TLC: the peer encodes its commands.                           *)
EXTENDS Parser

Number(n) == <<Digits[n + 1]>>
Bulk(arg) == <<"$">> \o Number(Len(arg)) \o CRLF \o arg \o CRLF
Multibulk(args) ==
    Frame(<<"*">> \o Number(Len(args)) \o CRLF
              \o FlattenSeq([i \in 1..Len(args) |-> Bulk(args[i])]),
          <<args>>, "served", FALSE)

Line(text, end, args) ==
    Frame(text \o end, IF args = <<>> THEN <<>> ELSE <<args>>,
          IF Len(text \o end) - 1 > InlineMax THEN "either" ELSE "served", TRUE)

a == <<"a">>
WellFormed == {
    Multibulk(<<a>>),
    Multibulk(<<<<>>, a>>),
    Multibulk(<<<<"*", "\r", "\n">>>>),
    Multibulk(<<<<"a", NUL>>, a>>),
    Frame(<<"*", "0", "\r", "\n">>, <<>>, "served", FALSE),
    Frame(<<"*", "-", "1", "\r", "\n">>, <<>>, "served", FALSE),
    Line(a, <<"\n">>, <<a>>),
    Line(<<"/">>, CRLF, <<<<"/">>>>),
    Line(<<>>, CRLF, <<>>),
    Line(sdscatrepr(<<"\"", "\n">>), <<"\n">>, <<<<"\"", "\n">>>>),
    Line(<<"\"", "\"", " ", "'", "'">>, <<"\n">>, <<>>) }

Malformed == {
    Frame(<<"*", "a", "\r", "\n">>, <<>>, "refused", FALSE),
    Frame(<<"*", "9", "\r", "\n">>, <<>>, "refused", FALSE),
    Frame(<<"*", "1", "\r", "\n", "a", "\r", "\n">>, <<>>, "refused", FALSE),
    Frame(<<"*", "1", "\r", "\n", "$", "9", "\r", "\n">>, <<>>, "refused", FALSE),
    Frame(<<"*", "1", "\r", "\n", "$", "-", "1", "\r", "\n">>, <<>>, "refused", FALSE),
    Frame(<<"*", "1", "\r", "\n", "$", "0", "0", "0", "0", "0", "0", "0", "0", "\r", "\n">>,
          <<>>, "refused", FALSE),
    Frame(<<"\"", "a", "\n">>, <<>>, "refused", TRUE),
    Frame(<<"a", NUL, "\n">>, <<>>, "stalls", TRUE) }

MCStreams == {<<f>> : f \in WellFormed \cup Malformed}
             \cup {<<f, g>> : f \in WellFormed, g \in WellFormed \cup Malformed}
=============================================================================
