-------------------------------- MODULE Sds --------------------------------
(***************************************************************************)
(* The text functions of the dynamic strings (sds.c) that the parser of      *)
(* requests and the configuration rest on.  A string is a sequence of bytes, *)
(* a byte a string of one character; "NUL" is the byte zero, which ends a C  *)
(* string.  The functions only tell a few bytes apart: the others stand for  *)
(* themselves.                                                             *)
(***************************************************************************)
EXTENDS Integers, SequencesExt

NUL == "NUL"
Quote == "\""
Backslash == "\\"

\* isspace(), and the blanks that end a token in sdssplitargs.
Spaces == {" ", "\n", "\r", "\t", "\f"}
Blanks == {" ", "\n", "\r", "\t"}

\* The escapes of one letter: [letter |-> byte].
Escapes == [n |-> "\n", r |-> "\r", t |-> "\t", b |-> "BS", a |-> "BEL"]

\* isprint() is false for these, and \x<hex> stands for them.
HexOf == [NUL |-> <<"0", "0">>, DC1 |-> <<"1", "1">>]
HexDigits == {"0", "1", "2", "3", "4", "5", "6", "7", "8", "9",
              "a", "b", "c", "d", "e", "f", "A", "B", "C", "D", "E", "F"}

\* The bytes before the first NUL: what a function on C strings sees.
CString(s) ==
    IF NUL \in ToSet(s) THEN SubSeq(s, 1, SelectInSeq(s, LAMBDA b : b = NUL) - 1) ELSE s

\* s[i], or the terminator.
At(s, i) == IF i \in DOMAIN s THEN s[i] ELSE NUL

\* The byte named by two hex digits; "?" for one the model does not tell apart.
HexByte(h, l) ==
    IF \E b \in DOMAIN HexOf : HexOf[b] = <<h, l>>
    THEN CHOOSE b \in DOMAIN HexOf : HexOf[b] = <<h, l>> ELSE "?"

-----------------------------------------------------------------------------
(* sdssplitargs: a line is split in arguments, with quotes and escapes.      *)

Unbalanced == [text |-> <<>>, next |-> 0]

\* A token of s from position p in the given quoting state: its text and the
\* position after it, or Unbalanced.
RECURSIVE Token(_, _, _, _)
Token(s, p, quoting, current) ==
    LET c == At(s, p)
        next == At(s, p + 1)
        IsHex == next = "x" /\ At(s, p + 2) \in HexDigits /\ At(s, p + 3) \in HexDigits
        Go(q, mode, bytes) == Token(s, q, mode, current \o bytes)
    IN  CASE quoting = "double" /\ c = Backslash /\ IsHex ->
                Go(p + 4, quoting, <<HexByte(At(s, p + 2), At(s, p + 3))>>)
          [] quoting = "double" /\ c = Backslash /\ ~IsHex /\ next # NUL ->
                Go(p + 2, quoting, <<IF next \in DOMAIN Escapes THEN Escapes[next] ELSE next>>)
          [] quoting = "single" /\ c = Backslash /\ next = "'" ->
                Go(p + 2, quoting, <<next>>)
          [] (quoting = "double" /\ c = Quote) \/ (quoting = "single" /\ c = "'") ->
                \* a closing quote is followed by a space or by nothing at all
                IF next \in Spaces \cup {NUL} THEN [text |-> current, next |-> p + 1]
                ELSE Unbalanced
          [] quoting # "none" /\ c = NUL -> Unbalanced
          [] quoting = "none" /\ c \in Blanks \cup {NUL} -> [text |-> current, next |-> p]
          [] quoting = "none" /\ c = Quote -> Go(p + 1, "double", <<>>)
          [] quoting = "none" /\ c = "'" -> Go(p + 1, "single", <<>>)
          [] OTHER -> Go(p + 1, quoting, <<c>>)

\* The arguments of s from position p on.
RECURSIVE Arguments(_, _)
Arguments(s, p) ==
    IF At(s, p) = NUL THEN [ok |-> TRUE, args |-> <<>>]
    ELSE IF s[p] \in Spaces THEN Arguments(s, p + 1)
    ELSE LET token == Token(s, p, "none", <<>>)
             rest == Arguments(s, token.next)
         IN  IF token = Unbalanced THEN [ok |-> FALSE, args |-> <<>>]
             ELSE [rest EXCEPT !.args = <<token.text>> \o @]

sdssplitargs(line) == Arguments(CString(line), 1)

\* sdscatrepr: one argument, quoted so that sdssplitargs gives it back.
ByteRepr(b) ==
    CASE b \in {Backslash, Quote} -> <<Backslash, b>>
      [] \E l \in DOMAIN Escapes : Escapes[l] = b ->
            <<Backslash, CHOOSE l \in DOMAIN Escapes : Escapes[l] = b>>
      [] b \in DOMAIN HexOf -> <<Backslash, "x">> \o HexOf[b]
      [] OTHER -> <<b>>

sdscatrepr(s) ==
    <<Quote>> \o FlattenSeq([i \in 1..Len(s) |-> ByteRepr(s[i])]) \o <<Quote>>

-----------------------------------------------------------------------------
(* Ranges.                                                                 *)

\* sdsrange: the bytes start..end, counted from 0, or from the end if negative.
sdsrange(s, start, end) ==
    LET len == Len(s)
        Index(i) == IF i >= 0 THEN i ELSE IF len + i < 0 THEN 0 ELSE len + i
    IN  IF len = 0 THEN s
        ELSE SubSeq(s, Index(start) + 1, IF Index(end) >= len THEN len ELSE Index(end) + 1)
=============================================================================
