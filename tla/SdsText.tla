------------------------------ MODULE SdsText ------------------------------
(***************************************************************************)
(* The functions of sds.c that read or make text: numbers, quoting, splitting   *)
(* and joining.  A string is a sequence of bytes; a C string ends before its    *)
(* first 0.                                                                 *)
(***************************************************************************)
EXTENDS Integers, Sequences, SequencesExt

\* Bytes with a meaning of their own.
NUL == 0
Quote == 34
Apostrophe == 39
Backslash == 92
LetterX == 120

Mod(n, w) == n % 2^w

----------------------------------------------------------------------------
RECURSIVE sdsull2str(_)
sdsull2str(v) == IF v < 10 THEN <<48 + v>>
                 ELSE Append(sdsull2str(v \div 10), 48 + (v % 10))

\* The magnitude is taken as an unsigned number of w bits: -value of the least
\* value is that value again.
sdsll2str(value, w) ==
    LET digits == sdsull2str(Mod(IF value < 0 THEN -value ELSE value, w))
    IN  IF value < 0 THEN <<45>> \o digits ELSE digits

----------------------------------------------------------------------------
isspace(c) == c = 32 \/ c \in 9 .. 13
isprint(c) == c \in 32 .. 126

HexDigit(n) == IF n < 10 THEN 48 + n ELSE 87 + n

is_hex_digit(c) == c \in (48 .. 57) \cup (97 .. 102) \cup (65 .. 70)

hex_digit_to_int(c) == CASE c \in 48 .. 57  -> c - 48
                         [] c \in 97 .. 102 -> c - 87
                         [] c \in 65 .. 70  -> c - 55
                         [] OTHER           -> 0

\* \n, \r, \t, \a and \b: the letter for a byte.
Letters == [c \in {10, 13, 9, 7, 8} |-> CASE c = 10 -> 110 [] c = 13 -> 114 [] c = 9 -> 116
                                          [] c = 7 -> 97 [] c = 8 -> 98]

Escape(c) ==
    CASE c \in {Backslash, Quote} -> <<Backslash, c>>
      [] c \in DOMAIN Letters     -> <<Backslash, Letters[c]>>
      [] isprint(c)               -> <<c>>
      [] OTHER -> <<Backslash, LetterX, HexDigit(c \div 16), HexDigit(c % 16)>>

sdscatrepr(s, p) ==
    s \o <<Quote>> \o FlattenSeq([i \in 1 .. Len(p) |-> Escape(p[i])]) \o <<Quote>>

----------------------------------------------------------------------------
\* The byte that a pointer into the line sees.
At(line, p) == IF p <= Len(line) THEN line[p] ELSE NUL

Unescape(c) == IF \E b \in DOMAIN Letters : Letters[b] = c
               THEN CHOOSE b \in DOMAIN Letters : Letters[b] = c
               ELSE c

\* A closing quote must be followed by a space or nothing at all.
EndsWell(line, p) == At(line, p + 1) = NUL \/ isspace(At(line, p + 1))

Failed == [ok |-> FALSE, p |-> 0, token |-> <<>>]
Taken(p, token) == [ok |-> TRUE, p |-> p, token |-> token]

\* The inner loop of sdssplitargs: the token that goes on at p.  quote is the open
\* quote, or NUL.
RECURSIVE Token(_, _, _, _)
Token(line, p, quote, cur) ==
    LET c == At(line, p)
        n == At(line, p + 1)
    IN  CASE quote = Quote /\ c = Backslash /\ n = LetterX
             /\ is_hex_digit(At(line, p + 2)) /\ is_hex_digit(At(line, p + 3)) ->
               Token(line, p + 4, quote,
                     Append(cur, hex_digit_to_int(At(line, p + 2)) * 16
                                 + hex_digit_to_int(At(line, p + 3))))
          [] quote = Quote /\ c = Backslash /\ n # NUL
             /\ ~(n = LetterX /\ is_hex_digit(At(line, p + 2)) /\ is_hex_digit(At(line, p + 3))) ->
               Token(line, p + 2, quote, Append(cur, Unescape(n)))
          [] quote = Apostrophe /\ c = Backslash /\ n = Apostrophe ->
               Token(line, p + 2, quote, Append(cur, n))
          [] quote # NUL /\ c = quote -> IF EndsWell(line, p) THEN Taken(p + 1, cur) ELSE Failed
          [] quote # NUL /\ c = NUL -> Failed
          [] quote = NUL /\ c \in {32, 10, 13, 9} -> Taken(p + 1, cur)
          [] quote = NUL /\ c = NUL -> Taken(p, cur)
          [] quote = NUL /\ c \in {Quote, Apostrophe} -> Token(line, p + 1, c, cur)
          [] OTHER -> Token(line, p + 1, quote, Append(cur, c))

\* sdssplitargs from p on; <<"null">> if the quotes are not balanced.
RECURSIVE ArgsFrom(_, _, _)
ArgsFrom(line, p, vector) ==
    IF At(line, p) = NUL THEN vector
    ELSE IF isspace(At(line, p)) THEN ArgsFrom(line, p + 1, vector)
    ELSE LET t == Token(line, p, NUL, <<>>)
         IN  IF t.ok THEN ArgsFrom(line, t.p, Append(vector, t.token)) ELSE <<"null">>

sdssplitargs(line) == ArgsFrom(line, 1, <<>>)

----------------------------------------------------------------------------
\* Mutant: the search goes on inside the separator that was found.
RECURSIVE SplitFromOverlapping(_, _, _, _, _)
SplitFromOverlapping(s, sep, start, j, tokens) ==
    IF j > Len(s) - (Len(sep) - 1) THEN Append(tokens, SubSeq(s, start, Len(s)))
    ELSE IF SubSeq(s, j, j + Len(sep) - 1) = sep
    THEN SplitFromOverlapping(s, sep, j + Len(sep), j + 1, Append(tokens, SubSeq(s, start, j - 1)))
    ELSE SplitFromOverlapping(s, sep, start, j + 1, tokens)

\* The loop of sdssplitlen at j; the token that is being collected begins at start.
RECURSIVE SplitFrom(_, _, _, _, _)
SplitFrom(s, sep, start, j, tokens) ==
    IF j > Len(s) - (Len(sep) - 1) THEN Append(tokens, SubSeq(s, start, Len(s)))
    ELSE IF SubSeq(s, j, j + Len(sep) - 1) = sep
    THEN SplitFrom(s, sep, j + Len(sep), j + Len(sep), Append(tokens, SubSeq(s, start, j - 1)))
    ELSE SplitFrom(s, sep, start, j + 1, tokens)

sdssplitlen(s, sep) == IF s = <<>> THEN <<>> ELSE SplitFrom(s, sep, 1, 1, <<>>)

sdsjoinsds(argv, sep) ==
    FlattenSeq([j \in 1 .. Len(argv) |-> IF j # Len(argv) THEN argv[j] \o sep ELSE argv[j]])
=============================================================================
