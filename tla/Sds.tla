-------------------------------- MODULE Sds --------------------------------
(***************************************************************************)
(* The string buffers of hiredis (sds.c, sds.h).  A string is a block of         *)
(* memory: a header whose type says how wide its fields are, room for the       *)
(* bytes and one byte for a terminating 0.  Bytes behind the terminator never    *)
(* come back and are left out.  malloc does not fail.  One string is changed     *)
(* by one call after another.                                               *)
(***************************************************************************)
EXTENDS SdsText, FiniteSetsExt, TLC

CONSTANTS Bits,      \* width of the length field of each type of header, ascending
          Prealloc,  \* SDS_MAX_PREALLOC
          Bytes,     \* the bytes used
          MaxLen,    \* bound: length of the string
          Texts,     \* strings that are appended and copied
          Numbers,   \* numbers that are formatted
          LLBits,    \* width of long long
          Disguises  \* functions that turn Bytes into bytes that are hard to quote

ASSUME SdsAssumption == /\ Bits \in Seq(Nat) /\ Len(Bits) >= 2
                        /\ \A i \in 1 .. Len(Bits) - 1 : Bits[i] < Bits[i + 1]
                        /\ MaxLen \in Nat /\ Prealloc \in Nat
                        /\ Texts \subseteq Seq(Bytes)
                        /\ \A f \in Disguises : f \in [Bytes -> 0 .. 255]
                        /\ Numbers \subseteq -2^(LLBits - 1) .. 2^(LLBits - 1) - 1

VARIABLES
    s,   \* [type, len, alloc, room, buf]: header, size of the block behind it, bytes
    str  \* history: what the string should hold

vars == <<s, str>>

TYPE_5 == 1
TYPE_8 == 2
Types == 1 .. Len(Bits)

\* Mutant: a string may be as long as the field's values are many.
sdsReqTypeTight(n) ==
    IF \E t \in Types : n <= 2^Bits[t]
    THEN Min({t \in Types : n <= 2^Bits[t]})
    ELSE Len(Bits)

\* The smallest type whose field can hold n; all but the first keep a value spare.
sdsReqType(n) ==
    LET fits(t) == n < (IF t = TYPE_5 THEN 2^Bits[t] ELSE 2^Bits[t] - 1)
    IN  IF \E t \in Types : fits(t) THEN Min({t \in Types : fits(t)}) ELSE Len(Bits)

\* Reading and writing the fields of a header; type 5 has no alloc field.
Field(t, v) == Mod(v, Bits[t])
sdslen(x) == x.len
sdsalloc(x) == IF x.type = TYPE_5 THEN x.len ELSE x.alloc
sdsavail(x) == IF x.type = TYPE_5 THEN 0 ELSE x.alloc - x.len
SetLen(x, n) == [x EXCEPT !.len = Field(x.type, n)]
SetAlloc(x, n) == IF x.type = TYPE_5 THEN [x EXCEPT !.alloc = 0]
                  ELSE [x EXCEPT !.alloc = Field(x.type, n)]

Content(x) == SubSeq(x.buf, 1, x.len)
Terminated(bytes) == Append(bytes, NUL)

\* A block of type t that holds x's bytes and has room for n.
Moved(x, t, n) == SetAlloc(SetLen([x EXCEPT !.type = t, !.room = n + 1], x.len), n)

sdsnewlen(init) ==
    LET n == Len(init)
        t == IF n = 0 THEN TYPE_8 ELSE sdsReqType(n)
    IN  Moved([type |-> t, len |-> n, alloc |-> 0, room |-> 0, buf |-> Terminated(init)], t, n)

Init == s = sdsnewlen(<<>>) /\ str = <<>>

\* Mutant: the room is measured without what the string holds already.
sdsMakeRoomForShort(x, addlen) ==
    IF sdsavail(x) >= addlen THEN x
    ELSE LET newlen == 2 * addlen
         IN  Moved(x, Max({TYPE_8, sdsReqType(newlen)}), newlen)

sdsMakeRoomFor(x, addlen) ==
    IF sdsavail(x) >= addlen THEN x
    ELSE LET n == sdslen(x) + addlen
             newlen == IF n < Prealloc THEN 2 * n ELSE n + Prealloc
         IN  Moved(x, Max({TYPE_8, sdsReqType(newlen)}), newlen)

----------------------------------------------------------------------------
sdscatlen(x, t) ==
    LET y == sdsMakeRoomFor(x, Len(t))
    IN  [SetLen(y, sdslen(x) + Len(t)) EXCEPT !.buf = Terminated(Content(x) \o t)]

sdscpylen(x, t) ==
    LET y == IF sdsalloc(x) < Len(t) THEN sdsMakeRoomFor(x, Len(t) - sdslen(x)) ELSE x
    IN  [SetLen(y, Len(t)) EXCEPT !.buf = Terminated(t)]

sdsgrowzero(x, n) ==
    IF n <= sdslen(x) THEN x
    ELSE [SetLen(sdsMakeRoomFor(x, n - sdslen(x)), n) EXCEPT
             !.buf = Terminated(Content(x) \o [i \in 1 .. n - sdslen(x) |-> NUL])]

\* The assertions of sdsIncrLen, which stop the program otherwise: type 5 wants a change.
MayIncr(x, incr) ==
    IF x.type = TYPE_5 THEN incr # 0 /\ x.len + incr \in 0 .. 2^Bits[TYPE_5] - 1
    ELSE IF incr >= 0 THEN sdsavail(x) >= incr ELSE x.len >= -incr

\* The user writes into the free space and says how much, or takes back the end.
sdsIncrLen(x, t) == [SetLen(x, sdslen(x) + Len(t)) EXCEPT !.buf = Terminated(Content(x) \o t)]
DecrLen(x, n) == [SetLen(x, sdslen(x) - n) EXCEPT
                     !.buf = Terminated(SubSeq(x.buf, 1, sdslen(x) - n))]

sdsRemoveFreeSpace(x) == Moved(x, sdsReqType(sdslen(x)), sdslen(x))

\* strlen: up to the first 0.
sdsupdatelen(x) ==
    LET n == Min({i \in 1 .. Len(x.buf) : x.buf[i] = NUL}) - 1
    IN  [SetLen(x, n) EXCEPT !.buf = SubSeq(x.buf, 1, n + 1)]

sdsclear(x) == [SetLen(x, 0) EXCEPT !.buf = <<NUL>>]

\* The bytes from start to end, counted from 0; below 0 from the end.
sdsrange(x, start0, end0) ==
    LET len == sdslen(x)
        from(i) == IF i < 0 THEN Max({len + i, 0}) ELSE i
        start == from(start0)
        end == from(end0)
        asked == IF start > end THEN 0 ELSE end - start + 1
        newlen == CASE asked = 0 \/ start >= len -> 0
                    [] end >= len -> len - start
                    [] OTHER -> asked
    IN  IF len = 0 THEN x
        ELSE [SetLen(x, newlen) EXCEPT
                 !.buf = Terminated(SubSeq(x.buf, start + 1, start + newlen))]

\* Two pointers move towards each other.  strchr also finds the 0 behind cset, so
\* that bytes 0 are trimmed as well.
sdstrim(x, cset) ==
    LET in(i) == x.buf[i] \in cset \cup {NUL}
        end == sdslen(x)
        sp == Min({i \in 1 .. end + 1 : i = end + 1 \/ ~in(i)})
        len == IF sp > end THEN 0 ELSE Max({i \in sp .. end : i = sp \/ ~in(i)}) - sp + 1
    IN  [SetLen(x, len) EXCEPT !.buf = Terminated(SubSeq(x.buf, sp, sp + len - 1))]

sdsmapchars(x, from, to) ==
    [x EXCEPT !.buf = [i \in 1 .. Len(x.buf) |->
        IF i <= x.len /\ x.buf[i] = from THEN to ELSE x.buf[i]]]

\* One step of sdscatfmt: a number, a string or a byte goes to the end.  There is
\* room for one byte before anything is looked at.
FmtItem(x, t) ==
    LET y == IF sdsavail(x) = 0 THEN sdsMakeRoomFor(x, 1) ELSE x
        z == IF sdsavail(y) < Len(t) THEN sdsMakeRoomFor(y, Len(t)) ELSE y
    IN  [SetLen(z, sdslen(z) + Len(t)) EXCEPT !.buf = Terminated(Content(z) \o t)]

\* sdscatfmt(s, "=%i%S", n, t).
sdscatfmt(x, n, t) == FmtItem(FmtItem(FmtItem(x, <<61>>), sdsll2str(n, LLBits)), t)

----------------------------------------------------------------------------
\* What the calls are meant to do, without headers and pointers.
Slice(t, start, end) ==
    LET from(i) == IF i < 0 THEN Max({Len(t) + i, 0}) ELSE i
        keep == {i \in 1 .. Len(t) : from(start) < i /\ i <= from(end) + 1}
    IN  IF keep = {} THEN <<>> ELSE SubSeq(t, Min(keep), Max(keep))

Stripped(t, cset) ==
    LET keep == {i \in 1 .. Len(t) : t[i] \notin cset}
    IN  IF keep = {} THEN <<>> ELSE SubSeq(t, Min(keep), Max(keep))

\* The digits of n: no superfluous 0, and the right value.
IsDecimal(d, n) ==
    LET a == IF n < 0 THEN Tail(d) ELSE d
    IN  /\ (n < 0) = (d[1] = 45)
        /\ Len(a) > 1 => a[1] # 48
        /\ FoldLeft(LAMBDA v, c : 10 * v + c - 48, 0, a) = IF n < 0 THEN -n ELSE n

Decimals == [n \in Numbers |->
    LET sign == IF n < 0 THEN <<45>> ELSE <<>>
    IN  CHOOSE d \in {sign \o a : a \in UNION {[1 .. k -> 48 .. 57] : k \in 1 .. 3}} : IsDecimal(d, n)]

Indexes == {-MaxLen, -2, -1, 0, 1, MaxLen}

Becomes(x, t) == Len(t) <= MaxLen /\ s' = x /\ str' = t

Cat == \E t \in Texts : Becomes(sdscatlen(s, t), str \o t)
Cpy == \E t \in Texts : Becomes(sdscpylen(s, t), t)
GrowZero == \E n \in {2, MaxLen} : Becomes(sdsgrowzero(s, n),
                IF n <= Len(str) THEN str ELSE str \o [i \in 1 .. n - Len(str) |-> NUL])
MakeRoom == \E n \in 1 .. 2 : Becomes(sdsMakeRoomFor(s, n), str)
WriteInPlace == \E t \in Texts : LET x == sdsMakeRoomFor(s, Len(t))
                                 IN  MayIncr(x, Len(t)) /\ Becomes(sdsIncrLen(x, t), str \o t)
TakeBack == str # <<>> /\ MayIncr(s, -1) /\ Becomes(DecrLen(s, 1), SubSeq(str, 1, Len(str) - 1))
RemoveFreeSpace == Becomes(sdsRemoveFreeSpace(s), str)
UpdateLen == Becomes(sdsupdatelen(s),
                 IF \E i \in 1 .. Len(str) : str[i] = NUL
                 THEN SubSeq(str, 1, SelectInSeq(str, LAMBDA c : c = NUL) - 1) ELSE str)
Clear == Becomes(sdsclear(s), <<>>)
Dup == Becomes(sdsnewlen(Content(s)), str)
Range_ == \E a, b \in Indexes : Becomes(sdsrange(s, a, b), Slice(str, a, b))
Trim == \E c \in Bytes : Becomes(sdstrim(s, {c}), Stripped(str, {c, NUL}))
MapChars == \E a \in Bytes : Becomes(sdsmapchars(s, a, 32),
                [i \in 1 .. Len(str) |-> IF str[i] = a THEN 32 ELSE str[i]])
CatFmt == \E n \in Numbers, t \in Texts : Becomes(sdscatfmt(s, n, t), str \o <<61>> \o Decimals[n] \o t)

Next == \/ Cat \/ Cpy \/ GrowZero \/ MakeRoom \/ WriteInPlace \/ TakeBack \/ RemoveFreeSpace
        \/ UpdateLen \/ Clear \/ Dup \/ Range_ \/ Trim \/ MapChars \/ CatFmt

Spec == Init /\ [][Next]_vars

----------------------------------------------------------------------------
\* The bytes and their terminator lie inside the block, and the header tells the
\* truth about both, whichever types and sizes the string went through.
BlockSafe == /\ s.type \in Types
             /\ Len(s.buf) = s.len + 1 /\ s.buf[s.len + 1] = NUL
             /\ s.len <= sdsalloc(s) /\ sdsalloc(s) + 1 <= s.room

\* The string holds what the sequence of calls should have made of it.
HoldsTheString == Content(s) = str

\* sdssplitargs reads back what sdscatrepr wrote, as its comment promises, and
\* splitting at a separator loses nothing and leaves no separator behind.
TextRoundTrips ==
    /\ \A f \in Disguises :
           LET t == [i \in 1 .. Len(str) |-> IF str[i] \in Bytes THEN f[str[i]] ELSE str[i]]
           IN  sdssplitargs(sdscatrepr(<<>>, t)) = <<t>>
    /\ \A sep \in Texts \ {<<>>} :
           LET parts == sdssplitlen(str, sep)
           IN  /\ sdsjoinsds(parts, sep) = str
               /\ \A i \in 1 .. Len(parts) : \A j \in 1 .. Len(parts[i]) - Len(sep) + 1 :
                      SubSeq(parts[i], j, j + Len(sep) - 1) # sep
=============================================================================
