---------------------------- MODULE ReplyReader ----------------------------
(***************************************************************************)
(* The reply reader of hiredis (read.c) with the functions that build reply      *)
(* objects (hiredis.c).  The reader is a record that its operations map to a     *)
(* new one: bytes are fed to it in any pieces, and a reply that is not complete   *)
(* yet is kept as a stack of tasks.                                          *)
(*                                                                          *)
(* A reply is the set of its objects, each with the way to it from the root: the  *)
(* indexes task->idx.  The content of an object is a sequence: the bytes of a     *)
(* string, the number, or the number of elements.                             *)
(***************************************************************************)
EXTENDS Integers, Sequences, SequencesExt, FiniteSetsExt

CONSTANTS Depth,   \* tasks that rstack has room for
          Discard  \* consumed bytes that are worth a memmove

ASSUME ReaderAssumption == Depth \in Nat \ {0} /\ Discard \in Nat \ {0}

CR == 13
LF == 10

\* The first byte of an item.
TypeOf == [b \in {43, 45, 58, 36, 42} |-> CASE b = 43 -> "status" [] b = 45 -> "error"
                                            [] b = 58 -> "integer" [] b = 36 -> "string"
                                            [] b = 42 -> "array"]

Task(idx) == [type |-> "none", elements |-> -1, idx |-> idx]

\* buf and pos, the error, rstack up to ridx, the objects built so far; again: the
\* last call of processItem returned REDIS_OK.
NewReader == [buf |-> <<>>, pos |-> 0, err |-> "none", stack |-> <<>>, objs |-> {},
              again |-> TRUE]

SetError(r, e) == [r EXCEPT !.buf = <<>>, !.pos = 0, !.err = e, !.stack = <<>>, !.objs = {},
                            !.again = FALSE]

NotYet(r) == [r EXCEPT !.again = FALSE]

----------------------------------------------------------------------------
\* The position of the next \r that \n follows, 0 if there is none yet.
seekNewline(r) ==
    LET ends == {p \in r.pos + 1 .. Len(r.buf) - 1 : r.buf[p] = CR /\ r.buf[p + 1] = LF}
    IN  IF ends = {} THEN 0 ELSE Min(ends)

\* The number at pos, up to the next \r; -1 if something else is there.
readLongLong(r) ==
    LET end == Min({p \in r.pos + 1 .. Len(r.buf) : r.buf[p] = CR})
        signed == r.buf[r.pos + 1] \in {43, 45}
        digits == SubSeq(r.buf, IF signed THEN r.pos + 2 ELSE r.pos + 1, end - 1)
        v == FoldLeft(LAMBDA n, c : 10 * n + c - 48, 0, digits)
    IN  IF \E i \in 1 .. Len(digits) : digits[i] \notin 48 .. 57 THEN -1
        ELSE IF signed /\ r.buf[r.pos + 1] = 45 THEN -v ELSE v

\* Tasks that did the last element of their array are done with; the next one goes
\* on to the next element.
moveToNextTask(stack) ==
    LET open == {i \in 2 .. Len(stack) : stack[i].idx # stack[i - 1].elements - 1}
    IN  IF open = {} THEN <<>>
        ELSE [SubSeq(stack, 1, Max(open)) EXCEPT ![Max(open)] = Task(stack[Max(open)].idx + 1)]

\* createStringObject and the like: the object becomes element task->idx of its parent.
WayTo(stack) == [i \in 1 .. Len(stack) - 1 |-> stack[i + 1].idx]
Created(r, type, val) == r.objs \cup {[at |-> WayTo(r.stack), type |-> type, val |-> val]}

\* The current item is an object without elements that ends before p.
Done(r, p, type, val) == [r EXCEPT !.pos = p, !.objs = Created(r, type, val),
                                   !.stack = moveToNextTask(r.stack), !.again = TRUE]

processLineItem(r, type) ==
    LET s == seekNewline(r)
    IN  IF s = 0 THEN NotYet(r)
        ELSE Done(r, s + 1, type, IF type = "integer" THEN <<readLongLong(r)>>
                                  ELSE SubSeq(r.buf, r.pos + 1, s - 1))

\* Nothing is consumed before the whole string and the \r\n behind it are there.
processBulkItem(r) ==
    LET s   == seekNewline(r)
        len == readLongLong(r)
    IN  IF s = 0 THEN NotYet(r)
        ELSE IF len < 0 THEN Done(r, s + 1, "nil", <<>>)
        ELSE IF s + 1 + len + 2 > Len(r.buf) THEN NotYet(r)
        ELSE Done(r, s + 1 + len + 2, "string", SubSeq(r.buf, s + 2, s + 1 + len))

processMultiBulkItem(r) ==
    LET s == seekNewline(r)
        elements == readLongLong(r)
        top == Len(r.stack)
    IN  IF top = Depth THEN SetError(r, "protocol")
        ELSE IF s = 0 THEN NotYet(r)
        ELSE IF elements = -1 THEN Done(r, s + 1, "nil", <<>>)
        ELSE IF elements <= 0 THEN Done(r, s + 1, "array", <<elements>>)
        ELSE [r EXCEPT !.pos = s + 1, !.objs = Created(r, "array", <<elements>>),
                       !.stack = Append([@ EXCEPT ![top].elements = elements], Task(0)),
                       !.again = TRUE]

\* The type byte is consumed even if the rest of the item is not there yet.
processItem(r) ==
    LET top  == Len(r.stack)
        read == r.stack[top].type = "none"
        byte == r.buf[r.pos + 1]
        typed == IF read THEN [r EXCEPT !.pos = @ + 1, !.stack[top].type = TypeOf[byte]] ELSE r
        type == typed.stack[top].type
    IN  IF read /\ r.pos = Len(r.buf) THEN NotYet(r)
        ELSE IF read /\ byte \notin DOMAIN TypeOf THEN SetError(r, "protocol")
        ELSE CASE type = "string" -> processBulkItem(typed)
               [] type = "array"  -> processMultiBulkItem(typed)
               [] OTHER           -> processLineItem(typed, type)

\* The loop of redisReaderGetReply.  (The set of one element makes TLC evaluate an
\* item once.)
RECURSIVE ProcessItems(_)
ProcessItems(r) == IF r.stack = <<>> \/ ~r.again THEN r
                   ELSE CHOOSE s \in {ProcessItems(t) : t \in {processItem(r)}} : TRUE

Discarded(r) == IF r.pos >= Discard
                THEN [r EXCEPT !.buf = SubSeq(@, r.pos + 1, Len(@)), !.pos = 0] ELSE r

\* redisReaderFeed.  A large buffer that is empty is replaced by a small one, which
\* changes nothing but the memory used.
redisReaderFeed(r, bytes) == IF r.err # "none" THEN r ELSE [r EXCEPT !.buf = @ \o bytes]

\* The reader afterwards and the reply, {} for NULL.
redisReaderGetReply(r) ==
    LET r0 == [r EXCEPT !.again = TRUE, !.stack = IF @ = <<>> THEN <<Task(-1)>> ELSE @]
        r1 == ProcessItems(r0)
    IN  IF r.err # "none" \/ r.buf = <<>> THEN [reader |-> r, reply |-> {}]
        ELSE IF r1.err # "none" THEN [reader |-> r1, reply |-> {}]
        ELSE IF r1.stack = <<>> THEN [reader |-> [Discarded(r1) EXCEPT !.objs = {}], reply |-> r1.objs]
        ELSE [reader |-> Discarded(r1), reply |-> {}]
=============================================================================
