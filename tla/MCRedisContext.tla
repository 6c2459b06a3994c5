---------------------------- MODULE MCRedisContext ----------------------------
(* A context with few ways to connect, commands and replies. *)
EXTENDS RedisContext

Option(kind, block, binds, timeout) ==
    [kind |-> kind, block |-> block, bind |-> binds, reuse |-> binds, timeout |-> timeout]

SmallOptions == {Option("unix", TRUE, FALSE, "none"), Option("unix", TRUE, FALSE, "bad"),
                 Option("tcp", FALSE, TRUE, "none"), Option("tcp", TRUE, FALSE, "bad")}

Char(c) == Item("char", <<c>>)
SmallFormats == {<<Char(71), Char(32), Char(32), Item("conv", <<>>)>>,
                 <<Char(71), Item("bad", <<>>)>>}
SmallArgvs == {<<[i \in 1 .. 10 |-> 97]>>}

Leaf(type, val) == [type |-> type, val |-> val, kids |-> <<>>]
Array(kids) == [type |-> "array", val |-> <<>>, kids |-> kids]
SmallAnswers == {Leaf("string", <<13, 10, 58>>),
                 Array(<<Array(<<Leaf("integer", <<-3>>)>>), Leaf("string", <<>>)>>),
                 Array(<<Array(<<Array(<<>>)>>)>>)}
=============================================================================
