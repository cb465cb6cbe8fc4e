--------------------------- MODULE MCScriptCache ---------------------------
EXTENDS ScriptCache

Codec == INSTANCE ScriptCodec

\* A module of every shape: shared, nested and recursive types, constants of
\* all kinds, a loop with a phi that refers forward, a call, two functions.
N(op, args) == [op |-> op, args |-> args]
I64 == N("int", <<64>>)
I8 == N("int", <<8>>)
Ptr(t) == N("pointer", <<t>>)
Arr == N("array", <<2, I8>>)
Struct == N("struct", <<"S", 0, <<<<I64>>, <<Ptr(I8)>>>>>>)
C(n) == [k |-> "const", c |-> N("int", <<I64, 0, n>>)]
L(b, i) == [k |-> "local", at |-> <<b, i>>]
Blk(i) == [k |-> "block", i |-> i]
Fn(i) == [k |-> "func", i |-> i]

Addr(g) == N("gep", <<Arr, N("global", <<g>>), <<<<N("index", <<N("int", <<I64, 0, 0>>)>>)>>>>>>)
jsrun == <<"jsrun", I64, 0, <<<<"x", 0, I64>>>>>>
helper == <<"helper", I64, 0, <<>>>>
Tiny(n) == <<<<"entry", 0, <<>>, N("ret", <<<<<<C(n)>>>>>>)>>>>

Loop(n) == <<
  <<"entry", 0, <<<<N("alloca", <<"a", 0, I64, <<>>>>)>>, <<N("store", <<C(n), L(1, 1)>>)>>,
                  <<N("load", <<"l", 0, I64, L(1, 1)>>)>>>>, N("br", <<Blk(2)>>)>>,
  <<"loop", 0, <<<<N("phi", <<"p", 0, I64, <<<<L(1, 3), Blk(1)>>, <<L(2, 2), Blk(2)>>>>>>)>>,
                 <<N("add", <<"q", 0, L(2, 1), L(0, 1)>>)>>,
                 <<N("call", <<"c", 0, Fn(2), <<<<L(2, 2)>>>>>>)>>>>, N("condbr", <<L(2, 2), Blk(2), Blk(3)>>)>>,
  <<"end", 0, <<>>, N("ret", <<<<<<L(2, 3)>>>>>>)>>>>

Rich(n) ==
  [globals |-> <<<<"s", Arr, <<<<N("chars", <<Arr, 7>>)>>>>>>, <<"p", Ptr(I8), <<<<Addr(0)>>>>>>,
                 <<"t", Struct, <<<<N("zero", <<Struct>>)>>>>>>>>,
   funcs |-> <<jsrun, helper>>, bodies |-> <<Loop(n), Tiny(n)>>]

\* The codec has no constant for the address of a function: this one is text.
AsText(n) ==
  [globals |-> <<<<"f", Ptr(I8), <<<<N("function", <<1>>)>>>>>>>>,
   funcs |-> <<helper, jsrun, <<"unused", I64, 0, <<>>>>>>,
   bodies |-> <<Tiny(n), <<<<"entry", 0, <<<<N("call", <<"c", 0, Fn(1), <<>>>>)>>>>, N("unreachable", <<>>)>>>>, Tiny(0)>>]

\* A global whose initialiser names a later one is written but not read back.
Forward(n) ==
  [globals |-> <<<<"p", Ptr(I8), <<<<Addr(1)>>>>>>, <<"s", Arr, <<<<N("chars", <<Arr, n>>)>>>>>>>>,
   funcs |-> <<jsrun>>, bodies |-> <<Tiny(n)>>]

Number(b) == IF b = "old" THEN 1 ELSE 2
Module(k) ==
  CASE k[2] = "rich" -> Rich(Number(k[1]))
    [] k[2] = "text" -> AsText(Number(k[1]))
    [] k[2] = "forward" -> Forward(Number(k[1]))

\* The newer build no longer parses two of the scripts.
MCEmits == Keys \ {<<"new", "forward">>, <<"new", "text">>}
Entry == [k \in Keys |-> Codec!Stored(Module(k))]
Sizes == {<<k, Len(Entry[k])>> : k \in Keys}
MCSize == [k \in Keys |-> (CHOOSE s \in Sizes : s[1] = k)[2]]
Reader(k, n) == Codec!LoadedModule(SubSeq(Entry[k], 1, n))
MCReadable == UNION {{<<k, n>> : n \in {i \in 0 .. MCSize[k] : Reader(k, i) # Codec!NoModule}} : k \in Keys}

\* No part of an entry passes for a module that it is not.
ASSUME LoadsOrNothing == \A kn \in MCReadable : Reader(kn[1], kn[2]) = Codec!Program(Module(kn[1]))
MCUnreadable == {k \in Keys : k[2] = "forward"}

MCGrammars == {<<"rich", "text", "rich", "forward">>}
=============================================================================
