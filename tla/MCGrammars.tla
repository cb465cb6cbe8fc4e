----------------------------- MODULE MCGrammars -----------------------------
(***************************************************************************)
(* What a grammar goes through: it is put together when a text is parsed   *)
(* (Assemble), and the graph of the text is walked (Walk).  A behaviour    *)
(* shows one of the two, and the other one does nothing.                   *)
(***************************************************************************)
EXTENDS Assemble, WalkProps, TLC

CONSTANTS v1

-----------------------------------------------------------------------------
(* Small file systems around every way in which files may include others.  *)

D(op, name, uses, text) == [op |-> op, name |-> name, uses |-> uses, text |-> text]
Prod(name, uses) == D("production", name, uses, NoText)
Named(name, text) == D("production", name, <<>>, text)
Incl(text) == D("include", "", <<>>, text)
InclBy(name) == D("include", "", <<name>>, NoText)
Spaces(uses) == D("whitespace", "", uses, NoText)
StartAt(name) == D("startRule", "", <<name>>, NoText)

MCMain == <<"grammar", "main">>
MCDirs == {"grammar", "program"}
In(base) == <<"grammar", base>>
Beside(base) == <<"program", base>>
S == StartAt("S")

\* Bodies of the grammar's own file, and of two fragments.
Mains == {
  <<S, Prod("S", <<"A">>)>>, <<S, Prod("S", <<"A", "A">>), Incl("a")>>, <<Incl("a"), S, Prod("S", <<"A">>), Incl("b")>>,
  <<S, Incl("b"), Spaces(<<"W">>), Prod("S", <<"A", "B">>), Prod("W", <<>>), Prod("D", <<"S">>)>>,
  <<S, InclBy("F"), Named("F", "a"), Prod("S", <<"A">>)>>, <<InclBy("F"), Incl("a"), S, Prod("S", <<>>)>>,
  <<Prod("S", <<>>), Incl("a")>>, <<S, Incl("a"), Incl("a"), Prod("D", <<>>)>>}
Fragments == {
  <<Prod("A", <<"B">>)>>, <<Prod("A", <<"B">>), Incl("b")>>, <<Incl("b"), Spaces(<<"A">>), Prod("A", <<>>), Prod("S", <<>>)>>,
  <<Named("F", "b"), Prod("A", <<"A">>)>>, <<Prod("A", <<>>), Incl("main")>>, Broken}
Others == {
  <<Prod("B", <<"A">>)>>, <<Incl("a"), Prod("B", <<"S">>), Spaces(<<>>)>>, <<Incl("b"), InclBy("F"), Prod("B", <<>>)>>,
  <<Prod("A", <<>>)>>, <<>>}

MCSystems ==
  {(MCMain :> m) @@ (In("a") :> a) @@ (In("b") :> b) @@ more
     : m \in Mains, a \in Fragments, b \in Others,
       more \in {<<>>, Beside("a") :> <<Prod("P", <<>>)>>, (Beside("b") :> <<Prod("P", <<>>)>>) @@ (Beside("a") :> <<Prod("A", <<>>)>>)}}
  \cup {(MCMain :> m) @@ (In("a") :> a) : m \in Mains, a \in Fragments}

-----------------------------------------------------------------------------
(* Graphs with lists of no, one and several rules below tags and groups.   *)

Tok(t) == [op |-> "token", text |-> <<t>>, kids |-> <<>>, codes |-> <<>>, uid |-> 0]
Tag(uid, kids) == [op |-> "tag", text |-> <<>>, kids |-> kids, codes |-> <<uid, 10 + uid>>, uid |-> uid]
OneSlot(uid, kids) == [Tag(uid, kids) EXCEPT !.codes = <<uid>>]
Group(kids) == [op |-> "group", text |-> <<>>, kids |-> kids, codes |-> <<>>, uid |-> 0]

MCVals == {v1}
MCAsgs == {
  <<>>, <<Tag(1, <<Tok("a"), Tok("b")>>)>>,
  <<Tag(1, <<Tag(2, <<>>), Tok("a")>>), Tok("b")>>,
  <<OneSlot(1, <<Group(<<Tag(2, <<Tok("a")>>)>>)>>)>>,
  <<Tok("a"), Tag(1, <<>>), Group(<<>>), Tag(2, <<Tok("b")>>)>>,
  <<Tag(1, <<Group(<<Tag(2, <<>>), Tag(3, <<>>)>>), Tok("a"), Tok("a"), Tag(3, <<>>)>>)>>}
\* The UIDs of another grammar begin at 1 as well.
MCParsed == {<<[Tag(1, <<Tok("c")>>) EXCEPT !.codes = <<101>>]>>}

-----------------------------------------------------------------------------
(* One or the other.                                                       *)


NoGrammar ==
  /\ fs = [f \in {Main} |-> <<>>] /\ g = <<>> /\ included = {} /\ pc = "walks" /\ at = 0
  /\ dir = Nowhere /\ spaces = 0 /\ why = "" /\ parses = 0 /\ dirs = {}
NoGraph == Init /\ raw = <<>>

Assembles == pc # "walks" /\ AssembleNext /\ UNCHANGED vars
Walks == pc = "walks" /\ Next /\ UNCHANGED grammarVars
GrammarsSpec == ((AssembleInit /\ NoGraph) \/ (NoGrammar /\ Init)) /\ [][Assembles \/ Walks]_<<grammarVars, vars>>
=============================================================================
