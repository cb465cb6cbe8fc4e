------------------------------- MODULE Assemble ------------------------------
(***************************************************************************)
(* How an a-grammar is put together when it is used (abnf/parser.go:       *)
(* ParseWithAgrammar up to its start rule, applyCommand, references; the   *)
(* anchoring of includes by CompileASG in abnf/compiler.go), and what the  *)
(* verifier says of the result (abnf/verifier.go: Verify).                 *)
(*                                                                         *)
(* One grammar is used by several parses, one after the other or one       *)
(* inside another (c.parse in a script).  A file is a directory and a      *)
(* name, and holds declarations.  Of a body only the names that it uses    *)
(* are kept, and the text that the parser would make of it as a parameter. *)
(* Positions count from 1, and 0 stands for the marker -1.                 *)
(***************************************************************************)
EXTENDS Naturals, Sequences, FiniteSets

CONSTANTS
  Systems,     \* file systems: functions from files to sequences of declarations, or Broken
  Main,        \* the grammar's own file
  Dirs,        \* the directories, of grammars and of parsed texts
  MaxParses

NoText == "-"
Nowhere == "-"
Broken == <<[op |-> "error"]>>    \* a file that holds no grammar
Ops == {"production", "startRule", "whitespace", "include", "other"}
Decl == [op : Ops, name : STRING, uses : Seq(STRING), text : STRING]

\* A file that a grammar includes by the name of a production names one.
ASSUME SystemsAssumption ==
  \A s \in Systems :
    /\ DOMAIN s \subseteq STRING \X STRING /\ Main \in DOMAIN s /\ s[Main] \in Seq(Decl)
    /\ \A f \in DOMAIN s : s[f] \in Seq(Decl) \cup {Broken}

VARIABLES
  fs,          \* the file system
  g,           \* *pa.agrammar: the rules, in order
  included,    \* includedByGrammar of this grammar
  pc,          \* "new", "apply" (the commands), "ready", "nothing" or "failed"
  at,          \* the command loop's index
  dir,         \* the directory of the text that is parsed
  spaces,      \* the position of the whitespace command in effect, or 0
  why,         \* the panic of a parse that failed
  parses,      \* parses begun
  dirs         \* the directories of their texts

grammarVars == <<fs, g, included, pc, at, dir, spaces, why, parses, dirs>>

-----------------------------------------------------------------------------
(* Files become rules.                                                     *)

Readable(f) == f \in DOMAIN fs /\ fs[f] # Broken

\* resolveIncludePaths: a constant name belongs to the directory of the grammar's file.
Rule(f, d) ==
  [op |-> d.op, name |-> d.name, uses |-> d.uses, text |-> d.text,
   links |-> [k \in DOMAIN d.uses |-> 1],
   anchor |-> IF d.op = "include" /\ d.text # NoText THEN f[1] ELSE Nowhere]

Origin(f) == [op |-> "origin", name |-> "", uses |-> <<>>, text |-> f[1], links |-> <<>>, anchor |-> Nowhere]

\* CompileASG: the rules of a file, the stamp last.
Compile(f) == Append([k \in DOMAIN fs[f] |-> Rule(f, fs[f][k])], Origin(f))

\* Mutant: the last such command counts.
LastCommand(rules, op) ==
  LET found == {k \in DOMAIN rules : rules[k].op = op}
  IN  IF found = {} THEN 0 ELSE CHOOSE k \in found : \A j \in found : k >= j

\* GetStartRule, GetOrigin: the first such command counts; 0 if there is none.
FirstCommand(rules, op) ==
  LET found == {k \in DOMAIN rules : rules[k].op = op}
  IN  IF found = {} THEN 0 ELSE CHOOSE k \in found : \A j \in found : k <= j

-----------------------------------------------------------------------------
(* The links (references).                                                 *)

Defines(rules, k, name) == rules[k].op = "production" /\ rules[k].name = name

DefinedTwice(rules) ==
  \E j, k \in DOMAIN rules : j # k /\ rules[k].op = "production" /\ Defines(rules, j, rules[k].name)

Position(rules, name) ==
  LET found == {k \in DOMAIN rules : Defines(rules, k, name)}
  IN  IF found = {} THEN 0 ELSE CHOOSE k \in found : TRUE

Correct(rules) ==
  [k \in DOMAIN rules |->
     [rules[k] EXCEPT !.links = [u \in DOMAIN rules[k].uses |-> Position(rules, rules[k].uses[u])]]]

-----------------------------------------------------------------------------
(* A parse, up to the application of its start rule.                       *)

Panics(reason) == pc' = "failed" /\ why' = reason

AssembleInit ==
  /\ fs \in Systems /\ g = Compile(Main) /\ included = {}
  /\ pc = "new" /\ at = 0 /\ dir = Nowhere /\ spaces = 0 /\ why = "" /\ parses = 0 /\ dirs = {}

\* ParseWithAgrammar, to its command loop.
Begin(d) ==
  /\ pc # "apply" /\ parses < MaxParses
  /\ parses' = parses + 1 /\ dir' = d /\ dirs' = dirs \cup {d}
  /\ spaces' = 0 /\ UNCHANGED <<fs, included>>
  /\ IF FirstCommand(g, "startRule") = 0 THEN pc' = "nothing" /\ why' = "" /\ UNCHANGED <<g, at>>
     ELSE IF DefinedTwice(g) THEN Panics("twice") /\ UNCHANGED <<g, at>>
     ELSE pc' = "apply" /\ why' = "" /\ at' = 1 /\ g' = Correct(g)

\* Mutant: the loop is over the rules that were there when it began.
MoreOfFirst == at <= Len(Compile(Main))

More == at <= Len(g)

Command(op) == pc = "apply" /\ More /\ g[at].op = op

ToNext == at' = at + 1

Pass ==
  /\ pc = "apply" /\ More /\ g[at].op \notin {"whitespace", "include"}
  /\ ToNext /\ UNCHANGED <<fs, g, included, pc, dir, spaces, why, parses, dirs>>

Whitespace ==
  /\ Command("whitespace")
  /\ spaces' = at /\ ToNext /\ UNCHANGED <<fs, g, included, pc, dir, why, parses, dirs>>

\* resolveParameterToToken: the text of the parameter, which may be a production's.
Parameter(r) ==
  IF r.text # NoText THEN r.text ELSE IF r.links[1] = 0 THEN NoText ELSE g[r.links[1]].text

WithText(r) == [r EXCEPT !.text = Parameter(r), !.uses = <<>>, !.links = <<>>]

Target(r) == <<IF r.anchor # Nowhere THEN r.anchor ELSE dir, Parameter(r)>>

Remembered(f) == f \in included

\* Mutant: the fragment goes in front.
InFront(rules, more) == more \o rules

AddRules(rules, more) == rules \o more

\* applyCommand, :include().
Include ==
  /\ Command("include")
  /\ UNCHANGED <<fs, dir, spaces, parses, dirs>>
  /\ LET f == Target(g[at])
         mine == [g EXCEPT ![at] = WithText(g[at])]
         all == AddRules(mine, Compile(f))
     IN  \/ Parameter(g[at]) = NoText /\ Panics("unknown") /\ UNCHANGED <<g, included, at>>
         \/ /\ Parameter(g[at]) # NoText /\ Remembered(f)
            /\ g' = mine /\ ToNext /\ UNCHANGED <<included, pc, why>>
         \/ /\ Parameter(g[at]) # NoText /\ ~Remembered(f)
            /\ included' = included \cup {f}
            /\ IF ~Readable(f) THEN g' = mine /\ Panics("unreadable") /\ UNCHANGED at
               ELSE IF DefinedTwice(all) THEN g' = all /\ Panics("twice") /\ UNCHANGED at
               ELSE g' = Correct(all) /\ ToNext /\ UNCHANGED <<pc, why>>

\* Behind the loop: the start rule has to be there.
Start ==
  /\ pc = "apply" /\ ~More
  /\ IF g[FirstCommand(g, "startRule")].links[1] = 0 THEN Panics("start") ELSE pc' = "ready" /\ UNCHANGED why
  /\ UNCHANGED <<fs, g, included, at, dir, spaces, parses, dirs>>

AssembleNext == (\E d \in Dirs : Begin(d)) \/ Pass \/ Whitespace \/ Include \/ Start

AssembleSpec == AssembleInit /\ [][AssembleNext]_grammarVars

-----------------------------------------------------------------------------
(* Verify, by name: what no production defines, and which of the grammar's *)
(* own productions are never reached.                                      *)

Names(rules) == {rules[k].name : k \in {j \in DOMAIN rules : rules[j].op = "production"}}
Uses(r) == {r.uses[u] : u \in DOMAIN r.uses}

Undefined(rules) == (UNION {Uses(rules[k]) : k \in DOMAIN rules}) \ Names(rules)

\* Mutant: only the start rule is a root.
StartRoot(rules) == {rules[FirstCommand(rules, "startRule")].uses[1]}

Roots(rules) == UNION {Uses(rules[k]) : k \in {j \in DOMAIN rules : rules[j].op # "production"}}

\* The names that are visited: the least set that holds some, and with a production's name
\* those that its body uses.
Reached(rules, from) ==
  LET Closed == {S \in SUBSET (Names(rules) \cup UNION {Uses(rules[k]) : k \in DOMAIN rules}) :
                   from \subseteq S /\ \A k \in DOMAIN rules : \A n \in S : Defines(rules, k, n) => Uses(rules[k]) \subseteq S}
  IN  {n \in UNION Closed : \A S \in Closed : n \in S}

Unreachable(rules, own) ==
  IF FirstCommand(rules, "startRule") = 0 THEN {} ELSE (Names(rules) \cap own) \ Reached(rules, Roots(rules))

-----------------------------------------------------------------------------
(* What an assembled grammar has to be.                                    *)

Decls(f) == IF Readable(f) THEN {fs[f][k] : k \in DOMAIN fs[f]} ELSE {}
Productions(f) == {d \in Decls(f) : d.op = "production"}

\* What a name stands for as the parameter of an :include(), in some files.
Texts(files, name) == {d.text : d \in {e \in UNION {Productions(f) : f \in files} : e.name = name}} \ {NoText}

\* The files that one file includes: constant names beside itself, the others beside the texts.
IncludedBy(files, f) ==
  UNION {IF d.text # NoText THEN {<<f[1], d.text>>} ELSE dirs \X Texts(files, d.uses[1])
         : d \in {e \in Decls(f) : e.op = "include"}}

Bases == {Main[2]} \cup ({d.text : d \in UNION {Decls(f) : f \in DOMAIN fs}} \ {NoText})

\* The least set of files that holds the grammar's own and what its files include.
Closure ==
  LET Files == Dirs \X Bases
      Closed == {S \in SUBSET Files : Main \in S /\ \A f \in S : IncludedBy(S, f) \subseteq S}
  IN  {f \in Files : \A S \in Closed : f \in S}

FilesThatDefine(name) == {f \in Closure : name \in {d.name : d \in Productions(f)}}
IncludesItself == \E f \in Closure : Main \in IncludedBy(Closure, f)
AllDecls == UNION {Decls(f) : f \in Closure}

\* The parse that is under way or has just ended is the only one that failed, if any did.
Clean == \A f \in included : pc = "failed" \/ Readable(f)

\* When a parse gets to its start rule, the grammar holds every production of every file
\* that it includes, directly or not, once, with every link at its production; the last
\* whitespace command is in effect and the grammar's own file is its origin.  A parse that
\* fails has a reason in the files; one is that they lead back to the grammar's own file.
AssemblesTheClosure ==
  /\ pc = "ready" /\ Clean =>
       /\ \A f \in Closure : Readable(f)
       /\ Names(g) = UNION {{d.name : d \in Productions(f)} : f \in Closure}
       /\ \A name \in Names(g) : Cardinality(FilesThatDefine(name)) = 1 /\ ~DefinedTwice(g)
       /\ \A k \in DOMAIN g : \A u \in DOMAIN g[k].uses :
            IF g[k].links[u] = 0 THEN FilesThatDefine(g[k].uses[u]) = {}
            ELSE Defines(g, g[k].links[u], g[k].uses[u])
       /\ spaces = 0 <=> {d \in AllDecls : d.op = "whitespace"} = {}
       /\ \A k \in spaces + 1 .. Len(g) : g[k].op # "whitespace"
       /\ g[FirstCommand(g, "origin")].text = Main[1]
  /\ pc = "failed" =>
       CASE why = "twice" -> IncludesItself \/ \E d \in AllDecls : Cardinality(FilesThatDefine(d.name)) > 1
         [] why = "unreadable" -> \E f \in Closure : ~Readable(f)
         [] why = "unknown" -> \E d \in AllDecls : d.op = "include" /\ d.text = NoText
         [] why = "start" -> Clean => \E d \in Decls(Main) : d.op = "startRule" /\ FilesThatDefine(d.uses[1]) = {}

\* At any time, after parses that failed as well, the rules are those of the grammar's own file
\* and of the files it has included, no others and none missing.  When a parse gets to its start
\* rule, the first stamp is that of the grammar's own file, whatever files came behind it, and
\* no whitespace command comes after the one in effect.
Kinds(rules) == {<<rules[k].op, rules[k].name>> : k \in {j \in DOMAIN rules : rules[j].op # "origin"}}
KindsIn(f) == {<<d.op, d.name>> : d \in Decls(f)}
HoldsItsFiles ==
  /\ Kinds(g) = UNION {KindsIn(f) : f \in {Main} \cup included}
  /\ pc = "ready" =>
       /\ g[FirstCommand(g, "origin")].text = Main[1]
       /\ \A k \in DOMAIN g : g[k].op = "whitespace" => k <= spaces

\* A parse that runs while another one assembles the same grammar follows its rules by
\* position: rules only come behind them, and a link that was found stays.
LinksHold ==
  [][/\ Len(g') >= Len(g)
     /\ \A k \in DOMAIN g :
          /\ g'[k].op = g[k].op /\ g'[k].name = g[k].name
          /\ g'[k].uses = g[k].uses =>
               \A u \in DOMAIN g[k].uses :
                 g[k].links[u] # 0 /\ Defines(g, g[k].links[u], g[k].uses[u]) => g'[k].links[u] = g[k].links[u]
    ]_grammarVars

\* The rules that a parse can apply: the start rule, the whitespace in effect, and what
\* their links lead to.
LinksOf(k) == {g[k].links[u] : u \in DOMAIN g[k].links} \ {0}
InEffect == {FirstCommand(g, "startRule"), spaces} \ {0}
Applicable ==
  LET Closed == {S \in SUBSET DOMAIN g : \A k \in S : LinksOf(k) \subseteq S}
  IN  {k \in DOMAIN g : \A S \in Closed : InEffect \subseteq S => k \in S}

\* Names that no parse looks at: in the parameters of the files' includes, which put the text
\* that the name stands for in its place, and of commands that are not in effect.
NamedByIncludes == UNION {Uses(d) : d \in {e \in UNION {Decls(f) : f \in {Main} \cup included} : e.op = "include"}}
Idle == NamedByIncludes \cup UNION {Uses(g[j]) : j \in {i \in DOMAIN g \ InEffect : g[i].op # "production"}}

\* What the verifier says by name is what a parse finds by position: an undefined name is one
\* whose uses point nowhere, no production that a parse can apply is unreachable, and an own
\* one that no parse can apply is, unless the names that no parse looks at lead to it: whether
\* those reach a production, or are forgotten as the name an include is written with, is left
\* open here.
VerifierAgrees ==
  pc = "ready" =>
    LET own == Names(Compile(Main))
        applied == {k \in Applicable : g[k].op = "production"}
        idle == Reached(g, Idle \cap Names(g))
    IN  /\ \A k \in DOMAIN g : \A u \in DOMAIN g[k].uses : g[k].uses[u] \in Undefined(g) <=> g[k].links[u] = 0
        /\ Unreachable(g, own) \cap {g[k].name : k \in applied} = {}
        /\ \A k \in DOMAIN g : g[k].op = "production" /\ g[k].name \in own /\ k \notin applied =>
             g[k].name \in Unreachable(g, own) \cup idle

\* The head of verifier.go counts the names in the parameters of commands as reached.  The
\* production that an include names is not: applyCommand has put its text there instead.
CommandsReachTheirNames == pc = "ready" => Unreachable(g, Names(Compile(Main))) \cap NamedByIncludes = {}
=============================================================================
