------------------------------- MODULE Library -------------------------------
(***************************************************************************)
(* A program of one of the languages that calls the methods of one of its  *)
(* lists, sets, dictionaries or enumerators, one after the other.  A call  *)
(* that raises is rescued; one that panics ends the program.               *)
(***************************************************************************)
EXTENDS Lists

CONSTANTS
  Keys,              \* what is looked up in a dictionary
  Beginnings,        \* [lang, on, val]: what the program begins with
  MethodCalls(_, _, _, _)  \* the calls it may make: of a language, on a value of a kind, with a number of calls left

VARIABLES lang, on, val, reply, left
libraryVars == <<lang, on, val, reply, left>>

Ruby == INSTANCE RubyLibrary
Js == INSTANCE JsLibrary
Py == INSTANCE PyLibrary
Kotlin == INSTANCE KtLibrary

Uncalled == [m |-> "", p |-> <<>>, blk |-> NoBlock, a |-> Me, seen |-> <<>>, bad |-> "no"]

ListMethod(c) ==
  CASE lang = "ruby" -> Ruby!rubyArrayMethod(val, c.m, c.p, c.blk)
    [] lang = "js" -> Js!jsvArrayMethod(val, c.m, c.p, c.blk)
    [] lang = "python" -> Py!pyListMethod(val, c.m, c.p, c.blk)
    [] lang = "kotlin" -> Kotlin!ktSeqMethod(val, c.m, c.p, c.blk)
    [] lang = "any" -> Js!builtinMethod(val, c.m, c.p)
SetMethod(c) ==
  CASE lang = "python" -> Py!pySetMethod(val, c.m, c.p)
    [] lang = "kotlin" -> Kotlin!ktSetMethod(val, c.m, c.p, c.blk)
DictMethod(c) ==
  CASE lang = "ruby" -> Ruby!rubyHashMethod(val, c.m, c.p, c.blk)
    [] lang = "python" -> Py!pyDictMethod(val, c.m, c.p)
    [] lang = "kotlin" -> Kotlin!ktMapMethod(val, c.m, c.p, c.blk)

Did(c, o, after) ==
  /\ val' = after
  /\ reply' = c @@ [a |-> o.a, seen |-> o.seen, bad |-> o.bad]
  /\ left' = IF o.bad = "panic" THEN 0 ELSE left - 1
  /\ UNCHANGED <<lang, on>>

CallList == on = "list" /\ \E c \in MethodCalls(lang, on, val, left) : \E o \in {ListMethod(c)} : Did(c, o, o.l)
CallSet == on = "set" /\ \E c \in MethodCalls(lang, on, val, left) : \E o \in {SetMethod(c)} : Did(c, o, o.l)
CallDict == on = "dict" /\ \E c \in MethodCalls(lang, on, val, left) : \E o \in {DictMethod(c)} : Did(c, o, o.d)
CallEnum == on = "enum" /\ \E c \in MethodCalls(lang, on, val, left) : \E o \in {Ruby!rubyEnumMethod(val, c.m, c.p, c.blk)} : Did(c, o, o.e)

\* The program goes on with the enumerator it has been answered.
TakeEnum ==
  /\ left > 0 /\ reply.bad = "no" /\ reply.a.k = "enum" /\ on # "enum"
  /\ on' = "enum" /\ val' = reply.a
  /\ UNCHANGED <<lang, reply, left>>

LibraryInit == \E b \in Beginnings : lang = b.lang /\ on = b.on /\ val = b.val /\ left = b.left /\ reply = Uncalled
LibraryNext == CallList \/ CallSet \/ CallDict \/ CallEnum \/ TakeEnum
LibrarySpec == LibraryInit /\ [][LibraryNext]_libraryVars

-----------------------------------------------------------------------------
(* What the methods promise, whatever the program does.                    *)

Means == INSTANCE Meaning

-----------------------------------------------------------------------------
(* Lists.                                                                  *)

Meant(c) == IF Given(c.blk) THEN c.m \in Means!MeantByBlock ELSE c.m \in Means!MeantPlain
MeansItsName(c, w) == c.bad = w.bad /\ (w.bad = "no" => c.a = w.a /\ c.seen = w.seen /\ Els(val') = w.t)
GoesOnAs(c, w) == c.bad = w.bad /\ val' = w.e /\ (w.bad = "no" => c.a = w.a /\ c.seen = w.seen)
Called == left' < left /\ reply'.blk.at = 0

\* Where the code does not do what the name says: Ruby's slice answers an empty list for a
\* place behind the end, and Kotlin's subList goes up to the last cell of the list's array.
Differs(c) ==
  \/ lang = "ruby" /\ c.m = "slice" /\ (Len(c.p) = 2 \/ IsRow(c.p[1])) /\ Means!Part(Els(val), c.p) = One(Nil)
  \/ lang = "kotlin" /\ c.m = "subList" /\ Num(c.p[2]) > val.n

\* A method does to the list, and answers, what its name says, as Meaning has it: it keeps
\* exactly the places it should, in their order, puts nothing but its arguments between
\* them, orders them and keeps equal ones as they were, asks its block once for each
\* element up to the one that decides, and refuses an index or an empty list where the
\* language does; the same for a set, which never has two equal members, and for an
\* enumerator, which keeps the elements there were and its place among them.
MethodsMeanTheirNames ==
  [][/\ Called /\ on = "list" /\ Meant(reply') /\ ~Differs(reply')
       => MeansItsName(reply', Means!Meaning(lang, reply'.m, Els(val), reply'.p, reply'.blk))
     /\ Called /\ on = "set" /\ ~Given(reply'.blk) /\ reply'.m \in Means!SetNames
       => MeansItsName(reply', Means!SetMeaning(lang, reply'.m, Els(val), reply'.p))
     /\ Called /\ on = "enum"
       => GoesOnAs(reply', Means!EnumMeaning(val, reply'.m, reply'.p, reply'.blk))]_libraryVars

\* A block may change the list it is called from.  What it is given is then still an element
\* the list had when the call began, or one the block has put there, and no element twice;
\* and when it only appends, neither what it is given nor the answer is another.
Grows(blk) == blk.m \in {"push", "append", "add"}
\* Methods that put what they have kept in place of the list, and so lose what came; and
\* ones that look at the list again after the walk, as the code of Ruby's do.
Rewrites == {"select!", "reject!", "map!", "sort_by!", "keep_if", "delete_if", "removeAll", "retainAll", "sort"}
OfNoElement == {"each_slice", "each_cons", "cycle", "ifEmpty", "getOrElse"}
LooksAgain == {"all?", "drop_while", "select!", "reject!"}
AsWithoutChange(c, w) ==
  LET changed == c.blk.at <= Len(w.seen)
  IN  w.bad = "no" =>
        /\ IsPrefix(SubSeq(w.seen, 1, Min({c.blk.at, Len(w.seen)})), c.seen)
        /\ ~changed \/ (Grows(c.blk) /\ c.m \notin LooksAgain) =>
             /\ c.seen = w.seen /\ c.a = w.a /\ c.bad = "no"
             /\ Els(val') = IF changed /\ c.m \notin Rewrites THEN w.t \o c.blk.args ELSE w.t
BlocksSeeMembers ==
  [][left' < left /\ on = "list" /\ reply'.blk.at > 0 /\ reply'.m \in Means!MeantByBlock \ OfNoElement =>
       /\ ToSet(reply'.seen) \subseteq ToSet(Els(val)) \cup ToSet(reply'.blk.args)
       /\ Len(reply'.seen) <= Len(Els(val))
       /\ AsWithoutChange(reply', Means!Meaning(lang, reply'.m, Els(val), reply'.p, [reply'.blk EXCEPT !.at = 0]))]_libraryVars

-----------------------------------------------------------------------------
(* Dictionaries.                                                           *)

Place(k, Same(_, _)) == dictScan(Els(val.keys), k, Same)
Lookup(k) ==
  CASE lang = "ruby" -> Ruby!rubyDictFind(val, k).at [] lang = "python" -> Py!pyDictFind(val, k).at [] lang = "kotlin" -> Kotlin!ktMapFind(val, k)

\* Whatever the calls, also the ones a block makes in the middle of a walk, a dictionary has
\* a value for each key and no two equal keys, and a lookup through the index, however old
\* it is, answers the place where a search through all keys finds the key first.
LookupsFindTheirKeys ==
  on = "dict" =>
    /\ val.keys.n = val.vals.n
    /\ \A i, j \in 1 .. val.keys.n : i # j => ~Means!MemberIn(lang, val.keys.c[i], val.keys.c[j])
    /\ \A k \in Keys : Lookup(k) = Place(k, LAMBDA a, b : Means!MemberIn(lang, a, b))

\* A dictionary is a map in the order of insertion: a call changes exactly the entries its
\* name says, answers for a missing key what the language does, keeps the first of two equal
\* keys with the last value, and asks its block once for each entry; and what it leaves is
\* found again.
MapsTo(c, w) == c.bad = w.bad /\ (w.bad = "no" => c.a = w.a /\ c.seen = w.seen /\ Rows(val') = w.t)
DictionariesAreMaps ==
  [][/\ on = "dict" => LookupsFindTheirKeys'
     /\ Called /\ on = "dict" =>
         MapsTo(reply', Means!DictMeaningOf(lang, reply'.m, Rows(val), val.other, reply'.p, reply'.blk))]_libraryVars
=============================================================================
