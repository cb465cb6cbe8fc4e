----------------------------- MODULE MCLibrary -----------------------------
(***************************************************************************)
(* What programs use of the Go runtime's libraries: the containers         *)
(* (LibraryCalls) and the regular expressions (MCRegex).  A behaviour      *)
(* shows one of the two, and the other one does nothing.                   *)
(***************************************************************************)
EXTENDS Library, MCRegex

C == INSTANCE LibraryCalls
MCKeys == C!MCKeys
MCBeginnings == C!MCBeginnings
MCMethodCalls(lg, kind, v, n) == C!MCMethodCalls(lg, kind, v, n)

-----------------------------------------------------------------------------
(* One or the other.                                                       *)

NoContainer == lang = "any" /\ on = "regex" /\ val = <<>> /\ left = 0 /\ reply = Uncalled
NoRegex ==
  /\ call = [text |-> <<>>, methods |-> <<>>, means |-> Wrong, use |-> ""] /\ re = [ok |-> FALSE] /\ phase = "ready"
  /\ pc = 1 /\ sp = 0 /\ at = 0 /\ ret = -1 /\ frames = <<>> /\ caps = <<>> /\ marks = <<>> /\ steps = 0 /\ over = FALSE
  /\ last = 0 /\ out = <<>> /\ todo = <<>> /\ lastIndex = 0 /\ hits = 0 /\ results = <<>>

CallsMethods == on # "regex" /\ LibraryNext /\ UNCHANGED methodVars
MatchesRegexes == on = "regex" /\ RegexNext /\ UNCHANGED libraryVars
MCSpec ==
  /\ (LibraryInit /\ NoRegex) \/ (NoContainer /\ RegexInit)
  /\ [][CallsMethods \/ MatchesRegexes]_<<libraryVars, methodVars>>
=============================================================================
