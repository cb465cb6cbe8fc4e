----------------------------- MODULE ScriptCache -----------------------------
(***************************************************************************)
(* The cache of compiled annotation scripts of a frozen run                *)
(* (abnf/scriptcache.go; prefetchCachedScripts and compileScript of        *)
(* abnf/frozen.go): mec processes of several builds that share one cache   *)
(* directory, each with its own map of modules and its own pool of loading *)
(* goroutines.                                                             *)
(*                                                                         *)
(* A key is <<build, script>>: the name of an entry hashes the bootstrap   *)
(* snapshot and the source.  It also names the module that the build emits *)
(* for the script; Emits are the keys whose script parses.  An entry is    *)
(* [of, len]: the first len tokens of the stored form of a module,         *)
(* Size[of] tokens when it is whole.  `loads', Readable all along, are the *)
(* <<of, len>> that a reader takes for that module; it takes none for      *)
(* another one.  A process may be killed at any step, and between two      *)
(* steps an entry may lose its end (a full disk, a power failure): `cuts'. *)
(***************************************************************************)
EXTENDS Integers, SequencesExt, FiniteSets

CONSTANTS
  Procs, Builds, Codes,
  Grammars,     \* each the annotation scripts of an a-grammar, in order
  NumCPU, Emits, Size, Readable,
  MaxStarts,    \* starts of a process
  MaxCuts,      \* entries that lose their end
  CutPoints     \* what may be left of them

Keys == Builds \X Codes
None == "none"
NoModule == <<None, None>>

ASSUME CacheAssumption ==
  /\ Size \in [Keys -> Nat] /\ Readable \subseteq Keys \X Nat
  /\ NumCPU \in Nat \ {0} /\ CutPoints \subseteq Nat
  /\ \A g \in Grammars : g \in Seq(Codes)

VARIABLES
  cache,        \* the entries of the directory, by key
  build, caches,\* of each process: its build; whether scriptCacheDir is set
  compiled,     \* k.compiled: scripts to modules
  pc, code,     \* what the process does, and for which script
  jobs, todo,   \* jobs not yet handed over; `codes'
  idle, busy,   \* how many goroutines wait for a job; the scripts that others load
  results,      \* the buffered channel of what has been loaded
  tmp,          \* the temporary file that is being written
  starts, cuts,
  loads         \* what readers take for modules

vars == <<cache, build, caches, compiled, pc, code, jobs, todo, idle, busy, results, tmp, starts, cuts, loads>>
process == <<build, caches, starts>>
pool == <<jobs, todo, idle, busy, results>>

NoEntry == [of |-> NoModule, len |-> 0]

Init ==
  /\ cache = [k \in Keys |-> NoEntry]
  /\ build = [p \in Procs |-> None]
  /\ caches = [p \in Procs |-> FALSE]
  /\ compiled = [p \in Procs |-> <<>>]
  /\ pc = [p \in Procs |-> "down"]
  /\ code = [p \in Procs |-> None]
  /\ jobs = [p \in Procs |-> <<>>]
  /\ todo = [p \in Procs |-> <<>>]
  /\ idle = [p \in Procs |-> 0]
  /\ busy = [p \in Procs |-> {}]
  /\ results = [p \in Procs |-> {}]
  /\ tmp = [p \in Procs |-> NoEntry]
  /\ starts = [p \in Procs |-> 0]
  /\ cuts = 0
  /\ loads = Readable

-----------------------------------------------------------------------------

\* Mutant: the name of an entry does not depend on the snapshot.
PathOfCode(p, c) == <<CHOOSE b \in Builds : TRUE, c>>

\* scriptCachePath: the key of the process's build.
Path(p, c) == <<build[p], c>>

\* loadCachedScript.
Load(p, c) ==
  LET e == cache[Path(p, c)]
  IN  IF caches[p] /\ <<e.of, e.len>> \in loads THEN e.of ELSE NoModule

\* A process starts, its cache turned off or its directory not creatable, or not.
Start(p) ==
  /\ pc[p] = "down" /\ starts[p] < MaxStarts
  /\ \E b \in Builds, on \in BOOLEAN :
       /\ build' = [build EXCEPT ![p] = b]
       /\ caches' = [caches EXCEPT ![p] = on]
  /\ compiled' = [compiled EXCEPT ![p] = <<>>]
  /\ pc' = [pc EXCEPT ![p] = "ready"]
  /\ starts' = [starts EXCEPT ![p] = @ + 1]
  /\ UNCHANGED <<cache, code, pool, tmp, cuts>>

\* prefetchCachedScripts: each script that is not there yet, where it first comes, in order.
Firsts(p, g) == {i \in DOMAIN g : g[i] \notin DOMAIN compiled[p] /\ \A j \in 1 .. i - 1 : g[j] # g[i]}
Rank(is, i) == Cardinality({j \in is : j < i})
Wanted(p, g) ==
  LET is == Firsts(p, g) IN [n \in 1 .. Cardinality(is) |-> g[CHOOSE i \in is : Rank(is, i) = n - 1]]

\* Mutant: one for each script.
PoolPerScript(codes) == Len(codes)

\* The goroutines: one for each processor, as long as there are scripts.
Pool(codes) == Min({NumCPU, Len(codes)})

Prefetch(p) ==
  /\ pc[p] = "ready" /\ caches[p]
  /\ \E g \in Grammars :
       LET codes == Wanted(p, g) IN
       /\ Len(codes) >= 2
       /\ todo' = [todo EXCEPT ![p] = codes]
       /\ jobs' = [jobs EXCEPT ![p] = codes]
       /\ idle' = [idle EXCEPT ![p] = Pool(codes)]
  /\ pc' = [pc EXCEPT ![p] = "handing"]
  /\ UNCHANGED <<cache, process, compiled, code, busy, results, tmp, cuts>>

\* jobs <- code meets a goroutine that receives.
GiveJob(p) ==
  /\ pc[p] = "handing" /\ jobs[p] # <<>> /\ idle[p] > 0
  /\ idle' = [idle EXCEPT ![p] = @ - 1]
  /\ busy' = [busy EXCEPT ![p] = @ \cup {Head(jobs[p])}]
  /\ jobs' = [jobs EXCEPT ![p] = Tail(@)]
  /\ UNCHANGED <<cache, process, compiled, pc, code, todo, results, tmp, cuts>>

\* Mutant: it holds one result.
RoomForOne(p) == results[p] = {}

\* The results channel holds as much as there is to load.
Room(p) == Cardinality(results[p]) < Len(todo[p])

\* A goroutine reads the entry of its script and sends what it got.
LoadJob(p) ==
  /\ \E c \in busy[p] :
       LET mod == Load(p, c) IN
       /\ mod # NoModule => Room(p)
       /\ results' = [results EXCEPT ![p] = IF mod = NoModule THEN @ ELSE @ \cup {<<c, mod>>}]
       /\ busy' = [busy EXCEPT ![p] = @ \ {c}]
  /\ idle' = [idle EXCEPT ![p] = @ + 1]
  /\ UNCHANGED <<cache, process, compiled, pc, code, jobs, todo, tmp, cuts>>

\* close(jobs).
CloseJobs(p) ==
  /\ pc[p] = "handing" /\ jobs[p] = <<>>
  /\ pc' = [pc EXCEPT ![p] = "waiting"]
  /\ UNCHANGED <<cache, process, compiled, code, pool, tmp, cuts>>

\* When all goroutines have ended (wg.Wait), the results go into the map.
Merged(f, loaded) ==
  [c \in DOMAIN f \cup {r[1] : r \in loaded} |->
     IF \E r \in loaded : r[1] = c THEN (CHOOSE r \in loaded : r[1] = c)[2] ELSE f[c]]
Fill(p) ==
  /\ pc[p] = "waiting" /\ busy[p] = {}
  /\ compiled' = [compiled EXCEPT ![p] = Merged(@, results[p])]
  /\ results' = [results EXCEPT ![p] = {}]
  /\ todo' = [todo EXCEPT ![p] = <<>>]
  /\ idle' = [idle EXCEPT ![p] = 0]
  /\ pc' = [pc EXCEPT ![p] = "ready"]
  /\ UNCHANGED <<cache, process, code, jobs, busy, tmp, cuts>>

-----------------------------------------------------------------------------

\* One more module in the map.
With(f, c, mod) == [x \in DOMAIN f \cup {c} |-> IF x = c THEN mod ELSE f[x]]

\* compileScript, of a script that the map does not hold: its entry is read,
Ask(p) ==
  /\ pc[p] = "ready"
  /\ \E c \in Codes \ DOMAIN compiled[p] :
       LET mod == Load(p, c) IN
       IF mod # NoModule
       THEN compiled' = [compiled EXCEPT ![p] = With(@, c, mod)] /\ UNCHANGED <<pc, code>>
       ELSE /\ pc' = [pc EXCEPT ![p] = "compiling"] /\ code' = [code EXCEPT ![p] = c]
            /\ UNCHANGED compiled
  /\ UNCHANGED <<cache, process, pool, tmp, cuts>>

\* or it is compiled; one that does not parse is a panic.  storeCachedScript
\* begins with a temporary file, if there is a directory and it can be made.
Compile(p) ==
  /\ pc[p] = "compiling"
  /\ pc' \in {[pc EXCEPT ![p] = s] :
                s \in IF <<build[p], code[p]>> \notin Emits THEN {"down"}
                      ELSE IF caches[p] THEN {"writing", "stored"} ELSE {"stored"}}
  /\ UNCHANGED <<cache, process, compiled, code, pool, tmp, cuts>>

\* The file is written in full, or that fails and it is removed.
WriteTemp(p) ==
  LET k == <<build[p], code[p]>> IN
  /\ pc[p] = "writing"
  /\ \/ tmp' = [tmp EXCEPT ![p] = [of |-> k, len |-> Size[k]]] /\ pc' = [pc EXCEPT ![p] = "renaming"]
     \/ tmp' = tmp /\ pc' = [pc EXCEPT ![p] = "stored"]
  /\ UNCHANGED <<cache, process, compiled, code, pool, cuts>>

\* It takes the entry's name, or that fails and it is removed.
Rename(p) ==
  /\ pc[p] = "renaming"
  /\ cache' \in {cache, [cache EXCEPT ![Path(p, code[p])] = tmp[p]]}
  /\ tmp' = [tmp EXCEPT ![p] = NoEntry]
  /\ pc' = [pc EXCEPT ![p] = "stored"]
  /\ UNCHANGED <<process, compiled, code, pool, cuts>>

\* k.compiled[code] = mod.
Keep(p) ==
  /\ pc[p] = "stored"
  /\ compiled' = [compiled EXCEPT ![p] = With(@, code[p], <<build[p], code[p]>>)]
  /\ pc' = [pc EXCEPT ![p] = "ready"]
  /\ code' = [code EXCEPT ![p] = None]
  /\ UNCHANGED <<cache, process, pool, tmp, cuts>>

-----------------------------------------------------------------------------

\* The process ends or is killed, whatever it is doing; a temporary file stays
\* behind under a name that no reader asks for.
Kill(p) ==
  /\ pc[p] # "down"
  /\ pc' = [pc EXCEPT ![p] = "down"]
  /\ compiled' = [compiled EXCEPT ![p] = <<>>]
  /\ code' = [code EXCEPT ![p] = None]
  /\ tmp' = [tmp EXCEPT ![p] = NoEntry]
  /\ idle' = [idle EXCEPT ![p] = 0]
  /\ busy' = [busy EXCEPT ![p] = {}]
  /\ jobs' = [jobs EXCEPT ![p] = <<>>]
  /\ results' = [results EXCEPT ![p] = {}]
  /\ todo' = [todo EXCEPT ![p] = <<>>]
  /\ UNCHANGED <<cache, process, cuts>>

Cut ==
  /\ cuts < MaxCuts
  /\ \E k \in Keys : \E n \in CutPoints :
       /\ n < cache[k].len
       /\ cache' = [cache EXCEPT ![k].len = n]
  /\ cuts' = cuts + 1
  /\ UNCHANGED <<process, compiled, pc, code, pool, tmp>>

\* What a process does on its own, with nobody asking for it.
Step(p) ==
  /\ UNCHANGED loads
  /\ \/ GiveJob(p) \/ LoadJob(p) \/ CloseJobs(p) \/ Fill(p)
     \/ Compile(p) \/ WriteTemp(p) \/ Rename(p) \/ Keep(p)

Next ==
  \/ \E p \in Procs : Step(p)
  \/ /\ UNCHANGED loads
     /\ Cut \/ \E p \in Procs : Start(p) \/ Prefetch(p) \/ Ask(p) \/ Kill(p)

\* The scheduler runs every goroutine and every process.
Fairness == \A p \in Procs : WF_vars(Step(p))
Spec == Init /\ [][Next]_vars /\ Fairness

-----------------------------------------------------------------------------
(* What the script cache promises to the processes that share it.          *)

Entries == [of : Keys, len : Nat] \cup {NoEntry}

\* Every variable has its type.
TypeOK ==
  /\ cache \in [Keys -> Entries]
  /\ build \in [Procs -> Builds \cup {None}] /\ caches \in [Procs -> BOOLEAN]
  /\ \A p \in Procs : DOMAIN compiled[p] \subseteq Codes
  /\ pc \in [Procs -> {"down", "ready", "handing", "waiting", "compiling", "writing", "renaming", "stored"}]
  /\ code \in [Procs -> Codes \cup {None}]
  /\ \A p \in Procs : \A i \in DOMAIN jobs[p] : jobs[p][i] \in Codes
  /\ idle \in [Procs -> 0 .. NumCPU] /\ busy \in [Procs -> SUBSET Codes]
  /\ tmp \in [Procs -> Entries]

\* Unless something outside cut it, an entry holds all of one module of its key
\* (storeCachedScript writes a temporary file and renames it), and reading it
\* back gives that module (encodeModule, decodeModule), except for what the
\* codec cannot read back.
CONSTANT Unreadable     \* the keys of such modules
EntriesAreWhole ==
  \A k \in Keys : cache[k] # NoEntry =>
    /\ cache[k].of = k
    /\ cuts = 0 => cache[k].len = Size[k]
    /\ cache[k].len = Size[k] /\ k \notin Unreadable => <<k, Size[k]>> \in loads

\* A module in the map of a process, or on its way there, does what this
\* process's own build emits for the script: other builds, writers killed half
\* way and entries that lost their end never show (loadCachedScript,
\* scriptCachePath), and what is written can be read; what is in flight has its type.
RunsWhatItsBuildEmits ==
  /\ TypeOK /\ EntriesAreWhole
  /\ \A p \in Procs :
    /\ \A c \in DOMAIN compiled[p] : compiled[p][c] = <<build[p], c>>
    /\ \A r \in results[p] : r[2] = <<build[p], r[1]>>

\* A prefetch and a compile come to an end: no goroutine waits for room in the
\* results channel that only their end would make.
WorkEnds == \A p \in Procs : pc[p] \notin {"down", "ready"} ~> pc[p] \in {"down", "ready"}
=============================================================================
