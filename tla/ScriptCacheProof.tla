-------------------------- MODULE ScriptCacheProof --------------------------
(***************************************************************************)
(* The frozen script cache and the scripts that run.  First an inductive   *)
(* invariant of ScriptCache and the theorem that follows from it for any   *)
(* number of processes, builds, scripts, grammars and processors, and any  *)
(* crashes and cuts; then one of Walk, with the theorem on scripts that    *)
(* nest.                                                                   *)
(***************************************************************************)
EXTENDS ScriptCache, Walk, FiniteSetTheorems, TLAPS

-----------------------------------------------------------------------------
(* The invariant.                                                          *)

Maps == UNION {[C -> Keys] : C \in SUBSET Codes}
Asks == {"compiling", "writing", "renaming", "stored"}
Pcs == {"down", "ready", "handing", "waiting"} \cup Asks

TypeInv ==
  /\ cache \in [Keys -> Entries]
  /\ build \in [Procs -> Builds \cup {None}] /\ caches \in [Procs -> BOOLEAN]
  /\ compiled \in [Procs -> Maps]
  /\ pc \in [Procs -> Pcs] /\ code \in [Procs -> Codes \cup {None}]
  /\ jobs \in [Procs -> Seq(Codes)]
  /\ idle \in [Procs -> Nat] /\ busy \in [Procs -> SUBSET Codes]
  /\ results \in [Procs -> SUBSET (Codes \X Keys)]
  /\ tmp \in [Procs -> Entries]
  /\ cuts \in Nat /\ loads = Readable

\* An entry is of its key and whole, unless something cut it.
CacheInv ==
  \A k \in Keys : cache[k] = NoEntry \/ (cache[k].of = k /\ (cuts = 0 => cache[k].len = Size[k]))

\* A process that is up is of a build, and its modules are of that build; what it writes
\* is of the script it compiles.
Mine(p) ==
  /\ pc[p] # "down" => build[p] \in Builds
  /\ pc[p] \in Asks => code[p] \in Codes
  /\ pc[p] = "renaming" => tmp[p].of = <<build[p], code[p]>> /\ tmp[p].len = Size[<<build[p], code[p]>>]
  /\ \A c \in DOMAIN compiled[p] : compiled[p][c] = <<build[p], c>>
  /\ \A r \in results[p] : r[2] = <<build[p], r[1]>>
MineInv == \A p \in Procs : Mine(p)

\* The goroutines of the pool are as many as there are processors, and have all ended
\* before the process does anything else.
PoolInv ==
  \A p \in Procs :
    /\ IsFiniteSet(busy[p]) /\ idle[p] + Cardinality(busy[p]) <= NumCPU
    /\ pc[p] # "handing" => jobs[p] = <<>>
    /\ pc[p] \notin {"handing", "waiting"} => busy[p] = {} /\ results[p] = {}

IInv == TypeInv /\ CacheInv /\ MineInv /\ PoolInv

-----------------------------------------------------------------------------
(* Maps, entries and the scripts to fetch.                                 *)

LEMMA InMaps ==
  ASSUME NEW C \in SUBSET Codes, NEW f \in [C -> Keys]
  PROVE  f \in Maps /\ DOMAIN f = C
  BY DEF Maps

LEMMA OfMaps ==
  ASSUME NEW f \in Maps
  PROVE  DOMAIN f \subseteq Codes /\ f \in [DOMAIN f -> Keys]
  BY DEF Maps

LEMMA NoMap == <<>> \in Maps /\ DOMAIN <<>> = {}
<1>1. DOMAIN <<>> = {}
  OBVIOUS
<1>2. <<>> \in [{} -> Keys]
  OBVIOUS
<1>. QED BY <1>1, <1>2, InMaps

LEMMA EntryTypes ==
  /\ NoEntry \in Entries
  /\ \A k \in Keys, n \in Nat : [of |-> k, len |-> n] \in Entries
  /\ \A k \in Keys : Size[k] \in Nat
  BY CacheAssumption DEF Entries

LEMMA Paths ==
  ASSUME NEW p \in Procs, build[p] \in Builds, NEW c \in Codes
  PROVE  Path(p, c) \in Keys /\ Path(p, c) = <<build[p], c>>
  BY DEF Path, Keys

\* The elements of a finite set have all ranks.
LEMMA Ranks ==
  ASSUME NEW is \in SUBSET Nat, IsFiniteSet(is)
  PROVE  \A k \in 1 .. Cardinality(is) : \E i \in is : Rank(is, i) = k - 1
<1> DEFINE n == Cardinality(is)
           below(i) == {j \in is : j < i}
           f == [i \in is |-> Rank(is, i)]
<1>1. n \in Nat
  BY FS_CardinalityType
<1>2. \A i \in is : IsFiniteSet(below(i)) /\ Cardinality(below(i)) \in Nat
  <2>1. TAKE i \in is
  <2>2. below(i) \in SUBSET is
    OBVIOUS
  <2>. QED BY <2>2, FS_Subset, FS_CardinalityType
<1>3. \A i \in is : Rank(is, i) \in 0 .. n - 1
  <2>1. TAKE i \in is
  <2>2. below(i) \in SUBSET is /\ below(i) # is
    OBVIOUS
  <2>3. Cardinality(below(i)) <= n /\ Cardinality(below(i)) # n
    BY <2>2, FS_Subset
  <2>. QED BY <1>1, <1>2, <2>3 DEF Rank
<1>4. \A i, j \in is : i < j => Rank(is, i) # Rank(is, j)
  <2>1. SUFFICES ASSUME NEW i \in is, NEW j \in is, i < j PROVE Rank(is, i) # Rank(is, j)
    OBVIOUS
  <2>2. below(i) \in SUBSET below(j) /\ below(i) # below(j)
    <3>1. i \in below(j) /\ i \notin below(i)
      BY <2>1
    <3>2. \A k \in below(i) : k \in below(j)
      BY <2>1
    <3>. QED BY <3>1, <3>2
  <2>3. Cardinality(below(i)) # Cardinality(below(j))
    BY <1>2, <2>2, FS_Subset
  <2>4. Rank(is, i) = Cardinality(below(i)) /\ Rank(is, j) = Cardinality(below(j))
    BY DEF Rank
  <2>. QED BY <2>3, <2>4
<1>5. f \in Injection(is, 0 .. n - 1)
  <2>1. \A i, j \in is : i = j \/ i < j \/ j < i
    OBVIOUS
  <2>2. f \in [is -> 0 .. n - 1] /\ \A i, j \in is : f[i] = f[j] => i = j
    BY <1>3, <1>4, <2>1
  <2>. HIDE DEF f, n
  <2>. QED BY <2>2 DEF Injection, IsInjective
<1>6. IsFiniteSet(0 .. n - 1) /\ Cardinality(0 .. n - 1) = n
  <2>. HIDE DEF n
  <2>1. 0 \in Int /\ n - 1 \in Int
    BY <1>1
  <2>2. Cardinality(0 .. n - 1) = IF 0 > n - 1 THEN 0 ELSE n - 1 - 0 + 1
    BY <2>1, FS_Interval
  <2>. QED BY <1>1, <2>1, <2>2, FS_Interval
<1>7. f \in Surjection(is, 0 .. n - 1)
  <2>. HIDE DEF f
  <2>. QED BY <1>5, <1>6, FS_Injection
<1>8. \A t \in 0 .. n - 1 : \E i \in is : f[i] = t
  <2>. HIDE DEF f
  <2>. QED BY <1>7 DEF Surjection
<1>. QED BY <1>1, <1>8

LEMMA WantedType ==
  ASSUME NEW p \in Procs, NEW g \in Grammars
  PROVE  Wanted(p, g) \in Seq(Codes) /\ Len(Wanted(p, g)) \in Nat
<1> DEFINE is == Firsts(p, g)
           at(n) == CHOOSE i \in is : Rank(is, i) = n - 1
<1>1. g \in Seq(Codes)
  BY CacheAssumption
<1>2. is \in SUBSET (1 .. Len(g)) /\ Len(g) \in Nat
  BY <1>1 DEF Firsts
<1>3. IsFiniteSet(1 .. Len(g))
  BY <1>2, FS_Interval
<1>4. IsFiniteSet(is) /\ is \in SUBSET Nat /\ Cardinality(is) \in Nat
  BY <1>2, <1>3, FS_Subset, FS_CardinalityType
<1>5. \A n \in 1 .. Cardinality(is) : at(n) \in is
  BY <1>4, Ranks
<1>6. \A n \in 1 .. Cardinality(is) : g[at(n)] \in Codes
  BY <1>1, <1>2, <1>5
<1>7. Wanted(p, g) = [n \in 1 .. Cardinality(is) |-> g[at(n)]]
  BY DEF Wanted
<1> HIDE DEF is, at
<1>. QED BY <1>4, <1>6, <1>7

\* What a reader gets: the module of its build and script, or none.
LEMMA Loaded ==
  ASSUME IInv, NEW p \in Procs, build[p] \in Builds, NEW c \in Codes, Load(p, c) # NoModule
  PROVE  Load(p, c) = Path(p, c) /\ Path(p, c) \in Keys
<1>1. Path(p, c) \in Keys
  BY Paths
<1>2. Load(p, c) = cache[Path(p, c)].of
  BY DEF Load
<1>3. cache[Path(p, c)] # NoEntry
  BY <1>2 DEF NoEntry
<1>. QED BY <1>1, <1>2, <1>3 DEF IInv, CacheInv

\* What a step leaves alone of a process.
LEMMA StaysMine ==
  ASSUME NEW q, Mine(q), build'[q] = build[q], compiled'[q] = compiled[q], results'[q] = results[q],
         pc'[q] = pc[q] \/ (pc'[q] \in {"ready", "handing", "waiting"} /\ pc[q] # "down"),
         code'[q] = code[q] \/ pc'[q] \notin Asks, tmp'[q] = tmp[q] \/ pc'[q] # "renaming"
  PROVE  Mine(q)'
<1>1. "renaming" \in Asks /\ {"ready", "handing", "waiting"} \cap Asks = {}
  BY DEF Asks
<1>. QED BY <1>1 DEF Mine

LEMMA PoolSize ==
  ASSUME NEW codes, Len(codes) \in Nat
  PROVE  Pool(codes) \in Nat /\ Pool(codes) <= NumCPU
<1> DEFINE S == {NumCPU, Len(codes)}
<1>1. NumCPU \in Nat
  BY CacheAssumption
<1>2. \E x \in S : \A y \in S : x <= y
  BY <1>1
<1>3. Pool(codes) \in S /\ \A y \in S : Pool(codes) <= y
  BY <1>2 DEF Pool, Min
<1>. QED BY <1>1, <1>3

-----------------------------------------------------------------------------
(* Prefetching.                                                            *)

LEMMA StartInv == ASSUME IInv, NEW p \in Procs, Start(p), UNCHANGED loads PROVE IInv'
<1>1. PICK b \in Builds, on \in BOOLEAN :
        build' = [build EXCEPT ![p] = b] /\ caches' = [caches EXCEPT ![p] = on]
  BY DEF Start
<1>2. /\ compiled' = [compiled EXCEPT ![p] = <<>>] /\ pc' = [pc EXCEPT ![p] = "ready"] /\ pc[p] = "down"
      /\ UNCHANGED <<cache, code, jobs, todo, idle, busy, results, tmp, cuts>>
  BY DEF Start, pool
<1>3. TypeInv /\ CacheInv /\ MineInv /\ PoolInv
  BY DEF IInv
<1>4. TypeInv'
  BY <1>1, <1>2, <1>3, NoMap DEF TypeInv, Pcs
<1>5. CacheInv'
  BY <1>2, <1>3 DEF CacheInv
<1>6. /\ build'[p] = b /\ compiled'[p] = <<>> /\ pc'[p] = "ready"
      /\ \A q \in Procs \ {p} : build'[q] = build[q] /\ compiled'[q] = compiled[q] /\ pc'[q] = pc[q]
  BY <1>1, <1>2, <1>3 DEF TypeInv
<1>7. PoolInv'
  BY <1>2, <1>3, <1>6 DEF PoolInv
<1>8. MineInv'
  <2>1. results[p] = {} /\ "ready" \notin Asks /\ DOMAIN <<>> = {}
    BY <1>2, <1>3, NoMap DEF PoolInv, Asks
  <2>2. Mine(p)'
    BY <1>2, <1>6, <2>1 DEF Mine
  <2>3. \A q \in Procs \ {p} : Mine(q)'
    BY <1>2, <1>3, <1>6, StaysMine DEF MineInv
  <2>. QED BY <2>2, <2>3 DEF MineInv
<1>. QED BY <1>4, <1>5, <1>7, <1>8 DEF IInv

LEMMA PrefetchInv == ASSUME IInv, NEW p \in Procs, Prefetch(p), UNCHANGED loads PROVE IInv'
<1>1. PICK g \in Grammars : /\ jobs' = [jobs EXCEPT ![p] = Wanted(p, g)]
                            /\ idle' = [idle EXCEPT ![p] = Pool(Wanted(p, g))]
  BY DEF Prefetch
<1>2. /\ pc' = [pc EXCEPT ![p] = "handing"] /\ pc[p] = "ready"
      /\ UNCHANGED <<cache, build, caches, compiled, code, busy, results, tmp, cuts>>
  BY DEF Prefetch, process
<1>3. TypeInv /\ CacheInv /\ MineInv /\ PoolInv
  BY DEF IInv
<1>4. Wanted(p, g) \in Seq(Codes) /\ Pool(Wanted(p, g)) \in Nat /\ Pool(Wanted(p, g)) <= NumCPU
  BY WantedType, PoolSize
<1>5. TypeInv'
  BY <1>1, <1>2, <1>3, <1>4 DEF TypeInv, Pcs
<1>6. CacheInv'
  BY <1>2, <1>3 DEF CacheInv
<1>7. /\ pc'[p] = "handing" /\ idle'[p] = Pool(Wanted(p, g))
      /\ \A q \in Procs \ {p} : pc'[q] = pc[q] /\ idle'[q] = idle[q] /\ jobs'[q] = jobs[q]
  BY <1>1, <1>2, <1>3 DEF TypeInv
<1>8. busy[p] = {} /\ Cardinality(busy[p]) = 0
  BY <1>2, <1>3, FS_EmptySet DEF PoolInv
<1>9. PoolInv'
  <2>1. idle'[p] + Cardinality(busy'[p]) <= NumCPU /\ busy' = busy
    BY <1>2, <1>4, <1>7, <1>8, CacheAssumption
  <2>2. \A q \in Procs \ {p} : idle'[q] + Cardinality(busy'[q]) <= NumCPU
    BY <1>3, <1>7, <2>1 DEF PoolInv
  <2>. QED BY <1>2, <1>3, <1>7, <2>1, <2>2 DEF PoolInv
<1>10. MineInv'
  <2>1. \A q \in Procs : pc'[q] = pc[q] \/ (pc'[q] = "handing" /\ pc[q] # "down")
    BY <1>2, <1>7
  <2>. QED BY <1>2, <1>3, <2>1, StaysMine DEF MineInv
<1>. QED BY <1>5, <1>6, <1>9, <1>10 DEF IInv

LEMMA GiveJobInv == ASSUME IInv, NEW p \in Procs, GiveJob(p), UNCHANGED loads PROVE IInv'
<1> DEFINE c == Head(jobs[p])
<1>1. /\ idle' = [idle EXCEPT ![p] = idle[p] - 1] /\ idle[p] > 0 /\ jobs[p] # <<>>
      /\ busy' = [busy EXCEPT ![p] = busy[p] \cup {c}] /\ jobs' = [jobs EXCEPT ![p] = Tail(jobs[p])]
      /\ pc[p] = "handing" /\ UNCHANGED <<cache, build, caches, compiled, pc, code, results, tmp, cuts>>
  BY DEF GiveJob, process, IInv, TypeInv
<1>2. TypeInv /\ CacheInv /\ MineInv /\ PoolInv
  BY DEF IInv
<1>3. c \in Codes /\ Tail(jobs[p]) \in Seq(Codes)
  <2>1. jobs[p] \in Seq(Codes) /\ jobs[p] # <<>>
    BY <1>1, <1>2 DEF TypeInv
  <2>. QED BY <2>1
<1> HIDE DEF c
<1>4. idle[p] \in Nat /\ idle[p] - 1 \in Nat /\ busy[p] \cup {c} \in SUBSET Codes
  BY <1>1, <1>2, <1>3 DEF TypeInv
<1>5. TypeInv'
  BY <1>1, <1>2, <1>3, <1>4 DEF TypeInv
<1>6. CacheInv' /\ MineInv'
  BY <1>1, <1>2, StaysMine DEF CacheInv, MineInv
<1>7. /\ IsFiniteSet(busy[p]) /\ IsFiniteSet(busy[p] \cup {c}) /\ Cardinality(busy[p]) \in Nat
      /\ Cardinality(busy[p] \cup {c}) \in Nat /\ Cardinality(busy[p] \cup {c}) <= Cardinality(busy[p]) + 1
  <2>1. IsFiniteSet(busy[p])
    BY <1>2 DEF PoolInv
  <2>2. Cardinality(busy[p] \cup {c}) = IF c \in busy[p] THEN Cardinality(busy[p]) ELSE Cardinality(busy[p]) + 1
    BY <2>1, FS_AddElement
  <2>. QED BY <2>1, <2>2, FS_AddElement, FS_CardinalityType
<1>8. /\ busy'[p] = busy[p] \cup {c} /\ idle'[p] = idle[p] - 1
      /\ \A q \in Procs \ {p} : busy'[q] = busy[q] /\ idle'[q] = idle[q] /\ jobs'[q] = jobs[q]
  BY <1>1, <1>2 DEF TypeInv
<1>9. idle'[p] + Cardinality(busy'[p]) <= NumCPU
  BY <1>2, <1>4, <1>7, <1>8, CacheAssumption DEF PoolInv
<1>10. PoolInv'
  BY <1>1, <1>2, <1>7, <1>8, <1>9 DEF PoolInv
<1>. QED BY <1>5, <1>6, <1>10 DEF IInv

LEMMA LoadJobInv == ASSUME IInv, NEW p \in Procs, LoadJob(p), UNCHANGED loads PROVE IInv'
<1>1. PICK c \in busy[p] :
        /\ results' = [results EXCEPT ![p] = IF Load(p, c) = NoModule THEN @ ELSE @ \cup {<<c, Load(p, c)>>}]
        /\ busy' = [busy EXCEPT ![p] = @ \ {c}]
  BY DEF LoadJob
<1>2. /\ idle' = [idle EXCEPT ![p] = idle[p] + 1]
      /\ UNCHANGED <<cache, build, caches, compiled, pc, code, jobs, tmp, cuts>>
  BY DEF LoadJob, process, IInv, TypeInv
<1>3. TypeInv /\ CacheInv /\ MineInv /\ PoolInv
  BY DEF IInv
<1>4. c \in Codes /\ pc[p] \in {"handing", "waiting"} /\ build[p] \in Builds
  BY <1>1, <1>3 DEF TypeInv, PoolInv, MineInv, Mine
<1>5. Load(p, c) # NoModule => Load(p, c) = Path(p, c) /\ Path(p, c) \in Keys
  BY <1>4, Loaded
<1>6. /\ \A r \in results'[p] : r \in results[p] \/ (r = <<c, Path(p, c)>> /\ Path(p, c) \in Keys)
      /\ \A q \in Procs \ {p} : results'[q] = results[q]
      /\ results' \in [Procs -> SUBSET (Codes \X Keys)]
  <2>1. CASE Load(p, c) = NoModule
    BY <1>1, <1>3, <2>1 DEF TypeInv
  <2>2. CASE Load(p, c) # NoModule
    <3>1. results' = [results EXCEPT ![p] = @ \cup {<<c, Path(p, c)>>}] /\ <<c, Path(p, c)>> \in Codes \X Keys
      BY <1>1, <1>4, <1>5, <2>2
    <3>. QED BY <1>3, <1>5, <2>2, <3>1 DEF TypeInv
  <2>. QED BY <2>1, <2>2
<1>7. TypeInv'
  BY <1>1, <1>2, <1>3, <1>6 DEF TypeInv
<1>8. CacheInv'
  BY <1>2, <1>3 DEF CacheInv
<1>9. MineInv'
  <2>1. \A r \in results'[p] : r[2] = <<build[p], r[1]>>
    <3>1. TAKE r \in results'[p]
    <3>2. CASE r \in results[p]
      BY <1>3, <3>2 DEF MineInv, Mine
    <3>3. CASE r = <<c, Path(p, c)>>
      BY <3>3 DEF Path
    <3>. QED BY <1>6, <3>2, <3>3
  <2>2. Mine(p)'
    BY <1>2, <1>3, <2>1 DEF MineInv, Mine
  <2>3. \A q \in Procs \ {p} : Mine(q)'
    BY <1>2, <1>3, <1>6, StaysMine DEF MineInv
  <2>. QED BY <2>2, <2>3 DEF MineInv
<1>10. /\ IsFiniteSet(busy[p] \ {c}) /\ Cardinality(busy[p]) \in Nat
       /\ Cardinality(busy[p] \ {c}) = Cardinality(busy[p]) - 1
  BY <1>1, <1>3, FS_RemoveElement, FS_CardinalityType DEF PoolInv
<1>11. /\ busy'[p] = busy[p] \ {c} /\ idle'[p] = idle[p] + 1 /\ idle[p] \in Nat
       /\ \A q \in Procs \ {p} : busy'[q] = busy[q] /\ idle'[q] = idle[q]
  BY <1>1, <1>2, <1>3 DEF TypeInv
<1>12. idle'[p] + Cardinality(busy'[p]) <= NumCPU
  BY <1>3, <1>10, <1>11, CacheAssumption DEF PoolInv
<1>13. PoolInv'
  BY <1>2, <1>3, <1>4, <1>6, <1>10, <1>11, <1>12 DEF PoolInv
<1>. QED BY <1>7, <1>8, <1>9, <1>13 DEF IInv

LEMMA CloseJobsInv == ASSUME IInv, NEW p \in Procs, CloseJobs(p), UNCHANGED loads PROVE IInv'
<1>1. /\ pc[p] = "handing" /\ jobs[p] = <<>> /\ pc' = [pc EXCEPT ![p] = "waiting"]
      /\ UNCHANGED <<cache, build, caches, compiled, code, jobs, idle, busy, results, tmp, cuts>>
  BY DEF CloseJobs, process, pool
<1>2. TypeInv /\ CacheInv /\ MineInv /\ PoolInv
  BY DEF IInv
<1>3. TypeInv' /\ CacheInv'
  BY <1>1, <1>2 DEF TypeInv, CacheInv, Pcs
<1>4. pc'[p] = "waiting" /\ \A q \in Procs \ {p} : pc'[q] = pc[q]
  BY <1>1, <1>2 DEF TypeInv
<1>5. MineInv'
  <2>1. \A q \in Procs : pc'[q] = pc[q] \/ (pc'[q] = "waiting" /\ pc[q] # "down")
    BY <1>1, <1>4
  <2>2. \A q \in Procs : Mine(q) /\ build'[q] = build[q] /\ compiled'[q] = compiled[q]
          /\ results'[q] = results[q] /\ code'[q] = code[q] /\ tmp'[q] = tmp[q]
    BY <1>1, <1>2 DEF MineInv
  <2>. QED BY <2>1, <2>2, StaysMine DEF MineInv
<1>6. PoolInv'
  BY <1>1, <1>2, <1>4 DEF PoolInv
<1>. QED BY <1>3, <1>5, <1>6 DEF IInv

LEMMA MergedMaps ==
  ASSUME NEW f \in Maps, NEW loaded \in SUBSET (Codes \X Keys)
  PROVE  /\ Merged(f, loaded) \in Maps
         /\ \A c \in DOMAIN Merged(f, loaded) :
              \/ \E r \in loaded : r[1] = c /\ Merged(f, loaded)[c] = r[2]
              \/ c \in DOMAIN f /\ Merged(f, loaded)[c] = f[c]
<1> DEFINE C == DOMAIN f \cup {r[1] : r \in loaded}
           pick(c) == CHOOSE r \in loaded : r[1] = c
           m == Merged(f, loaded)
<1>1. DOMAIN f \subseteq Codes /\ f \in [DOMAIN f -> Keys]
  BY OfMaps
<1>2. C \in SUBSET Codes
  BY <1>1
<1>3. \A c \in C : (\E r \in loaded : r[1] = c) => pick(c) \in loaded /\ pick(c)[1] = c
  OBVIOUS
<1>4. m = [c \in C |-> IF \E r \in loaded : r[1] = c THEN pick(c)[2] ELSE f[c]]
  BY DEF Merged
<1>5. \A r \in loaded : r[2] \in Keys
  OBVIOUS
<1>6. \A c \in C : (\E r \in loaded : r[1] = c) \/ c \in DOMAIN f
  OBVIOUS
<1> HIDE DEF m, C, pick
<1>7. m \in [C -> Keys]
  BY <1>1, <1>3, <1>4, <1>5, <1>6
<1>8. m \in Maps /\ DOMAIN m = C
  BY <1>2, <1>7, InMaps
<1>9. ASSUME NEW c \in C
      PROVE  (\E r \in loaded : r[1] = c /\ m[c] = r[2]) \/ (c \in DOMAIN f /\ m[c] = f[c])
  <2>1. CASE \E r \in loaded : r[1] = c
    <3>1. m[c] = pick(c)[2]
      BY <1>4, <2>1
    <3>. QED BY <1>3, <2>1, <3>1
  <2>2. CASE ~\E r \in loaded : r[1] = c
    BY <1>4, <1>6, <2>2
  <2>. QED BY <2>1, <2>2
<1>. QED BY <1>8, <1>9 DEF m

LEMMA FillInv == ASSUME IInv, NEW p \in Procs, Fill(p), UNCHANGED loads PROVE IInv'
<1> DEFINE m == Merged(compiled[p], results[p])
<1>1. /\ pc[p] = "waiting" /\ busy[p] = {} /\ pc' = [pc EXCEPT ![p] = "ready"]
      /\ results' = [results EXCEPT ![p] = {}] /\ idle' = [idle EXCEPT ![p] = 0]
      /\ UNCHANGED <<cache, build, caches, code, jobs, busy, tmp, cuts>>
  BY DEF Fill, process
<1>2. TypeInv /\ CacheInv /\ MineInv /\ PoolInv
  BY DEF IInv
<1>3. compiled' = [compiled EXCEPT ![p] = m]
  BY <1>2 DEF Fill, TypeInv
<1>4. compiled[p] \in Maps /\ results[p] \in SUBSET (Codes \X Keys)
  BY <1>2 DEF TypeInv
<1>5. m \in Maps /\ \A c \in DOMAIN m : m[c] = <<build[p], c>>
  <2>1. /\ m \in Maps
        /\ \A c \in DOMAIN m : \/ \E r \in results[p] : r[1] = c /\ m[c] = r[2]
                               \/ c \in DOMAIN compiled[p] /\ m[c] = compiled[p][c]
    BY <1>4, MergedMaps
  <2>2. /\ \A c \in DOMAIN compiled[p] : compiled[p][c] = <<build[p], c>>
        /\ \A r \in results[p] : r[2] = <<build[p], r[1]>>
    BY <1>2 DEF MineInv, Mine
  <2>. HIDE DEF m
  <2>. QED BY <2>1, <2>2
<1> HIDE DEF m
<1>6. TypeInv' /\ CacheInv'
  BY <1>1, <1>2, <1>3, <1>5 DEF TypeInv, CacheInv, Pcs
<1>7. /\ pc'[p] = "ready" /\ compiled'[p] = m /\ results'[p] = {} /\ idle'[p] = 0
      /\ \A q \in Procs \ {p} : /\ pc'[q] = pc[q] /\ compiled'[q] = compiled[q]
                                /\ results'[q] = results[q] /\ idle'[q] = idle[q]
  BY <1>1, <1>2, <1>3 DEF TypeInv
<1>8. MineInv'
  <2>1. Mine(p)'
    BY <1>1, <1>2, <1>5, <1>7 DEF MineInv, Mine, Asks
  <2>2. \A q \in Procs \ {p} : Mine(q)'
    BY <1>1, <1>2, <1>7, StaysMine DEF MineInv
  <2>. QED BY <2>1, <2>2 DEF MineInv
<1>9. Cardinality(busy'[p]) = 0 /\ 0 + Cardinality(busy'[p]) <= NumCPU
  <2>1. busy'[p] = {}
    BY <1>1
  <2>2. Cardinality(busy'[p]) = 0
    BY <2>1, FS_EmptySet
  <2>. QED BY <2>2, CacheAssumption
<1>10. PoolInv'
  BY <1>1, <1>2, <1>7, <1>9 DEF PoolInv
<1>. QED BY <1>6, <1>8, <1>10 DEF IInv

-----------------------------------------------------------------------------
(* Compiling.                                                              *)

LEMMA WithMaps ==
  ASSUME NEW f \in Maps, NEW c \in Codes, NEW k \in Keys
  PROVE  /\ With(f, c, k) \in Maps /\ DOMAIN With(f, c, k) = DOMAIN f \cup {c}
         /\ With(f, c, k)[c] = k /\ \A x \in DOMAIN f \ {c} : With(f, c, k)[x] = f[x]
<1>1. DOMAIN f \cup {c} \in SUBSET Codes /\ With(f, c, k) \in [DOMAIN f \cup {c} -> Keys]
  BY OfMaps DEF With
<1>. QED BY <1>1, InMaps DEF With

\* A process that is not fetching gets one more module, of its own build.
LEMMA MoreInv ==
  ASSUME IInv, NEW p \in Procs, NEW c \in Codes, build[p] \in Builds,
         compiled' = [compiled EXCEPT ![p] = With(compiled[p], c, <<build[p], c>>)],
         UNCHANGED <<cache, build, caches, jobs, idle, busy, results, tmp, cuts, loads>>,
         pc[p] \notin {"down", "handing", "waiting"}, pc' = [pc EXCEPT ![p] = "ready"],
         NEW d \in Codes \cup {None}, code' = [code EXCEPT ![p] = d]
  PROVE  IInv'
<1> DEFINE k == <<build[p], c>>
           m == With(compiled[p], c, k)
<1>1. TypeInv /\ CacheInv /\ MineInv /\ PoolInv
  BY DEF IInv
<1>2. k \in Keys /\ compiled[p] \in Maps
  BY <1>1 DEF TypeInv, Keys
<1>3. compiled' = [compiled EXCEPT ![p] = m]
  OBVIOUS
<1> HIDE DEF k
<1>4. /\ m \in Maps /\ DOMAIN m = DOMAIN compiled[p] \cup {c} /\ m[c] = k
      /\ \A x \in DOMAIN compiled[p] \ {c} : m[x] = compiled[p][x]
  <2> DEFINE mine == compiled[p]
  <2>1. mine \in Maps BY <1>2
  <2> HIDE DEF mine
  <2>2. LET w == With(mine, c, k)
        IN  w \in Maps /\ DOMAIN w = DOMAIN mine \cup {c} /\ w[c] = k /\ \A x \in DOMAIN mine \ {c} : w[x] = mine[x]
    BY <1>2, <2>1, WithMaps
  <2> QED BY <2>2 DEF mine
<1> HIDE DEF m
<1>5. TypeInv' /\ CacheInv'
  BY <1>1, <1>3, <1>4 DEF TypeInv, CacheInv, Pcs
<1>6. /\ pc'[p] = "ready" /\ compiled'[p] = m
      /\ \A q \in Procs \ {p} : pc'[q] = pc[q] /\ compiled'[q] = compiled[q] /\ code'[q] = code[q]
  BY <1>1, <1>3 DEF TypeInv
<1>7. \A x \in DOMAIN m : m[x] = <<build[p], x>>
  BY <1>1, <1>4 DEF MineInv, Mine, k
<1>8. MineInv'
  <2>1. Mine(p)'
    BY <1>1, <1>6, <1>7 DEF MineInv, Mine, Asks
  <2>2. \A q \in Procs \ {p} : Mine(q)'
    BY <1>1, <1>6, StaysMine DEF MineInv
  <2>. QED BY <2>1, <2>2 DEF MineInv
<1>9. PoolInv'
  BY <1>1, <1>6 DEF PoolInv
<1>. QED BY <1>5, <1>8, <1>9 DEF IInv

\* A process that is not fetching goes on to another place, with a script to compile there.
LEMMA GoInv ==
  ASSUME IInv, NEW p \in Procs, pc[p] \notin {"down", "handing", "waiting"},
         UNCHANGED <<cache, build, caches, compiled, jobs, idle, busy, results, cuts, loads>>,
         NEW to \in {"down", "ready"} \cup Asks, pc' = [pc EXCEPT ![p] = to],
         NEW d \in Codes \cup {None}, code' = [code EXCEPT ![p] = d], to \in Asks => d \in Codes,
         NEW e \in Entries, tmp' = [tmp EXCEPT ![p] = e],
         to = "renaming" => e.of = <<build[p], d>> /\ e.len = Size[<<build[p], d>>]
  PROVE  IInv'
<1>1. TypeInv /\ CacheInv /\ MineInv /\ PoolInv
  BY DEF IInv
<1>2. TypeInv' /\ CacheInv'
  BY <1>1 DEF TypeInv, CacheInv, Pcs
<1>3. /\ pc'[p] = to /\ code'[p] = d /\ tmp'[p] = e
      /\ \A q \in Procs \ {p} : pc'[q] = pc[q] /\ code'[q] = code[q] /\ tmp'[q] = tmp[q]
  BY <1>1 DEF TypeInv
<1>4. MineInv'
  <2>1. Mine(p)'
    BY <1>1, <1>3 DEF MineInv, Mine
  <2>2. \A q \in Procs \ {p} : Mine(q)'
    BY <1>1, <1>3, StaysMine DEF MineInv
  <2>. QED BY <2>1, <2>2 DEF MineInv
<1>5. to \notin {"handing", "waiting"}
  BY DEF Asks
<1>6. PoolInv'
  BY <1>1, <1>3, <1>5 DEF PoolInv
<1>. QED BY <1>2, <1>4, <1>6 DEF IInv

LEMMA AskInv == ASSUME IInv, NEW p \in Procs, Ask(p), UNCHANGED loads PROVE IInv'
<1>1. PICK c \in Codes \ DOMAIN compiled[p] :
        IF Load(p, c) # NoModule
        THEN compiled' = [compiled EXCEPT ![p] = With(@, c, Load(p, c))] /\ UNCHANGED <<pc, code>>
        ELSE /\ pc' = [pc EXCEPT ![p] = "compiling"] /\ code' = [code EXCEPT ![p] = c]
             /\ UNCHANGED compiled
  BY DEF Ask
<1>2. pc[p] = "ready" /\ UNCHANGED <<cache, build, caches, jobs, idle, busy, results, tmp, cuts>>
  BY DEF Ask, process, pool
<1>3. TypeInv /\ build[p] \in Builds
  BY <1>2 DEF IInv, MineInv, Mine
<1>4. c \in Codes
  OBVIOUS
<1>5. CASE Load(p, c) # NoModule
  <2>1. Load(p, c) = <<build[p], c>>
    BY <1>3, <1>4, <1>5, Loaded, Paths
  <2>2. compiled' = [compiled EXCEPT ![p] = With(compiled[p], c, <<build[p], c>>)]
    BY <1>1, <1>3, <1>5, <2>1 DEF TypeInv
  <2>3. pc' = [pc EXCEPT ![p] = "ready"] /\ code' = [code EXCEPT ![p] = code[p]] /\ code[p] \in Codes \cup {None}
    BY <1>1, <1>2, <1>3, <1>5 DEF TypeInv
  <2>. QED BY <1>2, <1>3, <1>4, <2>2, <2>3, MoreInv
<1>6. CASE Load(p, c) = NoModule
  <2>1. pc' = [pc EXCEPT ![p] = "compiling"] /\ code' = [code EXCEPT ![p] = c] /\ UNCHANGED compiled
    BY <1>1, <1>6
  <2>2. tmp' = [tmp EXCEPT ![p] = tmp[p]] /\ tmp[p] \in Entries /\ "compiling" \in {"down", "ready"} \cup Asks
    BY <1>2, <1>3 DEF TypeInv, Asks
  <2>. QED BY <1>2, <1>3, <1>4, <2>1, <2>2, GoInv
<1>. QED BY <1>5, <1>6

LEMMA CompileInv == ASSUME IInv, NEW p \in Procs, Compile(p), UNCHANGED loads PROVE IInv'
<1>1. PICK to \in {"down", "writing", "stored"} : pc' = [pc EXCEPT ![p] = to]
  BY DEF Compile
<1>2. pc[p] = "compiling" /\ UNCHANGED <<cache, build, caches, compiled, code, jobs, idle, busy, results, tmp, cuts>>
  BY DEF Compile, process, pool
<1>3. TypeInv /\ code[p] \in Codes
  BY <1>2 DEF IInv, MineInv, Mine, Asks
<1>4. /\ to \in {"down", "ready"} \cup Asks /\ to # "renaming"
      /\ code' = [code EXCEPT ![p] = code[p]] /\ tmp' = [tmp EXCEPT ![p] = tmp[p]] /\ tmp[p] \in Entries
  BY <1>2, <1>3 DEF TypeInv, Asks
<1>. QED BY <1>1, <1>2, <1>3, <1>4, GoInv

LEMMA WriteTempInv == ASSUME IInv, NEW p \in Procs, WriteTemp(p), UNCHANGED loads PROVE IInv'
<1> DEFINE k == <<build[p], code[p]>>
           e == [of |-> k, len |-> Size[k]]
<1>1. pc[p] = "writing" /\ UNCHANGED <<cache, build, caches, compiled, code, jobs, idle, busy, results, cuts>>
  BY DEF WriteTemp, process, pool
<1>2. TypeInv /\ code[p] \in Codes /\ build[p] \in Builds
  BY <1>1 DEF IInv, MineInv, Mine, Asks
<1>3. code' = [code EXCEPT ![p] = code[p]] /\ tmp = [tmp EXCEPT ![p] = tmp[p]] /\ tmp[p] \in Entries
  BY <1>1, <1>2 DEF TypeInv
<1>4. k \in Keys
  BY <1>2 DEF Keys
<1>5. e \in Entries
  BY <1>4, EntryTypes
<1>6. {"renaming", "stored"} \subseteq Asks
  BY DEF Asks
<1>7. CASE tmp' = [tmp EXCEPT ![p] = e] /\ pc' = [pc EXCEPT ![p] = "renaming"]
  <2>1. e.of = <<build[p], code[p]>> /\ e.len = Size[<<build[p], code[p]>>]
    OBVIOUS
  <2>2. "renaming" \in {"down", "ready"} \cup Asks /\ pc[p] \notin {"down", "handing", "waiting"}
    BY <1>1, <1>6
  <2>. HIDE DEF e, k
  <2>. QED BY <1>1, <1>2, <1>3, <1>5, <1>7, <2>1, <2>2, GoInv
<1>8. CASE tmp' = tmp /\ pc' = [pc EXCEPT ![p] = "stored"]
  <2>1. tmp' = [tmp EXCEPT ![p] = tmp[p]]
    BY <1>3, <1>8
  <2>2. PICK to \in {"down", "ready"} \cup Asks : to = "stored" /\ pc' = [pc EXCEPT ![p] = to]
    BY <1>6, <1>8
  <2>3. pc[p] \notin {"down", "handing", "waiting"} /\ code[p] \in Codes \cup {None}
    BY <1>1, <1>2
  <2>. QED BY <1>1, <1>2, <1>3, <2>1, <2>2, <2>3, GoInv
<1>. QED BY <1>7, <1>8 DEF WriteTemp

\* An entry changes on the disk: nothing that a process holds does.
LEMMA CacheStep ==
  ASSUME IInv, UNCHANGED <<build, caches, compiled, pc, code, jobs, idle, busy, results, tmp, loads>>,
         NEW k \in Keys, NEW e \in Entries, cache' = [cache EXCEPT ![k] = e],
         cuts' = cuts \/ cuts' = cuts + 1,
         e = NoEntry \/ (e.of = k /\ (cuts' = 0 => e.len = Size[k]))
  PROVE  IInv'
<1>1. TypeInv /\ CacheInv /\ MineInv /\ PoolInv
  BY DEF IInv
<1>2. cuts \in Nat /\ cuts' \in Nat /\ (cuts' = 0 => cuts = 0)
  BY <1>1 DEF TypeInv
<1>3. TypeInv' /\ cache'[k] = e /\ \A x \in Keys \ {k} : cache'[x] = cache[x]
  BY <1>1, <1>2 DEF TypeInv
<1>4. CacheInv'
  BY <1>1, <1>2, <1>3 DEF CacheInv
<1>5. MineInv'
  BY <1>1, StaysMine DEF MineInv
<1>6. PoolInv'
  BY <1>1 DEF PoolInv
<1>. QED BY <1>3, <1>4, <1>5, <1>6 DEF IInv

LEMMA RenameInv == ASSUME IInv, NEW p \in Procs, Rename(p), UNCHANGED loads PROVE IInv'
<1> DEFINE k == <<build[p], code[p]>>
           mid == [cache EXCEPT ![k] = tmp[p]]
<1>1. pc[p] = "renaming" /\ UNCHANGED <<build, caches, compiled, code, jobs, idle, busy, results, cuts>>
  BY DEF Rename, process, pool
<1>2. TypeInv /\ CacheInv /\ MineInv /\ PoolInv
  BY DEF IInv
<1>3. /\ code[p] \in Codes /\ build[p] \in Builds /\ k \in Keys
      /\ tmp[p].of = k /\ tmp[p].len = Size[k]
  BY <1>1, <1>2 DEF MineInv, Mine, Asks, Keys
<1>4. /\ cache' \in {cache, mid} /\ tmp' = [tmp EXCEPT ![p] = NoEntry] /\ pc' = [pc EXCEPT ![p] = "stored"]
      /\ code' = [code EXCEPT ![p] = code[p]]
  BY <1>1, <1>2 DEF Rename, Path, TypeInv
<1>5. /\ NoEntry \in Entries /\ tmp[p] \in Entries /\ mid \in [Keys -> Entries]
      /\ mid[k] = tmp[p] /\ \A x \in Keys \ {k} : mid[x] = cache[x]
  BY <1>2, <1>3, EntryTypes DEF TypeInv
<1> HIDE DEF k, mid
<1>6. /\ cache' \in [Keys -> Entries]
      /\ \A x \in Keys : cache'[x] = cache[x] \/ (x = k /\ cache'[x] = tmp[p])
  BY <1>2, <1>4, <1>5 DEF TypeInv
<1>7. CacheInv'
  BY <1>1, <1>2, <1>3, <1>6 DEF CacheInv
<1>8. TypeInv'
  BY <1>1, <1>2, <1>4, <1>5, <1>6 DEF TypeInv, Pcs, Asks
<1>9. /\ pc'[p] = "stored" /\ "stored" \in Asks
      /\ \A q \in Procs \ {p} : pc'[q] = pc[q] /\ tmp'[q] = tmp[q]
  BY <1>2, <1>4 DEF TypeInv, Asks
<1>10. MineInv'
  <2>1. Mine(p)'
    BY <1>1, <1>2, <1>3, <1>9 DEF MineInv, Mine
  <2>2. \A q \in Procs \ {p} : Mine(q)'
    BY <1>1, <1>2, <1>9, StaysMine DEF MineInv
  <2>. QED BY <2>1, <2>2 DEF MineInv
<1>11. PoolInv'
  BY <1>1, <1>2, <1>9 DEF PoolInv
<1>. QED BY <1>7, <1>8, <1>10, <1>11 DEF IInv

LEMMA KeepInv == ASSUME IInv, NEW p \in Procs, Keep(p), UNCHANGED loads PROVE IInv'
<1>1. /\ pc[p] = "stored" /\ pc' = [pc EXCEPT ![p] = "ready"] /\ code' = [code EXCEPT ![p] = None]
      /\ UNCHANGED <<cache, build, caches, jobs, idle, busy, results, tmp, cuts>>
  BY DEF Keep, process, pool
<1>2. TypeInv /\ code[p] \in Codes /\ build[p] \in Builds
  BY <1>1 DEF IInv, MineInv, Mine, Asks
<1>3. compiled' = [compiled EXCEPT ![p] = With(compiled[p], code[p], <<build[p], code[p]>>)]
  BY <1>2 DEF Keep, TypeInv
<1>. QED BY <1>1, <1>2, <1>3, MoreInv

-----------------------------------------------------------------------------
(* What happens to a process and to the directory.                         *)

LEMMA KillInv == ASSUME IInv, NEW p \in Procs, Kill(p), UNCHANGED loads PROVE IInv'
<1>1. /\ pc' = [pc EXCEPT ![p] = "down"] /\ compiled' = [compiled EXCEPT ![p] = <<>>]
      /\ code' = [code EXCEPT ![p] = None] /\ tmp' = [tmp EXCEPT ![p] = NoEntry]
      /\ idle' = [idle EXCEPT ![p] = 0] /\ busy' = [busy EXCEPT ![p] = {}]
      /\ jobs' = [jobs EXCEPT ![p] = <<>>] /\ results' = [results EXCEPT ![p] = {}]
      /\ UNCHANGED <<cache, build, caches, cuts>>
  BY DEF Kill, process
<1>2. TypeInv /\ CacheInv /\ MineInv /\ PoolInv
  BY DEF IInv
<1>3. <<>> \in Maps /\ DOMAIN <<>> = {} /\ NoEntry \in Entries /\ <<>> \in Seq(Codes)
  BY NoMap, EntryTypes
<1>4. TypeInv' /\ CacheInv'
  BY <1>1, <1>2, <1>3 DEF TypeInv, CacheInv, Pcs
<1>5. /\ pc'[p] = "down" /\ compiled'[p] = <<>> /\ results'[p] = {} /\ busy'[p] = {} /\ jobs'[p] = <<>> /\ idle'[p] = 0
      /\ \A q \in Procs \ {p} : /\ pc'[q] = pc[q] /\ compiled'[q] = compiled[q] /\ code'[q] = code[q]
                                /\ tmp'[q] = tmp[q] /\ idle'[q] = idle[q] /\ busy'[q] = busy[q]
                                /\ jobs'[q] = jobs[q] /\ results'[q] = results[q]
  BY <1>1, <1>2 DEF TypeInv
<1>6. MineInv'
  <2>1. Mine(p)'
    BY <1>3, <1>5 DEF Mine, Asks
  <2>2. \A q \in Procs \ {p} : Mine(q)'
    BY <1>1, <1>2, <1>5, StaysMine DEF MineInv
  <2>. QED BY <2>1, <2>2 DEF MineInv
<1>7. PoolInv'
  <2>1. IsFiniteSet({}) /\ 0 + Cardinality({}) <= NumCPU
    BY FS_EmptySet, CacheAssumption
  <2>. QED BY <1>2, <1>5, <2>1 DEF PoolInv
<1>. QED BY <1>4, <1>6, <1>7 DEF IInv

LEMMA CutInv == ASSUME IInv, Cut, UNCHANGED loads PROVE IInv'
<1>1. PICK k \in Keys, n \in CutPoints : n < cache[k].len /\ cache' = [cache EXCEPT ![k].len = n]
  BY DEF Cut
<1>2. /\ cuts' = cuts + 1
      /\ UNCHANGED <<build, caches, compiled, pc, code, jobs, idle, busy, results, tmp>>
  BY DEF Cut, process, pool
<1>3. TypeInv /\ CacheInv /\ n \in Nat
  BY CacheAssumption DEF IInv
<1>4. PICK e \in Entries : e = cache[k]
  BY <1>3 DEF TypeInv
<1>5. e.of = k /\ e \in [of : Keys, len : Nat]
  <2>1. e # NoEntry
    BY <1>1, <1>3, <1>4 DEF NoEntry
  <2>. QED BY <1>3, <1>4, <2>1 DEF CacheInv, Entries
<1>6. [e EXCEPT !.len = n] = [of |-> k, len |-> n]
  BY <1>5
<1>7. cache' = [cache EXCEPT ![k] = [of |-> k, len |-> n]] /\ [of |-> k, len |-> n] \in Entries
  BY <1>1, <1>3, <1>4, <1>6, EntryTypes DEF TypeInv
<1>8. cuts' # 0
  BY <1>2, <1>3 DEF TypeInv
<1>. QED BY <1>2, <1>7, <1>8, CacheStep

-----------------------------------------------------------------------------
(* The invariant is inductive, and says what the cache promises.           *)

LEMMA InitInv == ASSUME Init PROVE IInv
<1>1. <<>> \in Maps /\ DOMAIN <<>> = {} /\ NoEntry \in Entries /\ <<>> \in Seq(Codes)
  BY NoMap, EntryTypes
<1>2. TypeInv /\ CacheInv
  BY <1>1 DEF Init, TypeInv, CacheInv, Pcs
<1>3. MineInv
  BY <1>1 DEF Init, MineInv, Mine, Asks
<1>4. PoolInv
  <2>1. IsFiniteSet({}) /\ 0 + Cardinality({}) <= NumCPU
    BY FS_EmptySet, CacheAssumption
  <2>. QED BY <2>1 DEF Init, PoolInv
<1>. QED BY <1>2, <1>3, <1>4 DEF IInv

LEMMA NextInv == ASSUME IInv, [Next]_vars PROVE IInv'
<1>1. CASE UNCHANGED vars
  <2>1. UNCHANGED <<cache, build, caches, compiled, pc, code, jobs, idle, busy, results, tmp, cuts, loads>>
    BY <1>1 DEF vars
  <2>2. TypeInv /\ CacheInv /\ MineInv /\ PoolInv
    BY DEF IInv
  <2>3. TypeInv' /\ CacheInv' /\ PoolInv'
    BY <2>1, <2>2 DEF TypeInv, CacheInv, PoolInv
  <2>4. MineInv'
    BY <2>1, <2>2, StaysMine DEF MineInv
  <2>. QED BY <2>3, <2>4 DEF IInv
<1>2. ASSUME NEW p \in Procs, Step(p) PROVE IInv'
  BY <1>2, GiveJobInv, LoadJobInv, CloseJobsInv, FillInv, CompileInv, WriteTempInv, RenameInv, KeepInv DEF Step
<1>3. ASSUME UNCHANGED loads, Cut PROVE IInv'
  BY <1>3, CutInv
<1>4. ASSUME UNCHANGED loads, NEW p \in Procs, Start(p) \/ Prefetch(p) \/ Ask(p) \/ Kill(p) PROVE IInv'
  BY <1>4, StartInv, PrefetchInv, AskInv, KillInv
<1>. QED BY <1>1, <1>2, <1>3, <1>4 DEF Next

\* Whatever the processes that share the directory do and however they end, an entry is of
\* its key and each process holds modules of its own build only (abnf/scriptcache.go).
THEOREM Invariance == Spec => []IInv
<1>1. Init => IInv
  BY InitInv
<1>2. IInv /\ [Next]_vars => IInv'
  BY NextInv
<1>. QED BY <1>1, <1>2, PTL DEF Spec

\* What the codec reads back (scriptcodec.go): every whole entry but those of Unreadable.
ReadsBack == \A k \in Keys \ Unreadable : <<k, Size[k]>> \in Readable

LEMMA InvMeans == ASSUME ReadsBack, IInv PROVE RunsWhatItsBuildEmits
<1>1. TypeInv /\ CacheInv /\ MineInv /\ PoolInv
  BY DEF IInv
<1>2. TypeOK
  <2>1. \A p \in Procs : DOMAIN compiled[p] \subseteq Codes
    BY <1>1, OfMaps DEF TypeInv
  <2>2. \A p \in Procs : \A i \in DOMAIN jobs[p] : jobs[p][i] \in Codes
    BY <1>1 DEF TypeInv
  <2>3. \A p \in Procs : idle[p] \in 0 .. NumCPU
    <3>1. TAKE p \in Procs
    <3>2. idle[p] \in Nat /\ Cardinality(busy[p]) \in Nat /\ idle[p] + Cardinality(busy[p]) <= NumCPU
      BY <1>1, FS_CardinalityType DEF TypeInv, PoolInv
    <3>. QED BY <3>2, CacheAssumption
  <2>. QED BY <1>1, <2>1, <2>2, <2>3 DEF TypeOK, TypeInv, Pcs, Asks
<1>3. EntriesAreWhole
  BY <1>1 DEF EntriesAreWhole, CacheInv, TypeInv, ReadsBack
<1>. QED BY <1>1, <1>2, <1>3 DEF RunsWhatItsBuildEmits, MineInv, Mine

\* For any processes of any builds that share a cache directory, any grammars and any number
\* of processors, killed at any step and with entries cut at any point: a process runs the
\* modules that its own build emits for its scripts, entries are of their keys, whole unless
\* cut, and no pool has more goroutines than processors (prefetchCachedScripts,
\* compileScript, storeCachedScript).  That a whole entry reads back is the codec's part.
THEOREM BuildsStayApart == ReadsBack /\ Spec => []RunsWhatItsBuildEmits
<1> SUFFICES ASSUME ReadsBack PROVE Spec => []RunsWhatItsBuildEmits
  OBVIOUS
<1>1. IInv => RunsWhatItsBuildEmits
  BY InvMeans
<1>. QED BY <1>1, Invariance, PTL

-----------------------------------------------------------------------------
(* The walk of the compiler: its calls.                                    *)

RulesFields == {"call", "list", "at", "slot", "acc"}
TagFields == {"call", "rule", "slot"}
ScriptFields == {"call", "rule", "code", "prog", "saved", "level", "waits"}

IsScript(x) == x.call = "script" /\ DOMAIN x = ScriptFields /\ x.prog = x.code
IsCall(x) ==
  \/ x.call = "rules" /\ DOMAIN x = RulesFields /\ DOMAIN x.acc \subseteq UpKeys
  \/ x.call = "tag" /\ DOMAIN x = TagFields
  \/ IsScript(x)

\* How many scripts there are in the n outermost of some calls.
Depth(s, n) == Cardinality({c \in 1 .. n : s[c].call = "script"})

\* A script knows by number which map is its own, and which is the next outer script's.
AreCalls(s) ==
  /\ \E S : s \in Seq(S)
  /\ \A c \in DOMAIN s :
       IsCall(s[c]) /\ (s[c].call = "script" => s[c].level = Depth(s, c) /\ s[c].saved = Depth(s, c) - 1)

IsMap(m) == DOMAIN m \subseteq UpKeys \cup {"pos"}

WInv ==
  /\ AreCalls(calls) /\ Depth(calls, Len(calls)) <= Len(maps)
  /\ calls # <<>> => up = Depth(calls, Len(calls))
  /\ (\E M : maps \in Seq(M)) /\ \A l \in DOMAIN maps : IsMap(maps[l])
  /\ up \in 0 .. Len(maps) /\ ops \in Nat
  /\ ret = Pending \/ DOMAIN ret \subseteq UpKeys

LEMMA DepthAgrees ==
  ASSUME NEW s, NEW t, NEW n, \A c \in 1 .. n : s[c].call = t[c].call
  PROVE  Depth(s, n) = Depth(t, n)
<1> DEFINE a == {c \in 1 .. n : s[c].call = "script"}
           b == {c \in 1 .. n : t[c].call = "script"}
<1>1. a = b OBVIOUS
<1>2. Depth(s, n) = Cardinality(a) /\ Depth(t, n) = Cardinality(b) BY DEF Depth
<1> HIDE DEF a, b
<1> QED BY <1>1, <1>2

LEMMA DepthStep ==
  ASSUME NEW s, NEW n \in Nat
  PROVE  /\ Depth(s, n) \in Nat
         /\ Depth(s, n + 1) = IF s[n + 1].call = "script" THEN Depth(s, n) + 1 ELSE Depth(s, n)
<1> DEFINE a == {c \in 1 .. n : s[c].call = "script"}
           b == {c \in 1 .. n + 1 : s[c].call = "script"}
<1>1. IsFiniteSet(1 .. n) BY FS_Interval
<1>2. a \subseteq 1 .. n OBVIOUS
<1>3. n + 1 \notin a OBVIOUS
<1>4. b = IF s[n + 1].call = "script" THEN a \cup {n + 1} ELSE a
  <2>1. 1 .. n + 1 = (1 .. n) \cup {n + 1} OBVIOUS
  <2> QED BY <2>1
<1>5. Depth(s, n) = Cardinality(a) /\ Depth(s, n + 1) = Cardinality(b) BY DEF Depth
<1> HIDE DEF a, b
<1>6. IsFiniteSet(a) BY <1>1, <1>2, FS_Subset
<1>7. Cardinality(a) \in Nat BY <1>6, FS_CardinalityType
<1>8. Cardinality(a \cup {n + 1}) = Cardinality(a) + 1 BY <1>3, <1>6, FS_AddElement
<1> QED BY <1>4, <1>5, <1>7, <1>8

LEMMA NoDepth == \A s : Depth(s, 0) = 0
<1>1. ASSUME NEW s PROVE Depth(s, 0) = 0
  <2>1. {c \in 1 .. 0 : s[c].call = "script"} = {} OBVIOUS
  <2> QED BY <2>1, FS_EmptySet DEF Depth
<1> QED BY <1>1

LEMMA CallsLength ==
  ASSUME NEW s, AreCalls(s)
  PROVE  Len(s) \in Nat /\ DOMAIN s = 1 .. Len(s) /\ (s # <<>> <=> Len(s) > 0)
<1>1. PICK S : s \in Seq(S) BY DEF AreCalls
<1> QED BY <1>1

\* Calls begin and end, and the innermost goes on.
LEMMA CallBegins ==
  ASSUME NEW s, AreCalls(s), NEW x, IsCall(x),
         x.call = "script" => x.level = Depth(s, Len(s)) + 1 /\ x.saved = Depth(s, Len(s))
  PROVE  LET t == Append(s, x) IN
         /\ AreCalls(t) /\ Len(t) = Len(s) + 1 /\ t # <<>> /\ t[Len(t)] = x /\ \A c \in DOMAIN s : t[c] = s[c]
         /\ Depth(t, Len(t)) = IF x.call = "script" THEN Depth(s, Len(s)) + 1 ELSE Depth(s, Len(s))
<1> DEFINE t == Append(s, x)
           n == Len(s)
<1>1. PICK S : s \in Seq(S) BY DEF AreCalls
<1>2. n \in Nat /\ DOMAIN s = 1 .. n BY <1>1
<1>3. /\ t \in Seq(S \cup {x}) /\ Len(t) = n + 1 /\ t # <<>> /\ t[n + 1] = x /\ DOMAIN t = 1 .. n + 1
      /\ \A c \in 1 .. n : t[c] = s[c]
  BY <1>1
<1> HIDE DEF t, n
<1>4. \A c \in 1 .. n : Depth(t, c) = Depth(s, c)
  <2>1. TAKE c \in 1 .. n
  <2>2. \A d \in 1 .. c : t[d] = s[d] BY <1>2, <1>3
  <2> QED BY <2>2, DepthAgrees
<1>5. Depth(t, n) = Depth(s, n)
  <2>1. \A d \in 1 .. n : t[d] = s[d] BY <1>3
  <2> QED BY <2>1, DepthAgrees
<1>6. Depth(s, n) \in Nat /\ Depth(t, n + 1) = IF x.call = "script" THEN Depth(s, n) + 1 ELSE Depth(s, n)
  BY <1>2, <1>3, <1>5, DepthStep
<1>7. ASSUME NEW c \in DOMAIN t
      PROVE  IsCall(t[c]) /\ (t[c].call = "script" => t[c].level = Depth(t, c) /\ t[c].saved = Depth(t, c) - 1)
  <2>1. CASE c = n + 1 BY <1>3, <1>6, <2>1 DEF n
  <2>2. CASE c # n + 1
    <3>1. c \in 1 .. n BY <1>2, <1>3, <1>7, <2>2
    <3>2. c \in DOMAIN s BY <1>2, <3>1
    <3> QED BY <1>3, <1>4, <3>1, <3>2 DEF AreCalls
  <2> QED BY <2>1, <2>2
<1>8. AreCalls(t) BY <1>3, <1>7 DEF AreCalls
<1> QED BY <1>2, <1>3, <1>6, <1>8 DEF t, n

LEMMA CallEnds ==
  ASSUME NEW s, AreCalls(s), s # <<>>
  PROVE  LET t == Front(s) IN
         /\ AreCalls(t) /\ Len(t) = Len(s) - 1 /\ \A c \in DOMAIN t : c \in DOMAIN s /\ t[c] = s[c]
         /\ Depth(t, Len(t)) = IF s[Len(s)].call = "script" THEN Depth(s, Len(s)) - 1 ELSE Depth(s, Len(s))
<1> DEFINE t == Front(s)
           n == Len(s) - 1
<1>1. PICK S : s \in Seq(S) BY DEF AreCalls
<1>2. n \in Nat /\ Len(s) = n + 1 /\ DOMAIN s = 1 .. n + 1 BY <1>1
<1>3. t \in Seq(S) /\ Len(t) = n /\ DOMAIN t = 1 .. n /\ \A c \in 1 .. n : t[c] = s[c] BY <1>1, <1>2 DEF Front
<1> HIDE DEF t, n
<1>4. \A c \in 1 .. n : Depth(t, c) = Depth(s, c)
  <2>1. TAKE c \in 1 .. n
  <2>2. \A d \in 1 .. c : t[d] = s[d] BY <1>2, <1>3
  <2> QED BY <2>2, DepthAgrees
<1>5. Depth(t, n) = Depth(s, n)
  <2>1. \A d \in 1 .. n : t[d] = s[d] BY <1>3
  <2> QED BY <2>1, DepthAgrees
<1>6. Depth(s, n) \in Nat /\ Depth(s, n + 1) = IF s[n + 1].call = "script" THEN Depth(s, n) + 1 ELSE Depth(s, n)
  BY <1>2, DepthStep
<1>7. ASSUME NEW c \in DOMAIN t
      PROVE  IsCall(t[c]) /\ (t[c].call = "script" => t[c].level = Depth(t, c) /\ t[c].saved = Depth(t, c) - 1)
  <2>1. c \in 1 .. n /\ c \in DOMAIN s BY <1>2, <1>3, <1>7
  <2> QED BY <1>3, <1>4, <2>1 DEF AreCalls
<1>8. AreCalls(t) BY <1>3, <1>7 DEF AreCalls
<1> QED BY <1>2, <1>3, <1>5, <1>6, <1>8 DEF t, n

LEMMA CallGoesOn ==
  ASSUME NEW s, AreCalls(s), s # <<>>, NEW x, IsCall(x), x.call = s[Len(s)].call,
         x.call = "script" => x.level = s[Len(s)].level /\ x.saved = s[Len(s)].saved
  PROVE  LET t == [s EXCEPT ![Len(s)] = x] IN
         /\ AreCalls(t) /\ Len(t) = Len(s) /\ t # <<>> /\ t[Len(t)] = x
         /\ \A c \in DOMAIN s : c # Len(s) => t[c] = s[c]
         /\ Depth(t, Len(t)) = Depth(s, Len(s))
<1> DEFINE t == [s EXCEPT ![Len(s)] = x]
<1>1. PICK S : s \in Seq(S) BY DEF AreCalls
<1>2. Len(s) \in Nat \ {0} /\ DOMAIN s = 1 .. Len(s) BY <1>1
<1>3. /\ t \in Seq(S \cup {x}) /\ Len(t) = Len(s) /\ DOMAIN t = DOMAIN s /\ t[Len(s)] = x /\ t # <<>>
      /\ \A c \in DOMAIN s : c # Len(s) => t[c] = s[c]
  BY <1>1, <1>2
<1> HIDE DEF t
<1>4. \A c \in DOMAIN s : t[c].call = s[c].call BY <1>3
<1>5. ASSUME NEW c \in DOMAIN s PROVE Depth(t, c) = Depth(s, c)
  <2>1. \A d \in 1 .. c : d \in DOMAIN s BY <1>2, <1>5
  <2>2. \A d \in 1 .. c : t[d].call = s[d].call BY <1>4, <2>1
  <2> QED BY <2>2, DepthAgrees
<1>6. ASSUME NEW c \in DOMAIN t
      PROVE  IsCall(t[c]) /\ (t[c].call = "script" => t[c].level = Depth(t, c) /\ t[c].saved = Depth(t, c) - 1)
  <2>1. CASE c = Len(s) BY <1>2, <1>3, <1>5, <2>1 DEF AreCalls
  <2>2. CASE c # Len(s) BY <1>3, <1>5, <1>6, <2>2 DEF AreCalls
  <2> QED BY <2>1, <2>2
<1>7. AreCalls(t) BY <1>3, <1>6 DEF AreCalls
<1>8. Depth(t, Len(t)) = Depth(s, Len(s)) BY <1>2, <1>3, <1>5
<1> QED BY <1>3, <1>7, <1>8 DEF t

\* The levels of the scripts inside grow.
LEMMA DepthGrows ==
  ASSUME NEW s, AreCalls(s), NEW c \in DOMAIN s, s[c].call = "script"
  PROVE  Depth(s, c) \in Nat \ {0}
<1>1. c \in Nat \ {0} BY CallsLength
<1>2. c - 1 \in Nat /\ c = (c - 1) + 1 BY <1>1
<1>3. Depth(s, c - 1) \in Nat /\ Depth(s, c) = Depth(s, c - 1) + 1 BY <1>2, DepthStep
<1> QED BY <1>3

LEMMA DepthMonotonic ==
  ASSUME NEW s, NEW n \in Nat, NEW c \in 1 .. n
  PROVE  Depth(s, c) \in Nat /\ Depth(s, c) <= Depth(s, n)
<1> DEFINE a == {d \in 1 .. c : s[d].call = "script"}
           b == {d \in 1 .. n : s[d].call = "script"}
<1>1. IsFiniteSet(1 .. n) BY FS_Interval
<1>2. a \subseteq b /\ b \subseteq 1 .. n OBVIOUS
<1>3. Depth(s, c) = Cardinality(a) /\ Depth(s, n) = Cardinality(b) BY DEF Depth
<1> HIDE DEF a, b
<1>4. IsFiniteSet(b) BY <1>1, <1>2, FS_Subset
<1>5. IsFiniteSet(a) /\ Cardinality(a) <= Cardinality(b) BY <1>2, <1>4, FS_Subset
<1> QED BY <1>3, <1>5, FS_CardinalityType

\* The map of a script that waits lies below that of the one that runs.
LEMMA WaitingIsBelow ==
  ASSUME NEW s, AreCalls(s), NEW c \in DOMAIN s, c < Len(s)
  PROVE  /\ Depth(s, c) <= Depth(s, Len(s))
         /\ s[Len(s)].call = "script" => Depth(s, c) < Depth(s, Len(s))
<1>1. Len(s) \in Nat /\ c \in 1 .. Len(s) BY CallsLength
<1> DEFINE n == Len(s) - 1
<1>2. n \in Nat /\ Len(s) = n + 1 /\ c \in 1 .. n BY <1>1
<1> HIDE DEF n
<1>3. Depth(s, c) \in Nat /\ Depth(s, c) <= Depth(s, n) BY <1>2, DepthMonotonic
<1>4. Depth(s, n) \in Nat /\ Depth(s, n + 1) = IF s[n + 1].call = "script" THEN Depth(s, n) + 1 ELSE Depth(s, n)
  BY <1>2, DepthStep
<1> QED BY <1>2, <1>3, <1>4

-----------------------------------------------------------------------------
(* The walk: what is handed about.                                         *)

\* What waiting scripts have in `up' stays in this step.
Kept == \A c \in DOMAIN calls :
          calls[c].call = "script" /\ c < Len(calls) => maps'[calls[c].level] = maps[calls[c].level]

Handed(m) == m = Pending \/ DOMAIN m \subseteq UpKeys

\* Steps that leave the maps, and the number of scripts that run.
LEMMA MapsStay ==
  ASSUME WInv, UNCHANGED <<maps, up>>, AreCalls(calls'), Depth(calls', Len(calls')) = Depth(calls, Len(calls)),
         calls # <<>>, ops' \in Nat, Handed(ret')
  PROVE  WInv' /\ Kept
<1>1. WInv' BY DEF WInv, Handed
<1>2. Kept BY DEF Kept
<1> QED BY <1>1, <1>2

\* compile, in a call that waits.
LEMMA CompileBegins ==
  ASSUME WInv, UNCHANGED <<maps, up>>, calls # <<>>, ops' \in Nat, NEW under, AreCalls(under),
         Depth(under, Len(under)) = Depth(calls, Len(calls)), NEW list, NEW slot, CompileList(under, list, slot)
  PROVE  WInv' /\ Kept
<1>1. CASE calls' = under /\ ret' = OnlyText(<<>>)
  <2>1. Handed(ret') BY <1>1 DEF Handed, OnlyText, UpKeys, TextKeys
  <2> QED BY <1>1, <2>1, MapsStay
<1>2. CASE calls' = Append(under, Rules(list, slot)) /\ ret' = Pending
  <2>1. IsCall(Rules(list, slot)) /\ Rules(list, slot).call = "rules" BY DEF Rules, IsCall, RulesFields, Empty
  <2>2. AreCalls(calls') /\ Depth(calls', Len(calls')) = Depth(under, Len(under)) BY <1>2, <2>1, CallBegins
  <2> QED BY <1>2, <2>2, MapsStay DEF Handed
<1> QED BY <1>1, <1>2 DEF CompileList

LEMMA TopIsCall == ASSUME WInv, calls # <<>> PROVE IsCall(Top) /\ Len(calls) \in DOMAIN calls /\ Len(calls) \in Nat \ {0}
<1>1. Len(calls) \in DOMAIN calls /\ Len(calls) \in Nat \ {0} BY CallsLength DEF WInv
<1> QED BY <1>1 DEF Top, WInv, AreCalls

LEMMA WalkTokenKeeps == ASSUME WInv, WalkToken PROVE WInv' /\ Kept
<1>1. calls # <<>> /\ UNCHANGED <<maps, up, calls, ops>> BY DEF WalkToken, InRules
<1>2. ret' = [in |-> Text(ThisRule.text), stack |-> Array(<<>>)] BY DEF WalkToken
<1>3. Handed(ret') BY <1>2 DEF Handed, UpKeys, TextKeys, ArrayKeys
<1> QED BY <1>1, <1>3, MapsStay DEF WInv

LEMMA WalkTagKeeps == ASSUME WInv, WalkTag PROVE WInv' /\ Kept
<1> DEFINE under == Append(calls, TagCall(ThisRule, Top.slot))
<1>1. calls # <<>> /\ UNCHANGED <<maps, up, ops>> BY DEF WalkTag, InRules
<1>2. IsCall(TagCall(ThisRule, Top.slot)) /\ TagCall(ThisRule, Top.slot).call = "tag" BY DEF TagCall, IsCall, TagFields
<1>3. AreCalls(under) /\ Depth(under, Len(under)) = Depth(calls, Len(calls)) BY <1>2, CallBegins DEF WInv
<1>4. CompileList(under, ThisRule.kids, Top.slot) BY DEF WalkTag
<1>5. ops' \in Nat BY <1>1 DEF WInv
<1> HIDE DEF under
<1> QED BY <1>1, <1>3, <1>4, <1>5, CompileBegins

LEMMA WalkOtherKeeps == ASSUME WInv, WalkOther PROVE WInv' /\ Kept
<1>1. calls # <<>> /\ UNCHANGED <<maps, up, ops>> BY DEF WalkOther, InRules
<1>2. CompileList(calls, ThisRule.kids, Top.slot) BY DEF WalkOther
<1>3. AreCalls(calls) /\ ops' \in Nat BY <1>1 DEF WInv
<1> QED BY <1>1, <1>2, <1>3, CompileBegins

\* The merge adds no keys.
LEMMA MergedKeys ==
  ASSUME NEW acc, DOMAIN acc \subseteq UpKeys, NEW m, DOMAIN m \subseteq UpKeys
  PROVE  DOMAIN Merge(acc, m) \subseteq UpKeys /\ DOMAIN Complete(Merge(acc, m)) \subseteq UpKeys
<1> DEFINE both == Merge(acc, m)
<1>1. DOMAIN both = DOMAIN acc \cup DOMAIN m BY DEF Merge
<1> HIDE DEF both
<1>2. DOMAIN Complete(both) = DOMAIN both \cup {"in", "stack"} BY DEF Complete
<1>3. {"in", "stack"} \subseteq UpKeys BY DEF UpKeys, TextKeys, ArrayKeys
<1> QED BY <1>1, <1>2, <1>3 DEF both

\* A walk that is given up leaves no calls.
LEMMA GivenUp ==
  ASSUME WInv, calls # <<>>, UNCHANGED <<maps, up>>, calls' = <<>>, ret' = Pending, ops' \in Nat
  PROVE  WInv' /\ Kept
<1>1. AreCalls(<<>>)
  <2>1. <<>> \in Seq({}) /\ DOMAIN <<>> = {} OBVIOUS
  <2> QED BY <2>1 DEF AreCalls
<1>2. Depth(<<>>, 0) = 0 /\ Len(<<>>) = 0 BY NoDepth
<1>3. Len(maps) \in Nat BY DEF WInv
<1>4. WInv' BY <1>1, <1>2, <1>3 DEF WInv
<1> QED BY <1>4 DEF Kept

LEMMA CollectKeeps == ASSUME WInv, Collect PROVE WInv' /\ Kept
<1> DEFINE acc == Merge(Top.acc, ret)
           x == [Top EXCEPT !.at = @ + 1, !.acc = acc]
<1>1. calls # <<>> /\ Top.call = "rules" /\ ret # Pending /\ UNCHANGED <<maps, up, ops>> BY DEF Collect
<1>2. AreCalls(calls) /\ IsCall(Top) /\ ops' \in Nat /\ Handed(ret) BY <1>1, TopIsCall DEF WInv, Handed
<1>3. DOMAIN Top = RulesFields /\ DOMAIN Top.acc \subseteq UpKeys BY <1>1, <1>2 DEF IsCall, IsScript
<1>4. DOMAIN ret \subseteq UpKeys BY <1>1, <1>2 DEF Handed
<1>5. DOMAIN acc \subseteq UpKeys /\ DOMAIN Complete(acc) \subseteq UpKeys BY <1>3, <1>4, MergedKeys
<1>6. \/ calls' = Front(calls) /\ UNCHANGED ret
      \/ calls' = <<>> /\ ret' = Pending
      \/ calls' = Front(calls) /\ ret' = Complete(acc)
      \/ calls' = [calls EXCEPT ![Len(calls)].at = @ + 1, ![Len(calls)].acc = acc] /\ ret' = Pending
  BY DEF Collect
<1> HIDE DEF acc
<1>7. AreCalls(Front(calls)) /\ Depth(Front(calls), Len(Front(calls))) = Depth(calls, Len(calls))
  BY <1>1, <1>2, CallEnds DEF Top
<1>8. CASE calls' = Front(calls) /\ UNCHANGED ret BY <1>1, <1>2, <1>7, <1>8, MapsStay
<1>9. CASE calls' = <<>> /\ ret' = Pending BY <1>1, <1>2, <1>9, GivenUp
<1>10. CASE calls' = Front(calls) /\ ret' = Complete(acc) BY <1>1, <1>2, <1>5, <1>7, <1>10, MapsStay DEF Handed
<1>11. CASE calls' = [calls EXCEPT ![Len(calls)].at = @ + 1, ![Len(calls)].acc = acc] /\ ret' = Pending
  <2>1. x.call = "rules" /\ DOMAIN x = RulesFields /\ x.acc = acc BY <1>1, <1>3 DEF RulesFields
  <2>2. calls' = [calls EXCEPT ![Len(calls)] = x] BY <1>1, <1>2, <1>11, CallsLength DEF Top
  <2> HIDE DEF x
  <2>3. IsCall(x) BY <1>5, <2>1 DEF IsCall
  <2>4. AreCalls(calls') /\ Depth(calls', Len(calls')) = Depth(calls, Len(calls))
    BY <1>1, <1>2, <2>1, <2>2, <2>3, CallGoesOn DEF Top
  <2> QED BY <1>1, <1>2, <1>11, <2>4, MapsStay DEF Handed
<1> QED BY <1>6, <1>8, <1>9, <1>10, <1>11

LEMMA RunTagCodeKeeps == ASSUME WInv, RunTagCode PROVE WInv' /\ Kept
<1> DEFINE n == Len(calls)
           depth == Depth(calls, n)
           level == 1 + Cardinality({c \in DOMAIN calls : calls[c].call = "script"})
           source == Top.rule.codes[Top.slot + 1]
           prog == IF Cached(Top.rule.uid, source) THEN codeCache[Top.rule.uid] ELSE source
           x == Script(Top.rule, source, prog, up, level)
           inner == Put(ret, "pos", Object("pos"))
<1>1. calls # <<>> /\ Top.call = "tag" /\ ret # Pending /\ ops' \in Nat BY DEF RunTagCode, WInv
<1>2. AreCalls(calls) /\ n \in Nat \ {0} /\ DOMAIN calls = 1 .. n /\ up = depth /\ depth <= Len(maps) /\ Len(maps) \in Nat
  BY <1>1, CallsLength DEF WInv
<1>3. DOMAIN ret \subseteq UpKeys BY <1>1 DEF WInv
<1>4. AreCalls(Front(calls)) /\ Depth(Front(calls), Len(Front(calls))) = depth /\ \A c \in DOMAIN Front(calls) : Front(calls)[c] = calls[c]
  BY <1>1, <1>2, CallEnds DEF Top
<1>5. level = depth + 1 /\ depth \in Nat
  <2>1. depth = Cardinality({c \in DOMAIN calls : calls[c].call = "script"}) BY <1>2 DEF Depth
  <2>2. depth \in Nat BY <1>2, DepthMonotonic
  <2> QED BY <2>1, <2>2
<1>6. CASE Top.slot >= Len(Top.rule.codes)
  <2>1. calls' = Front(calls) /\ ret' = WithoutPos(ret) /\ UNCHANGED <<maps, up>> BY <1>6 DEF RunTagCode
  <2>2. DOMAIN ret' \subseteq UpKeys BY <1>3, <2>1 DEF WithoutPos, Without
  <2> QED BY <1>1, <1>2, <1>4, <2>1, <2>2, MapsStay DEF Handed
<1>7. CASE ~(Top.slot >= Len(Top.rule.codes))
  <2>1. /\ calls' = Append(Front(calls), x) /\ maps' = Append(SubSeq(maps, 1, level - 1), inner)
        /\ up' = level /\ ret' = Pending
    BY <1>7 DEF RunTagCode
  <2>2. prog = source BY DEF Cached
  <2> HIDE DEF n, depth, level, source, prog, inner
  <2>3. IsCall(x) /\ x.call = "script" /\ x.level = level /\ x.saved = up BY <2>2 DEF Script, IsCall, IsScript, ScriptFields
  <2> HIDE DEF x
  <2>4. x.level = Depth(Front(calls), Len(Front(calls))) + 1 /\ x.saved = Depth(Front(calls), Len(Front(calls)))
    BY <1>2, <1>4, <1>5, <2>3
  <2>5. AreCalls(calls') /\ Depth(calls', Len(calls')) = depth + 1 BY <1>4, <2>1, <2>3, <2>4, CallBegins
  <2>6. PICK M : maps \in Seq(M) BY DEF WInv
  <2>7. level - 1 = depth BY <1>5
  <2>8. SubSeq(maps, 1, depth) \in Seq(M) /\ Len(SubSeq(maps, 1, depth)) = depth /\ \A l \in 1 .. depth : SubSeq(maps, 1, depth)[l] = maps[l]
    BY <1>2, <1>5, <2>6
  <2>9. /\ maps' \in Seq(M \cup {inner}) /\ Len(maps') = depth + 1 /\ DOMAIN maps' = 1 .. depth + 1
        /\ maps'[depth + 1] = inner /\ \A l \in 1 .. depth : maps'[l] = maps[l]
    <3> DEFINE front == SubSeq(maps, 1, depth)
    <3>1. front \in Seq(M \cup {inner}) /\ Len(front) = depth BY <2>8
    <3>2. maps' = Append(front, inner) BY <2>1, <2>7
    <3>3. \A l \in 1 .. depth : front[l] = maps[l] BY <2>8
    <3> HIDE DEF front
    <3> QED BY <3>1, <3>2, <3>3, <1>5
  <2>10. IsMap(inner)
    <3>1. DOMAIN inner = DOMAIN ret \cup {"pos"} BY DEF Put, inner
    <3> QED BY <1>3, <3>1 DEF IsMap
  <2>11. ASSUME NEW l \in DOMAIN maps' PROVE IsMap(maps'[l])
    <3>1. CASE l = depth + 1 BY <2>9, <2>10, <3>1
    <3>2. CASE l # depth + 1
      <4>1. l \in 1 .. depth BY <1>5, <2>9, <2>11, <3>2
      <4>2. DOMAIN maps = 1 .. Len(maps) BY <2>6
      <4>3. l \in DOMAIN maps BY <1>2, <1>5, <4>1, <4>2
      <4> QED BY <2>9, <4>1, <4>3 DEF WInv
    <3> QED BY <3>1, <3>2
  <2>12. up' \in 0 .. Len(maps') /\ up' = Depth(calls', Len(calls')) BY <1>5, <2>1, <2>5, <2>9
  <2>13. WInv'
    <3>1. \E N : maps' \in Seq(N) BY <2>9
    <3>2. Depth(calls', Len(calls')) <= Len(maps') BY <1>5, <2>5, <2>9
    <3>3. ret' = Pending /\ ops' \in Nat BY <1>1, <2>1
    <3> QED BY <2>5, <2>11, <2>12, <3>1, <3>2, <3>3 DEF WInv
  <2>14. ASSUME NEW c \in DOMAIN calls, calls[c].call = "script", c < Len(calls) PROVE maps'[calls[c].level] = maps[calls[c].level]
    <3>1. calls[c].level = Depth(calls, c) BY <1>2, <2>14 DEF AreCalls
    <3>2. Depth(calls, c) \in Nat \ {0} BY <1>2, <2>14, DepthGrows
    <3>3. Depth(calls, c) <= depth BY <1>2, <2>14, WaitingIsBelow DEF depth, n
    <3>4. Depth(calls, c) \in 1 .. depth BY <1>5, <3>2, <3>3
    <3> QED BY <2>9, <3>1, <3>4
  <2> QED BY <2>13, <2>14 DEF Kept
<1> QED BY <1>6, <1>7

\* A script that runs changes its own map.
LEMMA DoesKeeps ==
  ASSUME WInv, Does, NEW m, IsMap(m), maps' = [maps EXCEPT ![up] = m]
  PROVE  WInv' /\ Kept
<1>1. calls # <<>> /\ Top.call = "script" /\ UNCHANGED <<calls, up, ret>> /\ ops' = ops + 1 BY DEF Does, Runs
<1>2. PICK M : maps \in Seq(M) BY DEF WInv
<1>3. /\ maps' \in Seq(M \cup {m}) /\ Len(maps') = Len(maps) /\ DOMAIN maps' = DOMAIN maps
      /\ \A l \in DOMAIN maps : maps'[l] = IF l = up THEN m ELSE maps[l]
  <2>1. Len(maps) \in Nat /\ DOMAIN maps = 1 .. Len(maps) /\ \A l \in 1 .. Len(maps) : maps[l] \in M BY <1>2
  <2>2. DOMAIN maps' = DOMAIN maps /\ \A l \in DOMAIN maps : maps'[l] = IF l = up THEN m ELSE maps[l] OBVIOUS
  <2>3. maps' \in [1 .. Len(maps) -> M \cup {m}] BY <2>1
  <2>4. maps' \in Seq(M \cup {m}) BY <2>1, <2>3
  <2> QED BY <2>1, <2>2, <2>4
<1>4. \A l \in DOMAIN maps' : IsMap(maps'[l]) BY <1>3 DEF WInv
<1>5. WInv'
  <2>1. \E N : maps' \in Seq(N) BY <1>3
  <2>2. ops' \in Nat BY <1>1 DEF WInv
  <2> QED BY <1>1, <1>3, <1>4, <2>1, <2>2 DEF WInv
<1>6. ASSUME NEW c \in DOMAIN calls, calls[c].call = "script", c < Len(calls) PROVE maps'[calls[c].level] = maps[calls[c].level]
  <2>1. AreCalls(calls) /\ up = Depth(calls, Len(calls)) BY <1>1 DEF WInv
  <2>2. calls[c].level = Depth(calls, c) /\ Depth(calls, c) \in Nat BY <1>6, <2>1, DepthGrows DEF AreCalls
  <2>3. Depth(calls, c) < up BY <1>1, <1>6, <2>1, WaitingIsBelow DEF Top
  <2>4. calls[c].level # up BY <2>1, <2>2, <2>3
  <2> QED BY <2>4
<1> QED BY <1>5, <1>6 DEF Kept

LEMMA ScriptDoesKeeps ==
  ASSUME WInv, Pop \/ (\E v \in Vals : Push(v)) \/ \E k \in UpKeys \ {"stack"} : Delete(k) \/ \E v \in Values(k) : Assign(k, v)
  PROVE  WInv' /\ Kept
<1>1. Does BY DEF Pop, Push, Delete, Assign
<1>2. up \in DOMAIN maps
  <2>1. calls # <<>> /\ Top.call = "script" BY <1>1 DEF Does, Runs
  <2>2. AreCalls(calls) /\ up = Depth(calls, Len(calls)) /\ up <= Len(maps) /\ Len(calls) \in DOMAIN calls BY <2>1, TopIsCall DEF WInv
  <2>3. up \in Nat \ {0} BY <2>1, <2>2, DepthGrows DEF Top
  <2>4. PICK M : maps \in Seq(M) BY DEF WInv
  <2> QED BY <2>2, <2>3, <2>4
<1>3. IsMap(maps[up]) BY <1>2 DEF WInv
<1>4. ASSUME NEW k \in UpKeys, NEW v PROVE IsMap(Put(maps[up], k, v)) BY <1>3 DEF IsMap, Put
<1>5. ASSUME NEW k \in UpKeys, NEW v, SetUp(k, v) PROVE WInv' /\ Kept
  <2>1. maps' = [maps EXCEPT ![up] = Put(maps[up], k, v)] BY <1>2, <1>5 DEF SetUp
  <2> QED BY <1>1, <1>4, <2>1, DoesKeeps
<1>6. "stack" \in UpKeys BY DEF UpKeys, ArrayKeys
<1>7. CASE Pop BY <1>5, <1>6, <1>7 DEF Pop
<1>8. CASE \E v \in Vals : Push(v) BY <1>5, <1>6, <1>8 DEF Push
<1>9. ASSUME NEW k \in UpKeys \ {"stack"}, NEW v, Assign(k, v) PROVE WInv' /\ Kept BY <1>5, <1>9 DEF Assign
<1>10. ASSUME NEW k \in UpKeys \ {"stack"}, Delete(k) PROVE WInv' /\ Kept
  <2>1. maps' = [maps EXCEPT ![up] = Without(maps[up], k)] BY <1>2, <1>10 DEF Delete
  <2>2. IsMap(Without(maps[up], k)) BY <1>3 DEF IsMap, Without
  <2> QED BY <1>1, <2>1, <2>2, DoesKeeps
<1> QED BY <1>7, <1>8, <1>9, <1>10

LEMMA NestedKeeps == ASSUME WInv, NEW list, NEW slot, Nested(list, slot) PROVE WInv' /\ Kept
<1> DEFINE x == [Top EXCEPT !.waits = TRUE]
           under == [calls EXCEPT ![Len(calls)] = x]
<1>1. calls # <<>> /\ Top.call = "script" /\ UNCHANGED <<maps, up>> /\ ops' = ops + 1 BY DEF Nested, Runs
<1>2. IsScript(Top) /\ AreCalls(calls) /\ ops' \in Nat BY <1>1, TopIsCall DEF IsCall, WInv
<1>3. [calls EXCEPT ![Len(calls)].waits = TRUE] = under BY <1>1, <1>2, CallsLength DEF Top
<1>4. IsScript(x) /\ x.call = "script" /\ x.level = Top.level /\ x.saved = Top.saved
  BY <1>1, <1>2 DEF IsScript, ScriptFields
<1>5. CompileList(under, list, slot) BY <1>3 DEF Nested
<1> HIDE DEF x
<1>6. AreCalls(under) /\ Depth(under, Len(under)) = Depth(calls, Len(calls)) BY <1>1, <1>2, <1>4, CallGoesOn DEF IsCall, Top
<1> HIDE DEF under
<1> QED BY <1>1, <1>2, <1>5, <1>6, CompileBegins

LEMMA GetsResultKeeps == ASSUME WInv, GetsResult PROVE WInv' /\ Kept
<1> DEFINE x == [Top EXCEPT !.waits = FALSE]
<1>1. calls # <<>> /\ Top.call = "script" /\ UNCHANGED <<maps, up, ops>> /\ ret' = Pending BY DEF GetsResult
<1>2. IsScript(Top) /\ AreCalls(calls) /\ ops' \in Nat BY <1>1, TopIsCall DEF IsCall, WInv
<1>3. calls' = [calls EXCEPT ![Len(calls)] = x] BY <1>1, <1>2, CallsLength DEF Top, GetsResult
<1>4. IsScript(x) /\ x.call = "script" /\ x.level = Top.level /\ x.saved = Top.saved
  BY <1>1, <1>2 DEF IsScript, ScriptFields
<1> HIDE DEF x
<1>5. AreCalls(calls') /\ Depth(calls', Len(calls')) = Depth(calls, Len(calls))
  BY <1>1, <1>2, <1>3, <1>4, CallGoesOn DEF IsCall, Top
<1> QED BY <1>1, <1>2, <1>5, MapsStay DEF Handed

LEMMA EndKeeps == ASSUME WInv, End PROVE WInv' /\ Kept
<1>1. calls # <<>> /\ Top.call = "script" /\ UNCHANGED <<maps, ops>> /\ up' = Top.saved /\ calls' = Front(calls)
  BY DEF End, Runs, RestoreUp
<1>2. AreCalls(calls) /\ Len(calls) \in DOMAIN calls /\ up = Depth(calls, Len(calls)) BY <1>1, TopIsCall DEF WInv
<1>3. Top.level = up /\ Top.saved = up - 1 BY <1>1, <1>2 DEF Top, AreCalls
<1>4. up \in Nat \ {0} /\ up <= Len(maps) /\ Len(maps) \in Nat BY <1>1, <1>2, DepthGrows DEF Top, WInv
<1>5. AreCalls(calls') /\ Depth(calls', Len(calls')) = up - 1 BY <1>1, <1>2, CallEnds DEF Top
<1>6. Handed(ret')
  <2>1. PICK M : maps \in Seq(M) BY DEF WInv
  <2>2. up \in DOMAIN maps BY <1>4, <2>1
  <2>3. IsMap(maps[up]) BY <2>2 DEF WInv
  <2>4. DOMAIN WithoutPos(maps[up]) \subseteq UpKeys BY <2>3 DEF IsMap, WithoutPos, Without
  <2>5. ret' = IF Len(calls) = 1 THEN Pending ELSE WithoutPos(maps[Top.level]) BY DEF End
  <2> QED BY <1>3, <2>4, <2>5 DEF Handed
<1>7. WInv' BY <1>1, <1>3, <1>4, <1>5, <1>6 DEF WInv, Handed
<1>8. Kept BY <1>1 DEF Kept
<1> QED BY <1>7, <1>8

-----------------------------------------------------------------------------
(* The walk: the theorems.                                                 *)

LEMMA WalkStep == ASSUME WInv, [WalkNext]_walkVars PROVE WInv' /\ Kept
<1>1. CASE Throw
  <2>1. calls # <<>> /\ ops' = ops + 1 /\ UNCHANGED <<maps, up>> /\ calls' = <<>> /\ ret' = Pending BY <1>1 DEF Throw, Runs
  <2> QED BY <2>1, GivenUp DEF WInv
<1>2. CASE Pop \/ (\E v \in Vals : Push(v)) \/ \E k \in UpKeys \ {"stack"} : Delete(k) \/ \E v \in Values(k) : Assign(k, v)
  BY <1>2, ScriptDoesKeeps
<1>3. CASE \E slot \in 0 .. 1 : Nested(localAsg, slot) \/ (\E list \in Parsed \cup {asg} : Nested(list, slot))
             \/ (localAsg # <<>> /\ Nested(localAsg[1].kids, slot))
  BY <1>3, NestedKeeps
<1>4. CASE UNCHANGED walkVars
  <2>1. UNCHANGED <<calls, maps, up, ret, ops>> BY <1>4 DEF walkVars
  <2> QED BY <2>1 DEF WInv, Kept
<1> QED
  BY <1>1, <1>2, <1>3, <1>4, WalkTokenKeeps, WalkTagKeeps, WalkOtherKeeps, CollectKeeps, RunTagCodeKeeps, GetsResultKeeps,
     EndKeeps DEF WalkNext

LEMMA WalkBegins == ASSUME NEW graph, Begins(graph) PROVE WInv
<1> DEFINE x == Script(StartScript, "start", "start", 0, 1)
<1>1. calls = <<x>> /\ maps = <<OnlyText(<<>>)>> /\ up = 1 /\ ret = Pending /\ ops = 0 BY DEF Begins
<1>2. IsCall(x) /\ x.call = "script" /\ x.level = 1 /\ x.saved = 0 BY DEF Script, IsCall, IsScript, ScriptFields
<1> HIDE DEF x
<1>3. calls \in Seq({x}) /\ Len(calls) = 1 /\ DOMAIN calls = {1} /\ calls[1] = x BY <1>1
<1>4. Depth(calls, 1) = 1
  <2>1. Depth(calls, 0) = 0 BY NoDepth
  <2>2. Depth(calls, 0 + 1) = IF calls[0 + 1].call = "script" THEN Depth(calls, 0) + 1 ELSE Depth(calls, 0) BY DepthStep
  <2> QED BY <1>2, <1>3, <2>1, <2>2
<1>5. AreCalls(calls) BY <1>2, <1>3, <1>4 DEF AreCalls
<1>6. IsMap(OnlyText(<<>>)) BY DEF IsMap, OnlyText, UpKeys, TextKeys
<1>7. maps \in Seq({OnlyText(<<>>)}) /\ Len(maps) = 1 /\ \A l \in DOMAIN maps : maps[l] = OnlyText(<<>>) BY <1>1
<1>8. \E M : maps \in Seq(M) BY <1>7
<1>9. \A l \in DOMAIN maps : IsMap(maps[l]) BY <1>6, <1>7
<1>10. Depth(calls, Len(calls)) = 1 /\ 1 \in 0 .. Len(maps) /\ 1 <= Len(maps) BY <1>3, <1>4, <1>7
<1> QED BY <1>1, <1>5, <1>8, <1>9, <1>10 DEF WInv

\* The scripts that run have maps of their own, by nesting, and `up' is the innermost one's.
THEOREM WalkInvariance == ASSUME NEW graph PROVE WalkFrom(graph) => []WInv
<1>1. Begins(graph) => WInv BY WalkBegins
<1>2. WInv /\ [WalkNext]_walkVars => WInv' BY WalkStep
<1> QED BY <1>1, <1>2, PTL DEF WalkFrom

LEMMA InvRuns == WInv => OwnCodeAndUp
<1> SUFFICES ASSUME WInv PROVE OwnCodeAndUp OBVIOUS
<1>1. WalkTypeOK
  <2>1. \A c \in DOMAIN calls : calls[c].call \in {"rules", "tag", "script"} BY DEF WInv, AreCalls, IsCall, IsScript
  <2>2. \A l \in DOMAIN maps : DOMAIN maps[l] \subseteq UpKeys \cup {"pos"} BY DEF WInv, IsMap
  <2> QED BY <2>1, <2>2 DEF WInv, WalkTypeOK
<1>2. ASSUME NEW c \in DOMAIN calls, calls[c].call = "script"
      PROVE  calls[c].prog = calls[c].code /\ (c = Len(calls) => up = calls[c].level)
  <2>1. AreCalls(calls) BY DEF WInv
  <2>2. calls # <<>> BY <1>2
  <2>3. IsScript(calls[c]) /\ calls[c].level = Depth(calls, c) BY <1>2, <2>1 DEF AreCalls, IsCall
  <2> QED BY <2>2, <2>3 DEF IsScript, WInv
<1> QED BY <1>1, <1>2 DEF OwnCodeAndUp

\* What is handed about is of its type.  A script runs the code of its slot.  `up', push() and
\* pop() are its own again when a nested compile has run other scripts, and what it has in `up'
\* stays while it waits for them, whatever they do with theirs and how deep they nest.
THEOREM ScriptsRun == ASSUME NEW graph PROVE WalkFrom(graph) => ScriptsRunAsWritten
<1>1. WInv /\ [WalkNext]_walkVars => [WaitingKeepTheirs]_walkVars BY WalkStep DEF Kept, WaitingKeepTheirs
<1>2. WalkFrom(graph) => [][WaitingKeepTheirs]_walkVars BY WalkInvariance, <1>1, PTL DEF WalkFrom
<1>3. WalkFrom(graph) => []OwnCodeAndUp BY WalkInvariance, InvRuns, PTL
<1> QED BY <1>2, <1>3 DEF ScriptsRunAsWritten
=============================================================================
