---------------------------- MODULE GatesProofs ----------------------------
(***************************************************************************)
(* Theorems about Gates, for any number of processes, runs and crashes.    *)
(***************************************************************************)
EXTENDS Gates, FiniteSetTheorems, WellFoundedInduction, TLAPS

\* No two processes work on the cache, or on the baseline, at a time.
AloneOnCache == \A p, q \in Procs : pc[p] \in OnCache /\ pc[q] \in OnCache => p = q
AloneOnBaseline == \A p, q \in Procs : pc[p] \in OnBaseline /\ pc[q] \in OnBaseline => p = q

\* The cache can be read and holds what was saved, or is known to be cut off.
Whole ==
  \/ cacheFile = Missing /\ saved = {}
  \/ cacheFile \notin {Missing, Empty, Torn} /\ saved \subseteq cacheFile
  \/ cacheFile = Empty /\ cut

\* A process on its way to save has loaded what was saved before; the one that
\* writes has truncated the file, and without one the file is whole.  What was cut
\* off stays so: no process with a cache gets past it.
CacheInv ==
  "cache" \notin met =>
    /\ AloneOnCache
    /\ cut => cacheFile = Empty
    /\ \A p \in Procs : pc[p] \in OnCache /\ UsesCache(p) => ~cut /\ saved \subseteq entries[p]
    /\ \A p \in Procs : pc[p] = "writeCache" => cacheFile = Empty
    /\ (\A p \in Procs : pc[p] # "writeCache") => Whole

\* A process that writes has the temporary file open, one that renames finds its
\* score there; and it moves a baseline that it was asked to, or that is missing.
BaselineInv ==
  "baseline" \notin met =>
    /\ AloneOnBaseline
    /\ \A p \in Procs : pc[p] = "write" => tmp = fd[p] /\ data[tmp] = Empty
    /\ \A p \in Procs : pc[p] = "rename" => tmp # Missing /\ data[tmp] = Score(p)
    /\ \A p \in Procs : pc[p] \in {"open", "write", "rename"} => base = Missing \/ Asked(p).save

Shapes ==
  /\ setup \in Setups
  /\ pc \in [Procs -> {"idle", "loadCache"} \cup OnCache \cup OnBaseline]
  /\ result \in [Procs -> setup.results \cup {Unscored}]
  /\ entries \in [Procs -> SUBSET Keys]
  /\ fd \in [Procs -> Inodes \cup {Missing}]
  /\ \A p \in Procs : pc[p] = "write" => fd[p] \in Inodes
  /\ \A p \in Procs : pc[p] \in {"openCache", "writeCache"} => UsesCache(p)
  /\ DOMAIN data = Inodes
  /\ base \in Inodes \cup {Missing}
  /\ tmp \in Inodes \cup {Missing}
  /\ tmp = Missing \/ tmp # base
  /\ cacheFile \in {Missing, Empty, Torn} \cup SUBSET Keys

IInv == Shapes /\ CacheInv /\ BaselineInv

-----------------------------------------------------------------------------
\* Where a process is alone it stays so, unless it is recorded in met.
LEMMA GotoStep ==
  ASSUME Shapes, NEW p \in Procs, NEW point \in {"idle", "loadCache"} \cup OnCache \cup OnBaseline, Goto(p, point)
  PROVE  /\ pc' \in [Procs -> {"idle", "loadCache"} \cup OnCache \cup OnBaseline]
         /\ pc'[p] = point
         /\ \A q \in Procs \ {p} : pc'[q] = pc[q]
         /\ met \subseteq met'
         /\ "cache" \notin met' /\ AloneOnCache => AloneOnCache'
         /\ "baseline" \notin met' /\ AloneOnBaseline => AloneOnBaseline'
         /\ "cache" \notin met' /\ point \in OnCache => \A q \in Procs \ {p} : pc[q] \notin OnCache
         /\ "baseline" \notin met' /\ point \in OnBaseline => \A q \in Procs \ {p} : pc[q] \notin OnBaseline
<1>1. /\ pc' \in [Procs -> {"idle", "loadCache"} \cup OnCache \cup OnBaseline]
      /\ pc'[p] = point
      /\ \A q \in Procs \ {p} : pc'[q] = pc[q]
  BY DEF Goto, Shapes
<1>2. met' = met \cup {what \in {"cache", "baseline"} :
                        \E q \in Procs \ {p} :
                          LET on == IF what = "cache" THEN OnCache ELSE OnBaseline
                          IN  point \in on /\ pc[q] \in on}
  BY DEF Goto
<1>3. met \subseteq met'
  BY <1>2
<1>4. "cache" \notin met' /\ point \in OnCache => \A q \in Procs \ {p} : pc[q] \notin OnCache
  BY <1>2
<1>5. "baseline" \notin met' /\ point \in OnBaseline => \A q \in Procs \ {p} : pc[q] \notin OnBaseline
  <2>1. "baseline" # "cache"
    OBVIOUS
  <2> QED BY <1>2, <2>1
<1>6. "cache" \notin met' /\ AloneOnCache => AloneOnCache'
  BY <1>1, <1>4 DEF AloneOnCache
<1>7. "baseline" \notin met' /\ AloneOnBaseline => AloneOnBaseline'
  BY <1>1, <1>5 DEF AloneOnBaseline
<1> QED BY <1>1, <1>3, <1>4, <1>5, <1>6, <1>7

\* A step that does not touch the baseline's files leaves their invariant alone, if
\* its process enters Report for a reason, or not at all.
LEMMA BaselineUntouched ==
  ASSUME IInv, NEW p \in Procs, NEW point \in {"idle", "loadCache"} \cup OnCache \cup OnBaseline, Goto(p, point),
         UNCHANGED <<setup, data, base, tmp>>,
         point \notin {"write", "rename"},
         point = "open" => base = Missing \/ Asked(p).save,
         \A q \in Procs \ {p} : fd'[q] = fd[q] /\ result'[q] = result[q]
  PROVE  BaselineInv'
<1> SUFFICES ASSUME "baseline" \notin met' PROVE BaselineInv'
  BY DEF BaselineInv
<1>1. BaselineInv /\ Shapes /\ "baseline" \notin met
  BY GotoStep DEF IInv
<1>2. \A q \in Procs \ {p} : Score(q)' = Score(q)
  BY DEF Score
<1>3. \A q \in Procs : Asked(q)' = Asked(q)
  BY DEF Asked
<1>4. AloneOnBaseline'
  BY <1>1, GotoStep DEF BaselineInv
<1> QED BY <1>1, <1>2, <1>3, <1>4, GotoStep DEF BaselineInv

\* Likewise for the cache.
LEMMA CacheUntouched ==
  ASSUME IInv, NEW p \in Procs, NEW point \in {"idle", "loadCache"} \cup OnCache \cup OnBaseline, Goto(p, point),
         UNCHANGED <<setup, cacheFile, saved, entries>>, cut' <=> cut,
         pc[p] # "writeCache", point # "writeCache",
         point \in OnCache => pc[p] \in OnCache
  PROVE  CacheInv'
<1> SUFFICES ASSUME "cache" \notin met' PROVE CacheInv'
  BY DEF CacheInv
<1>1. CacheInv /\ Shapes /\ "cache" \notin met
  BY GotoStep DEF IInv
<1>2. \A q \in Procs : UsesCache(q)' = UsesCache(q)
  BY DEF UsesCache, Asked
<1>3. AloneOnCache'
  BY <1>1, GotoStep DEF CacheInv
<1>4. Whole' <=> Whole
  BY DEF Whole
<1> QED BY <1>1, <1>2, <1>3, <1>4, GotoStep DEF CacheInv

-----------------------------------------------------------------------------
(* The steps.                                                               *)

Points == {"idle", "loadCache"} \cup OnCache \cup OnBaseline

\* Report starts with saving a baseline, if that was asked for.
LEMMA ReturnGoesTo ==
  ASSUME NEW p, Return(p)
  PROVE  \E point \in {"open", "load", "gate"} : Goto(p, point) /\ (point = "open" => Asked(p).save)
BY DEF Return

LEMMA AskedFor == ASSUME Shapes, NEW p \in Procs PROVE Asked(p) \in Option
BY GatesAssumption DEF Shapes, Asked

\* Steps that leave both stores as they are: they keep the invariant.
LEMMA QuietStep ==
  ASSUME IInv, NEW p \in Procs, NEW point \in Points, Goto(p, point),
         UNCHANGED <<setup, cacheVars, baseVars>>,
         result' \in [Procs -> setup.results \cup {Unscored}],
         \A q \in Procs \ {p} : result'[q] = result[q],
         point \in OnCache => pc[p] \in OnCache,
         point \notin {"write", "rename", "openCache", "writeCache"},
         pc[p] \notin {"write", "writeCache"},
         point = "open" => base = Missing \/ Asked(p).save
  PROVE  IInv'
<1> USE DEF cacheVars, baseVars, Points
<1>1. CacheInv'
  BY CacheUntouched
<1>2. BaselineInv'
  BY BaselineUntouched
<1>3. pc' \in [Procs -> Points] /\ \A q \in Procs : pc'[q] = pc[q] \/ (q = p /\ pc'[q] = point)
  BY GotoStep DEF IInv
<1>4. \A q \in Procs : UsesCache(q)' = UsesCache(q)
  BY DEF UsesCache, Asked
<1>5. Shapes'
  BY <1>3, <1>4 DEF IInv, Shapes
<1> QED BY <1>1, <1>2, <1>5 DEF IInv

LEMMA LoadCacheStep == ASSUME IInv, NEW p \in Procs, LoadCache(p) PROVE IInv'
<1>1. PICK point \in {"idle", "makeWorkspace"} :
        /\ Goto(p, point)
        /\ UsesCache(p) /\ cacheFile \in {Empty, Torn} => point = "idle"
  BY DEF LoadCache, End
<1>2. /\ pc[p] = "loadCache"
      /\ entries' = [entries EXCEPT ![p] = IF UsesCache(p) /\ cacheFile \notin {Missing, Empty, Torn}
                                           THEN cacheFile ELSE {}]
      /\ UNCHANGED <<bounds, result, failed, workspaces, cacheFile, cut, saved, baseVars>>
  BY DEF LoadCache
<1>3. point \in {"idle", "loadCache"} \cup OnCache \cup OnBaseline
  BY DEF OnCache
<1>4. BaselineInv'
  BY <1>1, <1>2, <1>3, BaselineUntouched DEF bounds, baseVars
<1>5. pc' \in [Procs -> Points] /\ pc'[p] = point /\ \A q \in Procs \ {p} : pc'[q] = pc[q]
  BY <1>1, <1>3, GotoStep DEF IInv, Points
<1>6. \A q \in Procs : UsesCache(q)' = UsesCache(q)
  BY <1>2 DEF UsesCache, Asked, bounds
<1>7. entries' \in [Procs -> SUBSET Keys]
  BY <1>2 DEF IInv, Shapes
<1>8. Shapes'
  BY <1>1, <1>2, <1>5, <1>6, <1>7 DEF IInv, Shapes, bounds, baseVars, Points
<1>9. CacheInv'
  <2> SUFFICES ASSUME "cache" \notin met' PROVE CacheInv'
    BY DEF CacheInv
  <2>1. CacheInv /\ Shapes /\ "cache" \notin met
    BY <1>1, <1>2, <1>3, GotoStep DEF IInv
  <2>2. AloneOnCache'
    BY <1>1, <1>3, <2>1, GotoStep DEF CacheInv
  <2>3. Whole' <=> Whole
    BY <1>2 DEF Whole
  <2>4. ASSUME pc'[p] \in OnCache, UsesCache(p) PROVE ~cut /\ saved \subseteq entries'[p]
    <3>1. point = "makeWorkspace" /\ cacheFile \notin {Empty, Torn}
      BY <1>1, <1>5, <2>4 DEF OnCache
    <3>2. \A q \in Procs : pc[q] # "writeCache"
      BY <1>1, <1>2, <1>3, <2>1, <3>1, GotoStep DEF OnCache
    <3>3. Whole
      BY <1>2, <2>1, <3>2 DEF CacheInv
    <3>4. ~cut
      BY <2>1, <3>1 DEF CacheInv
    <3> QED BY <1>2, <2>1, <2>4, <3>1, <3>3, <3>4 DEF Whole, Shapes
  <2>5. ASSUME NEW q \in Procs, pc'[q] \in OnCache, UsesCache(q) PROVE ~cut /\ saved \subseteq entries'[q]
    BY <1>2, <1>5, <2>1, <2>4, <2>5 DEF CacheInv, Shapes
  <2>6. \A q \in Procs : pc'[q] = "writeCache" <=> pc[q] = "writeCache"
    BY <1>2, <1>5
  <2> QED BY <1>2, <1>6, <2>1, <2>2, <2>3, <2>5, <2>6 DEF CacheInv
<1> QED BY <1>4, <1>8, <1>9 DEF IInv

LEMMA RunAndSetStep ==
  ASSUME IInv, NEW p \in Procs, NEW r \in setup.results \cup {Unscored}, NEW error \in BOOLEAN, RunAndSet(p, r, error)
  PROVE  IInv'
<1>1. /\ pc[p] = "tests" /\ UsesCache(p) /\ Goto(p, "openCache")
      /\ result' = [result EXCEPT ![p] = r]
      /\ entries' = [entries EXCEPT ![p] = @ \cup Asked(p).keys]
      /\ UNCHANGED <<bounds, outcome, workspaces, cacheFile, cut, saved, baseVars>>
  BY DEF RunAndSet
<1>2. "openCache" \in {"idle", "loadCache"} \cup OnCache \cup OnBaseline /\ "openCache" \in OnCache /\ pc[p] \in OnCache
  BY <1>1 DEF OnCache
<1>3. \A q \in Procs \ {p} : result'[q] = result[q] /\ fd'[q] = fd[q]
  BY <1>1 DEF IInv, Shapes, baseVars
<1>4. BaselineInv'
  BY <1>1, <1>2, <1>3, BaselineUntouched DEF bounds, baseVars
<1>5. pc' \in [Procs -> Points] /\ pc'[p] = "openCache" /\ \A q \in Procs \ {p} : pc'[q] = pc[q]
  BY <1>1, <1>2, GotoStep DEF IInv, Points
<1>6. \A q \in Procs : UsesCache(q)' = UsesCache(q)
  BY <1>1 DEF UsesCache, Asked, bounds
<1>7. entries' \in [Procs -> SUBSET Keys] /\ result' \in [Procs -> setup.results \cup {Unscored}]
  BY <1>1, AskedFor DEF IInv, Shapes, Option
<1>8. Shapes'
  BY <1>1, <1>5, <1>6, <1>7 DEF IInv, Shapes, bounds, baseVars, Points
<1>9. CacheInv'
  <2> SUFFICES ASSUME "cache" \notin met' PROVE CacheInv'
    BY DEF CacheInv
  <2>1. CacheInv /\ Shapes /\ "cache" \notin met
    BY <1>1, <1>2, GotoStep DEF IInv
  <2>2. AloneOnCache'
    BY <1>1, <1>2, <2>1, GotoStep DEF CacheInv
  <2>3. Whole' <=> Whole
    BY <1>1 DEF Whole
  <2>4. \A q \in Procs : entries[q] \subseteq entries'[q]
    BY <1>1, <2>1 DEF Shapes
  <2>5. \A q \in Procs : pc'[q] \in OnCache => pc[q] \in OnCache
    BY <1>2, <1>5
  <2>6. \A q \in Procs : pc'[q] = "writeCache" <=> pc[q] = "writeCache"
    BY <1>1, <1>5
  <2> QED BY <1>1, <1>6, <2>1, <2>2, <2>3, <2>4, <2>5, <2>6 DEF CacheInv
<1> QED BY <1>4, <1>8, <1>9 DEF IInv
\* Truncating the file: only the process that writes it is on the cache.
LEMMA OpenCacheStep == ASSUME IInv, NEW p \in Procs, OpenCache(p) PROVE IInv'
<1>1. /\ pc[p] = "openCache" /\ cacheFile' = Empty /\ Goto(p, "writeCache")
      /\ UNCHANGED <<bounds, runVars, workspaces, entries, cut, saved, baseVars>>
  BY DEF OpenCache
<1>2. "writeCache" \in {"idle", "loadCache"} \cup OnCache \cup OnBaseline /\ "writeCache" \in OnCache /\ pc[p] \in OnCache
  BY <1>1 DEF OnCache
<1>3. BaselineInv'
  BY <1>1, <1>2, BaselineUntouched DEF bounds, baseVars, runVars
<1>4. pc' \in [Procs -> Points] /\ pc'[p] = "writeCache" /\ \A q \in Procs \ {p} : pc'[q] = pc[q]
  BY <1>1, <1>2, GotoStep DEF IInv, Points
<1>5. \A q \in Procs : UsesCache(q)' = UsesCache(q)
  BY <1>1 DEF UsesCache, Asked, bounds
<1>6. Shapes'
  BY <1>1, <1>4, <1>5 DEF IInv, Shapes, bounds, baseVars, runVars, Points
<1>7. CacheInv'
  <2> SUFFICES ASSUME "cache" \notin met' PROVE CacheInv'
    BY DEF CacheInv
  <2>1. CacheInv /\ Shapes /\ "cache" \notin met
    BY <1>1, <1>2, GotoStep DEF IInv
  <2>2. AloneOnCache'
    BY <1>1, <1>2, <2>1, GotoStep DEF CacheInv
  <2>3. \A q \in Procs : pc'[q] \in OnCache => pc[q] \in OnCache
    BY <1>2, <1>4
  <2> QED BY <1>1, <1>4, <1>5, <2>1, <2>2, <2>3 DEF CacheInv
<1> QED BY <1>3, <1>6, <1>7 DEF IInv

\* Writing it: what was saved before is among what this process has loaded.
LEMMA WriteCacheStep == ASSUME IInv, NEW p \in Procs, WriteCache(p) PROVE IInv'
<1>1. /\ pc[p] = "writeCache" /\ saved' = saved \cup entries[p] /\ Return(p)
      /\ cacheFile' \in {entries[p]} \cup (IF cacheFile = Empty THEN {} ELSE {Torn})
      /\ UNCHANGED <<bounds, runVars, entries, cut, baseVars>>
  BY DEF WriteCache
<1>2. PICK point \in {"open", "load", "gate"} : Goto(p, point) /\ (point = "open" => Asked(p).save)
  BY <1>1, ReturnGoesTo
<1>3. /\ point \in {"idle", "loadCache"} \cup OnCache \cup OnBaseline
      /\ point \notin OnCache /\ pc[p] \in OnCache
  BY <1>1 DEF OnCache, OnBaseline
<1>4. BaselineInv'
  BY <1>1, <1>2, <1>3, BaselineUntouched DEF bounds, baseVars, runVars
<1>5. pc' \in [Procs -> Points] /\ pc'[p] = point /\ \A q \in Procs \ {p} : pc'[q] = pc[q]
  BY <1>2, <1>3, GotoStep DEF IInv, Points
<1>6. \A q \in Procs : UsesCache(q)' = UsesCache(q)
  BY <1>1 DEF UsesCache, Asked, bounds
<1>7. entries[p] \in SUBSET Keys
  BY DEF IInv, Shapes
<1>8. cacheFile' \in {Missing, Empty, Torn} \cup SUBSET Keys
  BY <1>1, <1>7
<1>9. Shapes'
  BY <1>1, <1>3, <1>5, <1>6, <1>8 DEF IInv, Shapes, bounds, baseVars, runVars, Points
<1>10. CacheInv'
  <2> SUFFICES ASSUME "cache" \notin met' PROVE CacheInv'
    BY DEF CacheInv
  <2>1. CacheInv /\ Shapes /\ "cache" \notin met
    BY <1>1, <1>2, <1>3, GotoStep DEF IInv
  <2>2. \A q \in Procs \ {p} : pc[q] \notin OnCache /\ pc'[q] \notin OnCache
    BY <1>3, <1>5, <2>1 DEF CacheInv, AloneOnCache
  <2>3. \A q \in Procs : pc'[q] \notin OnCache
    BY <1>3, <1>5, <2>2
  <2>4. ~cut /\ saved \subseteq entries[p] /\ cacheFile = Empty
    BY <1>1, <1>3, <2>1 DEF CacheInv, Shapes
  <2>5. cacheFile' = entries[p] /\ saved' = entries[p]
    BY <1>1, <2>4
  <2>6. Whole'
    BY <1>7, <2>5, MarkersAssumption DEF Whole
  <2>7. AloneOnCache'
    BY <2>3 DEF AloneOnCache
  <2>8. ~cut'
    BY <1>1, <2>4
  <2> QED BY <2>3, <2>6, <2>7, <2>8 DEF CacheInv, OnCache
<1> QED BY <1>4, <1>9, <1>10 DEF IInv

\* A process that leaves the cache in the middle of a write leaves it unreadable, with
\* nobody else on it.
LEMMA CutOff ==
  ASSUME IInv, NEW p \in Procs, NEW point \in Points, Goto(p, point), point \notin OnCache,
         pc[p] = "writeCache", UNCHANGED <<cacheFile, saved>>, cut'
  PROVE  CacheInv'
<1> SUFFICES ASSUME "cache" \notin met' PROVE CacheInv'
  BY DEF CacheInv
<1>1. CacheInv /\ Shapes /\ "cache" \notin met
  BY GotoStep DEF IInv, Points
<1>2. \A q \in Procs \ {p} : pc'[q] = pc[q] /\ pc[q] \notin OnCache
  BY <1>1, GotoStep DEF CacheInv, AloneOnCache, OnCache, Points
<1>3. \A q \in Procs : pc'[q] \notin OnCache
  BY <1>1, <1>2, GotoStep DEF Points
<1>4. cacheFile' = Empty
  BY <1>1 DEF CacheInv
<1> QED BY <1>3, <1>4 DEF CacheInv, Whole, AloneOnCache

\* A failed or interrupted write is remembered in cut; before the file is opened nothing is lost.
LEMMA SaveCacheFailsStep == ASSUME IInv, NEW p \in Procs, SaveCacheFails(p) PROVE IInv'
<1>1. /\ pc[p] \in {"openCache", "writeCache"} /\ cut' = (cut \/ pc[p] = "writeCache") /\ Return(p)
      /\ UNCHANGED <<bounds, runVars, entries, cacheFile, saved, baseVars>>
  BY DEF SaveCacheFails
<1>2. PICK point \in {"open", "load", "gate"} : Goto(p, point) /\ (point = "open" => Asked(p).save)
  BY <1>1, ReturnGoesTo
<1>3. /\ point \in {"idle", "loadCache"} \cup OnCache \cup OnBaseline
      /\ point \notin OnCache
  BY DEF OnCache, OnBaseline
<1>4. BaselineInv'
  BY <1>1, <1>2, <1>3, BaselineUntouched DEF bounds, baseVars, runVars
<1>5. pc' \in [Procs -> Points] /\ pc'[p] = point /\ \A q \in Procs \ {p} : pc'[q] = pc[q]
  BY <1>2, <1>3, GotoStep DEF IInv, Points
<1>6. \A q \in Procs : UsesCache(q)' = UsesCache(q)
  BY <1>1 DEF UsesCache, Asked, bounds
<1>7. Shapes'
  BY <1>1, <1>3, <1>5, <1>6 DEF IInv, Shapes, bounds, baseVars, runVars, Points
<1>8. CacheInv'
  <2>1. CASE pc[p] = "writeCache"
    <3>1. UNCHANGED <<cacheFile, saved>> /\ cut'
      BY <1>1, <2>1
    <3> QED BY <1>2, <1>3, <2>1, <3>1, CutOff DEF Points
  <2>2. CASE pc[p] # "writeCache"
    <3>1. UNCHANGED <<setup, cacheFile, saved, entries>>
      BY <1>1 DEF bounds, runVars
    <3>2. cut' <=> cut
      BY <1>1, <2>2, Zenon
    <3> QED BY <1>2, <1>3, <2>2, <3>1, <3>2, CacheUntouched
  <2> QED BY <2>1, <2>2
<1> QED BY <1>4, <1>7, <1>8 DEF IInv

LEMMA CrashStep == ASSUME IInv, NEW p \in Procs, Crash(p) PROVE IInv'
<1>1. /\ pc[p] # "idle" /\ Goto(p, "idle") /\ fd' = [fd EXCEPT ![p] = Missing]
      /\ cut' = (cut \/ pc[p] = "writeCache")
      /\ UNCHANGED <<setup, runs, result, failed, workspaces, entries, cacheFile, saved, data, base, tmp>>
  BY DEF Crash, End
<1>2. \A q \in Procs \ {p} : fd'[q] = fd[q]
  BY <1>1 DEF IInv, Shapes
<1>3. BaselineInv'
  BY <1>1, <1>2, BaselineUntouched
<1>4. pc' \in [Procs -> Points] /\ pc'[p] = "idle" /\ \A q \in Procs \ {p} : pc'[q] = pc[q]
  BY <1>1, GotoStep DEF IInv, Points
<1>5. \A q \in Procs : UsesCache(q)' = UsesCache(q)
  BY <1>1 DEF UsesCache, Asked
<1>6. Shapes'
  BY <1>1, <1>2, <1>4, <1>5 DEF IInv, Shapes, Points
<1>7. CacheInv'
  <2>1. CASE pc[p] = "writeCache"
    <3>1. "idle" \notin OnCache
      BY DEF OnCache
    <3> QED BY <1>1, <2>1, <3>1, CutOff DEF Points
  <2>2. CASE pc[p] # "writeCache"
    <3>1. "idle" \notin OnCache
      BY DEF OnCache
    <3>2. cut' <=> cut
      BY <1>1, <2>2, Zenon
    <3> QED BY <1>1, <2>2, <3>1, <3>2, CacheUntouched
  <2> QED BY <2>1, <2>2
<1> QED BY <1>3, <1>6, <1>7 DEF IInv
\* The temporary file is opened: the one with that name, or one that nobody has open
\* and that is not the baseline.
LEMMA OpenTmpStep == ASSUME IInv, NEW p \in Procs, OpenTmp(p) PROVE IInv'
<1>1. PICK i \in Inodes :
        /\ IF tmp # Missing THEN i = tmp ELSE i # base /\ \A q \in Procs : fd[q] # i
        /\ tmp' = i /\ fd' = [fd EXCEPT ![p] = i] /\ data' = [data EXCEPT ![i] = Empty]
  BY DEF OpenTmp
<1>2. /\ pc[p] = "open" /\ Goto(p, "write")
      /\ UNCHANGED <<bounds, runVars, workspaces, cacheVars, base>>
  BY DEF OpenTmp
<1>3. "write" \in {"idle", "loadCache"} \cup OnCache \cup OnBaseline /\ "write" \notin OnCache
      /\ {"open", "write", "rename"} \subseteq OnBaseline
  BY DEF OnCache, OnBaseline
<1>4. CacheInv'
  BY <1>2, <1>3, CacheUntouched DEF bounds, cacheVars
<1>5. pc' \in [Procs -> Points] /\ pc'[p] = "write" /\ \A q \in Procs \ {p} : pc'[q] = pc[q]
  BY <1>2, <1>3, GotoStep DEF IInv, Points
<1>6. \A q \in Procs : UsesCache(q)' = UsesCache(q) /\ Asked(q)' = Asked(q)
  BY <1>2 DEF UsesCache, Asked, bounds
<1>7. fd' \in [Procs -> Inodes \cup {Missing}] /\ fd'[p] = i /\ \A q \in Procs \ {p} : fd'[q] = fd[q]
  BY <1>1 DEF IInv, Shapes
<1>8. tmp' # base'
  BY <1>1, <1>2 DEF IInv, Shapes
<1>9. Shapes'
  BY <1>1, <1>2, <1>5, <1>6, <1>7, <1>8 DEF IInv, Shapes, bounds, runVars, cacheVars, Points
<1>10. BaselineInv'
  <2> SUFFICES ASSUME "baseline" \notin met' PROVE BaselineInv'
    BY DEF BaselineInv
  <2>1. BaselineInv /\ "baseline" \notin met /\ AloneOnBaseline
    BY <1>2, <1>3, GotoStep DEF IInv, BaselineInv
  <2>2. AloneOnBaseline'
    BY <1>2, <1>3, <2>1, GotoStep DEF IInv
  <2>3. \A q \in Procs \ {p} : pc'[q] \notin OnBaseline
    BY <1>2, <1>3, <1>5, <2>1 DEF AloneOnBaseline
  <2>4. data'[i] = Empty
    BY <1>1 DEF IInv, Shapes
  <2>5. base' = Missing \/ Asked(p)'.save
    BY <1>2, <1>6, <2>1 DEF BaselineInv
  <2>6. \A q \in Procs : pc'[q] \in {"open", "write", "rename"} => q = p
    BY <1>3, <2>3
  <2> QED BY <1>1, <1>5, <1>7, <2>2, <2>4, <2>5, <2>6 DEF BaselineInv
<1> QED BY <1>4, <1>9, <1>10 DEF IInv

LEMMA WriteTmpStep == ASSUME IInv, NEW p \in Procs, WriteTmp(p) PROVE IInv'
<1>1. PICK score \in {Score(p)} \cup (IF data[fd[p]] = Empty THEN {} ELSE {Torn}) :
        data' = [data EXCEPT ![fd[p]] = score]
  BY DEF WriteTmp
<1>2. /\ pc[p] = "write" /\ fd' = [fd EXCEPT ![p] = Missing] /\ Goto(p, "rename")
      /\ UNCHANGED <<bounds, runVars, workspaces, cacheVars, base, tmp>>
  BY DEF WriteTmp
<1>3. "rename" \in {"idle", "loadCache"} \cup OnCache \cup OnBaseline /\ "rename" \notin OnCache
      /\ {"open", "write", "rename"} \subseteq OnBaseline
  BY DEF OnCache, OnBaseline
<1>4. CacheInv'
  BY <1>2, <1>3, CacheUntouched DEF bounds, cacheVars
<1>5. pc' \in [Procs -> Points] /\ pc'[p] = "rename" /\ \A q \in Procs \ {p} : pc'[q] = pc[q]
  BY <1>2, <1>3, GotoStep DEF IInv, Points
<1>6. \A q \in Procs : UsesCache(q)' = UsesCache(q) /\ Asked(q)' = Asked(q) /\ Score(q)' = Score(q)
  BY <1>2 DEF UsesCache, Asked, bounds, runVars, Score
<1>7. fd' \in [Procs -> Inodes \cup {Missing}] /\ \A q \in Procs \ {p} : fd'[q] = fd[q]
  BY <1>2 DEF IInv, Shapes
<1>8. Shapes'
  BY <1>1, <1>2, <1>5, <1>6, <1>7 DEF IInv, Shapes, bounds, runVars, cacheVars, Points
<1>9. BaselineInv'
  <2> SUFFICES ASSUME "baseline" \notin met' PROVE BaselineInv'
    BY DEF BaselineInv
  <2>1. BaselineInv /\ "baseline" \notin met /\ AloneOnBaseline
    BY <1>2, <1>3, GotoStep DEF IInv, BaselineInv
  <2>2. AloneOnBaseline'
    BY <1>2, <1>3, <2>1, GotoStep DEF IInv
  <2>3. \A q \in Procs \ {p} : pc'[q] \notin OnBaseline
    BY <1>2, <1>3, <1>5, <2>1 DEF AloneOnBaseline
  <2>4. tmp = fd[p] /\ data[tmp] = Empty /\ fd[p] \in Inodes
    BY <1>2, <2>1 DEF BaselineInv, IInv, Shapes
  <2>5. tmp' # Missing /\ data'[tmp'] = Score(p)
    BY <1>1, <1>2, <2>4, MarkersAssumption DEF IInv, Shapes
  <2>6. base' = Missing \/ Asked(p)'.save
    BY <1>2, <1>6, <2>1 DEF BaselineInv
  <2>7. \A q \in Procs : pc'[q] \in {"open", "write", "rename"} => q = p
    BY <1>3, <2>3
  <2> QED BY <1>5, <1>6, <2>2, <2>5, <2>6, <2>7 DEF BaselineInv
<1> QED BY <1>4, <1>8, <1>9 DEF IInv

LEMMA RenameStep == ASSUME IInv, NEW p \in Procs, Rename(p) PROVE IInv'
<1>1. PICK point \in {"idle", "load", "gate"} : Goto(p, point)
  BY DEF Rename, End
<1>2. /\ pc[p] = "rename"
      /\ (base' = base /\ tmp' = tmp) \/ (base' = tmp /\ tmp' = Missing /\ tmp # Missing)
      /\ UNCHANGED <<bounds, result, failed, workspaces, cacheVars, fd, data>>
  BY DEF Rename
<1>3. point \in {"idle", "loadCache"} \cup OnCache \cup OnBaseline /\ point \notin OnCache
      /\ {"open", "write", "rename"} \subseteq OnBaseline
  BY DEF OnCache, OnBaseline
<1>4. CacheInv'
  BY <1>1, <1>2, <1>3, CacheUntouched DEF bounds, cacheVars
<1>5. pc' \in [Procs -> Points] /\ pc'[p] = point /\ \A q \in Procs \ {p} : pc'[q] = pc[q]
  BY <1>1, <1>3, GotoStep DEF IInv, Points
<1>6. \A q \in Procs : UsesCache(q)' = UsesCache(q)
  BY <1>2 DEF UsesCache, Asked, bounds
<1>7. Shapes'
  BY <1>2, <1>3, <1>5, <1>6 DEF IInv, Shapes, bounds, cacheVars, Points
<1>8. BaselineInv'
  <2> SUFFICES ASSUME "baseline" \notin met' PROVE BaselineInv'
    BY DEF BaselineInv
  <2>1. BaselineInv /\ "baseline" \notin met /\ AloneOnBaseline
    BY <1>1, <1>3, GotoStep DEF IInv, BaselineInv
  <2>2. AloneOnBaseline'
    BY <1>1, <1>3, <2>1, GotoStep DEF IInv
  <2>3. \A q \in Procs : pc'[q] \notin {"open", "write", "rename"}
    BY <1>2, <1>3, <1>5, <2>1 DEF AloneOnBaseline
  <2> QED BY <2>2, <2>3 DEF BaselineInv
<1> QED BY <1>4, <1>7, <1>8 DEF IInv
LEMMA ReportFailsStep == ASSUME IInv, NEW p \in Procs, ReportFails(p) PROVE IInv'
<1>1. /\ pc[p] \in OnBaseline /\ Goto(p, "idle") /\ fd' = [fd EXCEPT ![p] = Missing]
      /\ UNCHANGED <<bounds, result, failed, workspaces, cacheVars, data, base, tmp>>
  BY DEF ReportFails, End
<1>2. pc[p] # "writeCache" /\ "idle" \notin OnCache
  BY <1>1 DEF OnCache, OnBaseline
<1>3. CacheInv'
  BY <1>1, <1>2, CacheUntouched DEF bounds, cacheVars
<1>4. \A q \in Procs \ {p} : fd'[q] = fd[q]
  BY <1>1 DEF IInv, Shapes
<1>5. BaselineInv'
  BY <1>1, <1>4, BaselineUntouched DEF bounds
<1>6. pc' \in [Procs -> Points] /\ pc'[p] = "idle" /\ \A q \in Procs \ {p} : pc'[q] = pc[q]
  BY <1>1, GotoStep DEF IInv, Points
<1>7. \A q \in Procs : UsesCache(q)' = UsesCache(q)
  BY <1>1 DEF UsesCache, Asked, bounds
<1>8. Shapes'
  BY <1>1, <1>4, <1>6, <1>7 DEF IInv, Shapes, bounds, cacheVars, Points
<1> QED BY <1>3, <1>5, <1>8 DEF IInv

\* The steps that touch neither store.
LEMMA QuietSteps ==
  ASSUME IInv, NEW p \in Procs,
         \/ Start(p) \/ MakeWorkspace(p) \/ Compare(p) \/ Gate(p)
         \/ \E how \in {"ok", "failed"} : NothingToReport(p, how)
         \/ \E r \in setup.results \cup {Unscored}, error \in BOOLEAN : Run(p, r, error)
  PROVE  IInv'
<1> USE DEF Points, OnCache, OnBaseline
<1>0. result \in [Procs -> setup.results \cup {Unscored}]
  BY DEF IInv, Shapes
<1>1. CASE Start(p)
  <2>1. /\ pc[p] = "idle" /\ Goto(p, "loadCache") /\ result' = [result EXCEPT ![p] = Unscored]
        /\ UNCHANGED <<setup, cacheVars, baseVars>>
    BY <1>1 DEF Start
  <2>2. /\ result' \in [Procs -> setup.results \cup {Unscored}]
        /\ \A q \in Procs \ {p} : result'[q] = result[q]
    BY <1>0, <2>1
  <2> QED BY <2>1, <2>2, QuietStep
<1>2. CASE MakeWorkspace(p)
  <2>1. /\ pc[p] = "makeWorkspace" /\ Goto(p, "tests")
        /\ UNCHANGED <<setup, cacheVars, baseVars, result>>
    BY <1>2 DEF MakeWorkspace, bounds, runVars
  <2> QED BY <1>0, <2>1, QuietStep
<1>3. CASE Compare(p)
  <2>1. PICK point \in {"open", "idle", "gate"} : Goto(p, point) /\ (point = "open" => base = Missing)
    BY <1>3 DEF Compare, End
  <2>2. pc[p] = "load" /\ UNCHANGED <<setup, cacheVars, baseVars, result>>
    BY <1>3 DEF Compare, bounds
  <2> QED BY <1>0, <2>1, <2>2, QuietStep
<1>4. CASE Gate(p)
  <2>1. /\ pc[p] = "gate" /\ Goto(p, "idle")
        /\ UNCHANGED <<setup, cacheVars, baseVars, result>>
    BY <1>4 DEF Gate, End, bounds
  <2> QED BY <1>0, <2>1, QuietStep
<1>5. ASSUME NEW how \in {"ok", "failed"}, NothingToReport(p, how) PROVE IInv'
  <2>1. /\ pc[p] \in {"makeWorkspace", "tests"} /\ Goto(p, "idle")
        /\ UNCHANGED <<setup, cacheVars, baseVars, result>>
    BY <1>5 DEF NothingToReport, End, bounds
  <2> QED BY <1>0, <2>1, QuietStep
<1>6. ASSUME NEW r \in setup.results \cup {Unscored}, NEW error \in BOOLEAN, Run(p, r, error) PROVE IInv'
  <2>1. /\ pc[p] = "tests" /\ Return(p) /\ result' = [result EXCEPT ![p] = r]
        /\ UNCHANGED <<setup, cacheVars, baseVars>>
    BY <1>6 DEF Run, bounds
  <2>2. /\ result' \in [Procs -> setup.results \cup {Unscored}]
        /\ \A q \in Procs \ {p} : result'[q] = result[q]
    BY <1>0, <2>1
  <2>3. PICK point \in {"open", "load", "gate"} : Goto(p, point) /\ (point = "open" => Asked(p).save)
    BY <2>1, ReturnGoesTo
  <2> QED BY <2>1, <2>2, <2>3, QuietStep
<1> QED BY <1>1, <1>2, <1>3, <1>4, <1>5, <1>6

LEMMA Initially == Init => IInv
<1> SUFFICES ASSUME Init PROVE IInv
  OBVIOUS
<1>1. Shapes
  BY DEF Init, Shapes
<1>2. OnCache \cap {"idle"} = {} /\ OnBaseline \cap {"idle"} = {}
  BY DEF OnCache, OnBaseline
<1>3. CacheInv
  BY <1>2 DEF Init, CacheInv, AloneOnCache, Whole
<1>4. BaselineInv
  BY <1>2 DEF Init, BaselineInv, AloneOnBaseline
<1> QED BY <1>1, <1>3, <1>4 DEF IInv

LEMMA Inductive == IInv /\ [Next]_vars => IInv'
<1> SUFFICES ASSUME IInv, [Next]_vars PROVE IInv'
  OBVIOUS
<1>1. CASE UNCHANGED vars
  <2>1. \A q \in Procs : UsesCache(q)' = UsesCache(q) /\ Asked(q)' = Asked(q) /\ Score(q)' = Score(q)
    BY <1>1 DEF vars, bounds, runVars, UsesCache, Asked, Score
  <2> QED BY <1>1, <2>1 DEF vars, bounds, runVars, cacheVars, baseVars, IInv, Shapes, CacheInv, BaselineInv,
                           AloneOnCache, AloneOnBaseline, Whole
<1>2. ASSUME NEW p \in Procs, LoadCache(p) \/ OpenCache(p) \/ WriteCache(p) \/ SaveCacheFails(p) PROVE IInv'
  BY <1>2, LoadCacheStep, OpenCacheStep, WriteCacheStep, SaveCacheFailsStep
<1>3. ASSUME NEW p \in Procs, OpenTmp(p) \/ WriteTmp(p) \/ Rename(p) \/ ReportFails(p) \/ Crash(p) PROVE IInv'
  BY <1>3, OpenTmpStep, WriteTmpStep, RenameStep, ReportFailsStep, CrashStep
<1>4. ASSUME NEW p \in Procs, NEW r \in setup.results \cup {Unscored}, NEW error \in BOOLEAN, RunAndSet(p, r, error)
      PROVE  IInv'
  BY <1>4, RunAndSetStep
<1> QED BY <1>1, <1>2, <1>3, <1>4, QuietSteps DEF Next

LEMMA Invariant == Spec => []IInv
<1>1. Init => IInv
  BY Initially
<1>2. IInv /\ [Next]_vars => IInv'
  BY Inductive
<1> QED BY <1>1, <1>2, PTL DEF Spec

-----------------------------------------------------------------------------
(* Scores and thresholds.                                                   *)

\* The mutants of some files, numbered from 1 in each, can be counted.
LEMMA FiniteMutants ==
  ASSUME NEW n \in [Files -> Nat], NEW F \in SUBSET Files
  PROVE  /\ IsFiniteSet(UNION {{f} \X (1 .. n[f]) : f \in F})
         /\ Cardinality(UNION {{f} \X (1 .. n[f]) : f \in F}) \in Nat
<1> DEFINE of == [f \in F |-> {f} \X (1 .. n[f])]
           T == {of[f] : f \in F}
<1>1. IsFiniteSet(F)
  BY FS_Subset, GatesAssumption
<1>2. of \in Surjection(F, T)
  BY DEF Surjection
<1>3. IsFiniteSet(T)
  <2> HIDE DEF of, T
  <2> QED BY <1>1, <1>2, FS_Surjection
<1>4. ASSUME NEW t \in T PROVE IsFiniteSet(t)
  <2>1. PICK f \in F : t = {f} \X (1 .. n[f])
    OBVIOUS
  <2>2. 1 \in Int /\ n[f] \in Int
    OBVIOUS
  <2>3. IsFiniteSet(1 .. n[f])
    BY <2>2, FS_Interval
  <2>4. IsFiniteSet({f})
    BY FS_Singleton
  <2> QED BY <2>1, <2>3, <2>4, FS_Product
<1>5. T = {{f} \X (1 .. n[f]) : f \in F}
  OBVIOUS
<1>6. IsFiniteSet(UNION T)
  <2> HIDE DEF T
  <2> QED BY <1>3, <1>4, FS_UNION
<1>7. Cardinality(UNION T) \in Nat
  <2> HIDE DEF T
  <2> QED BY <1>6, FS_CardinalityType
<1> QED BY <1>5, <1>6, <1>7

\* No more mutants are killed than have a verdict.
LEMMA Counting ==
  ASSUME setup \in Setups, NEW r \in setup.results \cup {Unscored}, NEW F \in SUBSET Files
  PROVE  /\ Killed(r, F) \in Nat /\ Scored(r, F) \in Nat
         /\ Killed(r, F) <= Scored(r, F)
<1> DEFINE killed == [f \in Files |-> r[f].killed]
           scored == [f \in Files |-> r[f].scored]
           K == UNION {{f} \X (1 .. killed[f]) : f \in F}
           S == UNION {{f} \X (1 .. scored[f]) : f \in F}
<1>1. /\ r \in [Files -> [killed : Nat, scored : Nat]]
      /\ \A f \in Files : r[f].killed <= r[f].scored
  BY GatesAssumption DEF Unscored
<1>2. killed \in [Files -> Nat] /\ scored \in [Files -> Nat]
  BY <1>1
<1>3. Killed(r, F) = Cardinality(K)
  <2>1. \A f \in F : killed[f] = r[f].killed
    OBVIOUS
  <2> QED BY <2>1 DEF Killed
<1>4. Scored(r, F) = Cardinality(S)
  <2>1. \A f \in F : scored[f] = r[f].scored
    OBVIOUS
  <2> QED BY <2>1 DEF Scored
<1>5. K \subseteq S
  <2>1. ASSUME NEW f \in F PROVE 1 .. killed[f] \subseteq 1 .. scored[f]
    <3>1. killed[f] \in Nat /\ scored[f] \in Nat /\ killed[f] <= scored[f]
      BY <1>1
    <3> QED BY <3>1
  <2> HIDE DEF killed, scored
  <2>2. ASSUME NEW f \in F PROVE {f} \X (1 .. killed[f]) \subseteq {f} \X (1 .. scored[f])
    BY <2>1
  <2> QED BY <2>2
<1>6. Cardinality(K) \in Nat
  <2> HIDE DEF killed
  <2> QED BY <1>2, FiniteMutants
<1>7. IsFiniteSet(S) /\ Cardinality(S) \in Nat
  <2> HIDE DEF scored
  <2> QED BY <1>2, FiniteMutants
<1>8. Cardinality(K) <= Cardinality(S)
  <2> HIDE DEF K, S
  <2> QED BY <1>5, <1>7, FS_Subset
<1> QED BY <1>3, <1>4, <1>6, <1>7, <1>8

\* A part of a whole, in per cent.
LEMMA PerCent ==
  ASSUME NEW k \in Nat, NEW s \in Nat, k <= s, s # 0
  PROVE  (100 * k) \div s \in 0 .. 100
<1>1. 100 * k \in Nat /\ s > 0 /\ 100 * k <= s * 100
  OBVIOUS
<1> DEFINE d == (100 * k) \div s
           m == (100 * k) % s
<1>2. d \in Int /\ m \in 0 .. s - 1 /\ 100 * k = s * d + m
  BY <1>1
<1> HIDE DEF d, m
<1>3. d >= 0
  <2> SUFFICES ASSUME d <= -1 PROVE FALSE
    BY <1>2
  <2>1. s * d <= s * (-1)
    BY <1>1, <1>2
  <2> QED BY <1>1, <1>2, <2>1
<1>4. d <= 100
  <2> SUFFICES ASSUME d >= 101 PROVE FALSE
    BY <1>2
  <2>1. s * d >= s * 101
    BY <1>1, <1>2
  <2> QED BY <1>1, <1>2, <2>1
<1> QED BY <1>2, <1>3, <1>4 DEF d

\* So is every score, of a file without mutants too.
LEMMA ScoreIsPerCent ==
  ASSUME setup \in Setups, NEW r \in setup.results \cup {Unscored}, NEW F \in SUBSET Files
  PROVE  CalculateScore(r, F) \in 0 .. 100
<1>1. /\ Killed(r, F) \in Nat /\ Scored(r, F) \in Nat
      /\ Killed(r, F) <= Scored(r, F)
  BY Counting
<1> QED BY <1>1, PerCent DEF CalculateScore

\* orgpolicy.Apply takes the higher of the threshold and the floor.
LEMMA ThresholdIsHigher ==
  ASSUME setup \in Setups
  PROVE  /\ Threshold \in Nat
         /\ Threshold = Max({setup.root.threshold, setup.policy.floor})
<1> DEFINE t == setup.root.threshold
           g == setup.policy.floor
<1>1. t \in Nat /\ g \in Nat
  BY GatesAssumption DEF Policy
<1>2. Threshold = IF t < g THEN g ELSE t
  BY GatesAssumption DEF Threshold, Apply, SubConfig
<1> HIDE DEF t, g
<1>3. Threshold \in Nat /\ Threshold \in {t, g} /\ \A y \in {t, g} : Threshold >= y
  BY <1>1, <1>2
<1>4. \A x \in {t, g} : (\A y \in {t, g} : x >= y) => x = Threshold
  BY <1>1, <1>2
<1>5. Max({t, g}) = Threshold
  BY <1>3, <1>4 DEF Max
<1> QED BY <1>3, <1>5 DEF t, g

\* The higher of two numbers.
LEMMA HigherOf ==
  ASSUME NEW a \in Nat, NEW b \in Nat, ~(a < b)
  PROVE  Max({a, b}) = a
<1>1. \A x \in {a, b} : (\A y \in {a, b} : x >= y) => x = a
  OBVIOUS
<1>2. \A y \in {a, b} : a >= y
  OBVIOUS
<1> QED BY <1>1, <1>2 DEF Max

\* Of directories above one of them, some are below all the others: take the one with
\* the fewest that are not above it.
LEMMA NearestExists ==
  ASSUME NEW D, D # {}, NEW b \in Dirs, D \subseteq Above[b]
  PROVE  \E m \in D : D \subseteq Above[m]
<1> DEFINE T == {Cardinality(D \ Above[m]) : m \in D}
           R == OpToRel(<, Nat)
<1>1. /\ \A d \in D : d \in Above[d] /\ \A e \in Above[d] : Above[e] \subseteq Above[d]
      /\ \A d, e \in D : d \in Above[e] \/ e \in Above[d]
  BY ConfigurationAssumption
<1>2. D \in SUBSET Dirs /\ IsFiniteSet(Dirs)
  BY ConfigurationAssumption
<1>3. \A m \in D : IsFiniteSet(D \ Above[m])
  <2>1. \A m \in D : D \ Above[m] \in SUBSET Dirs
    BY <1>2
  <2> QED BY <1>2, <2>1, FS_Subset
<1>4. \A m \in D : Cardinality(D \ Above[m]) \in Nat
  BY <1>3, FS_CardinalityType
<1>5. \A i, j \in Nat : i < j => <<i, j>> \in R
  BY DEF OpToRel
<1>6. PICK least \in T : \A other \in T : ~(<<other, least>> \in R)
  <2>1. IsWellFoundedOn(R, Nat)
    BY NatLessThanWellFounded, Zenon
  <2>2. T \in SUBSET Nat /\ T # {}
    BY <1>4
  <2> HIDE DEF T, R
  <2> QED BY <2>1, <2>2, WFMin
<1>7. PICK m \in D : least = Cardinality(D \ Above[m])
  OBVIOUS
<1>8. ASSUME NEW e \in D, e \notin Above[m] PROVE FALSE
  <2>1. m \in Above[e] /\ Above[m] \subseteq Above[e] /\ e \in Above[e]
    BY <1>1, <1>8
  <2>2. D \ Above[e] \in SUBSET (D \ Above[m]) /\ D \ Above[e] # D \ Above[m]
    BY <1>8, <2>1
  <2>3. Cardinality(D \ Above[e]) <= Cardinality(D \ Above[m]) /\ Cardinality(D \ Above[e]) # Cardinality(D \ Above[m])
    BY <1>3, <2>2, FS_Subset
  <2>4. ~(Cardinality(D \ Above[e]) < Cardinality(D \ Above[m]))
    <3> HIDE DEF R
    <3> QED BY <1>4, <1>5, <1>6, <1>7
  <2> QED BY <1>4, <2>3, <2>4
<1> QED BY <1>8

\* What a package needs to pass the check of the packages: its documented bar, or its
\* own threshold where that is not raised.
Needed(f) == IF NotRaised(f) THEN Level(f) ELSE Bar(f)

\* The resolver finds it for the nearest level, in each mode and under a lock.
LEMMA BarIsEffective ==
  ASSUME setup \in Setups, NEW f \in Files
  PROVE  EffectiveThreshold(setup.subs, setup.mode, setup.policy.locked, f, Threshold) = Needed(f)
<1> DEFINE locked == setup.policy.locked
           above == Above[DirOf[f]] \cap DOMAIN setup.subs
           saying == {d \in chain(setup.subs, setup.mode, f) :
                        Said(setup.subs, locked, d).threshold # Unset}
           effective == EffectiveThreshold(setup.subs, setup.mode, locked, f, Threshold)
           floor == setup.policy.floor
<1>1. \A d : Said(setup.subs, locked, d).threshold
               = IF "threshold" \in locked THEN Unset ELSE setup.subs[d].threshold
  BY DEF Said, ApplyToSubConfig
<1>2. \A d \in above : d \in Deepest(above) <=> \A e \in above : e \in Above[d]
  BY DEF Deepest
<1>3. saying = Saying(f)
  BY <1>1, <1>2 DEF chain, Saying
<1>4. (CHOOSE d \in Deepest(saying) : TRUE) = (CHOOSE d \in saying : saying \subseteq Above[d])
  BY DEF Deepest
<1>5. saying # {} => "threshold" \notin locked
  BY <1>3 DEF Saying
<1>6. effective = IF Saying(f) = {} THEN Threshold ELSE Level(f)
  <2> DEFINE nearest == CHOOSE d \in Deepest(saying) : TRUE
  <2>1. effective = IF saying = {} THEN Threshold ELSE Said(setup.subs, locked, nearest).threshold
    BY DEF EffectiveThreshold
  <2> HIDE DEF saying, effective
  <2>2. nearest = CHOOSE d \in Saying(f) : Saying(f) \subseteq Above[d]
    BY <1>3, <1>4, Zenon
  <2> HIDE DEF nearest
  <2>3. saying # {} => Said(setup.subs, locked, nearest).threshold = setup.subs[nearest].threshold
    BY <1>1, <1>5
  <2> QED BY <1>3, <2>1, <2>2, <2>3 DEF Level
<1>7. CASE Saying(f) = {}
  BY <1>6, <1>7, ThresholdIsHigher DEF Needed, NotRaised, Bar, Level
<1>8. CASE Saying(f) # {}
  <2>1. Level(f) \in Nat /\ floor \in Nat
    <3>1. Saying(f) \subseteq Above[DirOf[f]] \cap DOMAIN setup.subs
      BY DEF Saying
    <3>2. PICK d \in Saying(f) : Saying(f) \subseteq Above[d]
      BY <1>8, <3>1, NearestExists, ConfigurationAssumption
    <3>3. Level(f) = setup.subs[CHOOSE e \in Saying(f) : Saying(f) \subseteq Above[e]].threshold
      BY <1>8 DEF Level
    <3>4. \A e \in Saying(f) : setup.subs[e].threshold \in Nat
      BY GatesAssumption DEF Saying, SubConfig
    <3>5. Level(f) \in Nat
      BY <3>2, <3>3, <3>4
    <3> QED BY <3>5, GatesAssumption DEF Policy
  <2>2. CASE Level(f) < floor
    BY <1>6, <1>8, <2>2 DEF Needed, NotRaised
  <2>3. CASE ~(Level(f) < floor)
    <3>1. Max({Level(f), floor}) = Level(f)
      BY <2>1, <2>3, HigherOf
    <3> QED BY <1>6, <1>8, <2>3, <3>1 DEF Needed, NotRaised, Bar
  <2> QED BY <2>2, <2>3
<1> QED BY <1>7, <1>8

-----------------------------------------------------------------------------
(* Types, and what is true at the gates.                                    *)

\* What TypeOK says of each process, and of the rest.
ProcTypes ==
  /\ outcome \in [Procs -> {"none", "ok", "failed"}] /\ failed \in [Procs -> BOOLEAN]
  /\ \A p \in Procs : /\ outcome[p] = "none" \/ pc[p] = "idle"
                      /\ IF pc[p] = "write" THEN fd[p] \in Inodes ELSE fd[p] = Missing
  /\ met \subseteq {"cache", "baseline"}

StoreTypes ==
  /\ workspaces \subseteq Procs
  /\ \A i \in Inodes : IsContent(data[i])
  /\ runs \in 0 .. setup.runs /\ crashes \in 0 .. setup.crashes
  /\ cut \in BOOLEAN /\ saved \subseteq Keys

TypeInv == ProcTypes /\ StoreTypes

\* A process that passes the gates under no_regression is within the tolerance of
\* what is in the baseline by then, its own score if it has just saved it.
WithinTolerance ==
  "baseline" \notin met =>
    \A p \in Procs : pc[p] = "gate" /\ Asked(p).noRegression =>
      /\ base # Missing /\ data[base] \in 0 .. 100
      /\ Score(p) + Asked(p).tolerance >= data[base]

LEMMA ScoreOf == ASSUME Shapes, NEW p \in Procs PROVE Score(p) \in 0 .. 100
<1>1. setup \in Setups /\ result[p] \in setup.results \cup {Unscored} /\ Files \in SUBSET Files
  BY DEF Shapes
<1> QED BY <1>1, ScoreIsPerCent DEF Score

\* A process goes on, ends or starts; it opens a file, closes it or has none.
LEMMA ProcStep ==
  ASSUME Shapes, ProcTypes, NEW p \in Procs, NEW point \in Points, Goto(p, point),
         \/ outcome' = outcome /\ pc[p] # "idle"
         \/ point = "idle" /\ \E how \in {"ok", "failed"} : outcome' = [outcome EXCEPT ![p] = how]
         \/ outcome' = [outcome EXCEPT ![p] = "none"],
         failed' \in [Procs -> BOOLEAN],
         \/ fd' = fd /\ pc[p] # "write" /\ point # "write"
         \/ fd' = [fd EXCEPT ![p] = Missing] /\ point # "write"
         \/ point = "write" /\ \E i \in Inodes : fd' = [fd EXCEPT ![p] = i]
  PROVE  ProcTypes'
<1>1. /\ pc'[p] = point
      /\ \A q \in Procs \ {p} : pc'[q] = pc[q]
  BY GotoStep DEF Points
<1>2. met' \subseteq {"cache", "baseline"}
  BY DEF Goto, ProcTypes
<1>3. /\ outcome' \in [Procs -> {"none", "ok", "failed"}]
      /\ outcome'[p] = "none" \/ point = "idle"
      /\ \A q \in Procs \ {p} : outcome'[q] = outcome[q]
  BY DEF ProcTypes
<1>4. /\ IF point = "write" THEN fd'[p] \in Inodes ELSE fd'[p] = Missing
      /\ \A q \in Procs \ {p} : fd'[q] = fd[q]
  BY DEF ProcTypes, Shapes
<1>5. ASSUME NEW q \in Procs
      PROVE  /\ outcome'[q] = "none" \/ pc'[q] = "idle"
             /\ IF pc'[q] = "write" THEN fd'[q] \in Inodes ELSE fd'[q] = Missing
  BY <1>1, <1>3, <1>4 DEF ProcTypes
<1> QED BY <1>2, <1>3, <1>5 DEF ProcTypes

\* One step for each action: its process, then the rest.
LEMMA TypeStep == ASSUME IInv, TypeInv, [Next]_vars PROVE TypeInv'
<1> USE DEF Points, OnCache, OnBaseline
<1>0. Shapes /\ ProcTypes /\ StoreTypes
  BY DEF IInv, TypeInv
<1>a. /\ setup.runs \in Nat /\ setup.crashes \in Nat /\ runs \in Nat /\ crashes \in Nat
  BY <1>0, GatesAssumption DEF Shapes, StoreTypes
<1>b. \A p \in Procs : entries[p] \subseteq Keys
  BY <1>0 DEF Shapes
<1>1. ASSUME NEW p \in Procs, Start(p) PROVE TypeInv'
  <2>1. ProcTypes'
    BY <1>0, <1>1, ProcStep DEF Start, ProcTypes, baseVars
  <2>2. StoreTypes'
    BY <1>0, <1>1, <1>a DEF Start, StoreTypes, cacheVars, baseVars
  <2> QED BY <2>1, <2>2 DEF TypeInv
<1>2. ASSUME NEW p \in Procs, LoadCache(p) PROVE TypeInv'
  <2>1. ProcTypes'
    <3>1. CASE UsesCache(p) /\ cacheFile \in {Empty, Torn}
      BY <1>0, <1>2, <3>1, ProcStep DEF LoadCache, End, ProcTypes, baseVars
    <3>2. CASE ~(UsesCache(p) /\ cacheFile \in {Empty, Torn})
      BY <1>0, <1>2, <3>2, ProcStep DEF LoadCache, ProcTypes, baseVars
    <3> QED BY <3>1, <3>2
  <2>2. StoreTypes'
    BY <1>0, <1>2 DEF LoadCache, StoreTypes, bounds, baseVars
  <2> QED BY <2>1, <2>2 DEF TypeInv
<1>3. ASSUME NEW p \in Procs, MakeWorkspace(p) PROVE TypeInv'
  <2>1. ProcTypes'
    BY <1>0, <1>3, ProcStep DEF MakeWorkspace, ProcTypes, baseVars, runVars
  <2>2. StoreTypes'
    BY <1>0, <1>3 DEF MakeWorkspace, StoreTypes, bounds, cacheVars, baseVars
  <2> QED BY <2>1, <2>2 DEF TypeInv
<1>4. ASSUME NEW p \in Procs, NEW how \in {"ok", "failed"}, NothingToReport(p, how) PROVE TypeInv'
  <2>1. ProcTypes'
    BY <1>0, <1>4, ProcStep DEF NothingToReport, End, ProcTypes, baseVars
  <2>2. StoreTypes'
    BY <1>0, <1>4 DEF NothingToReport, StoreTypes, bounds, cacheVars, baseVars
  <2> QED BY <2>1, <2>2 DEF TypeInv
<1>5. ASSUME NEW p \in Procs, NEW r, NEW error \in BOOLEAN, Run(p, r, error) PROVE TypeInv'
  <2>1. PICK point \in {"open", "load", "gate"} : Goto(p, point)
    BY <1>5, ReturnGoesTo DEF Run
  <2>2. ProcTypes'
    BY <1>0, <1>5, <2>1, ProcStep DEF Run, ProcTypes, baseVars
  <2>3. StoreTypes'
    BY <1>0, <1>5 DEF Run, StoreTypes, bounds, cacheVars, baseVars
  <2> QED BY <2>2, <2>3 DEF TypeInv
<1>6. ASSUME NEW p \in Procs, NEW r, NEW error \in BOOLEAN, RunAndSet(p, r, error) PROVE TypeInv'
  <2>1. ProcTypes'
    BY <1>0, <1>6, ProcStep DEF RunAndSet, ProcTypes, baseVars
  <2>2. StoreTypes'
    BY <1>0, <1>6 DEF RunAndSet, StoreTypes, bounds, baseVars
  <2> QED BY <2>1, <2>2 DEF TypeInv
<1>7. ASSUME NEW p \in Procs, OpenCache(p) PROVE TypeInv'
  <2>1. ProcTypes'
    BY <1>0, <1>7, ProcStep DEF OpenCache, ProcTypes, baseVars, runVars
  <2>2. StoreTypes'
    BY <1>0, <1>7 DEF OpenCache, StoreTypes, bounds, baseVars
  <2> QED BY <2>1, <2>2 DEF TypeInv
<1>8. ASSUME NEW p \in Procs, WriteCache(p) PROVE TypeInv'
  <2>1. PICK point \in {"open", "load", "gate"} : Goto(p, point)
    BY <1>8, ReturnGoesTo DEF WriteCache
  <2>2. ProcTypes'
    BY <1>0, <1>8, <2>1, ProcStep DEF WriteCache, ProcTypes, baseVars, runVars
  <2>3. StoreTypes'
    BY <1>0, <1>8, <1>b DEF WriteCache, StoreTypes, bounds, baseVars
  <2> QED BY <2>2, <2>3 DEF TypeInv
<1>9. ASSUME NEW p \in Procs, SaveCacheFails(p) PROVE TypeInv'
  <2>1. PICK point \in {"open", "load", "gate"} : Goto(p, point)
    BY <1>9, ReturnGoesTo DEF SaveCacheFails
  <2>2. ProcTypes'
    BY <1>0, <1>9, <2>1, ProcStep DEF SaveCacheFails, ProcTypes, baseVars, runVars
  <2>3. StoreTypes'
    BY <1>0, <1>9 DEF SaveCacheFails, StoreTypes, bounds, baseVars
  <2> QED BY <2>2, <2>3 DEF TypeInv
<1>10. ASSUME NEW p \in Procs, OpenTmp(p) PROVE TypeInv'
  <2>1. PICK i \in Inodes : fd' = [fd EXCEPT ![p] = i] /\ data' = [data EXCEPT ![i] = Empty]
    BY <1>10 DEF OpenTmp
  <2>2. ProcTypes'
    BY <1>0, <1>10, <2>1, ProcStep DEF OpenTmp, ProcTypes, runVars
  <2>3. \A j \in Inodes : IsContent(data'[j])
    BY <1>0, <2>1 DEF Shapes, StoreTypes, IsContent
  <2>4. StoreTypes'
    BY <1>0, <1>10, <2>3 DEF OpenTmp, StoreTypes, bounds, cacheVars, IsContent
  <2> QED BY <2>2, <2>4 DEF TypeInv
<1>11. ASSUME NEW p \in Procs, WriteTmp(p) PROVE TypeInv'
  <2>1. PICK score \in {Score(p)} \cup (IF data[fd[p]] = Empty THEN {} ELSE {Torn}) :
          data' = [data EXCEPT ![fd[p]] = score]
    BY <1>11 DEF WriteTmp
  <2>2. ProcTypes'
    BY <1>0, <1>11, ProcStep DEF WriteTmp, ProcTypes, runVars
  <2>3. IsContent(score)
    BY <1>0, <2>1, ScoreOf DEF IsContent
  <2>4. \A j \in Inodes : IsContent(data'[j])
    BY <1>0, <2>1, <2>3 DEF Shapes, StoreTypes, IsContent
  <2>5. StoreTypes'
    BY <1>0, <1>11, <2>4 DEF WriteTmp, StoreTypes, bounds, cacheVars, IsContent
  <2> QED BY <2>2, <2>5 DEF TypeInv
<1>12. ASSUME NEW p \in Procs, Rename(p) PROVE TypeInv'
  <2>1. ProcTypes'
    <3>1. CASE tmp = Missing
      BY <1>0, <1>12, <3>1, ProcStep DEF Rename, End, ProcTypes
    <3>2. CASE tmp # Missing
      <4>1. PICK point \in {"load", "gate"} : Goto(p, point)
        BY <1>12, <3>2 DEF Rename
      <4> QED BY <1>0, <1>12, <3>2, <4>1, ProcStep DEF Rename, ProcTypes
    <3> QED BY <3>1, <3>2
  <2>2. StoreTypes'
    BY <1>0, <1>12 DEF Rename, StoreTypes, bounds, cacheVars
  <2> QED BY <2>1, <2>2 DEF TypeInv
<1>13. ASSUME NEW p \in Procs, ReportFails(p) PROVE TypeInv'
  <2>1. ProcTypes'
    BY <1>0, <1>13, ProcStep DEF ReportFails, End, ProcTypes
  <2>2. StoreTypes'
    BY <1>0, <1>13 DEF ReportFails, StoreTypes, bounds, cacheVars
  <2> QED BY <2>1, <2>2 DEF TypeInv
<1>14. ASSUME NEW p \in Procs, Compare(p) PROVE TypeInv'
  <2>1. ProcTypes'
    <3>1. PICK point \in {"open", "gate", "idle"} :
            /\ Goto(p, point)
            /\ IF point = "idle" THEN outcome' = [outcome EXCEPT ![p] = "failed"] ELSE outcome' = outcome
      BY <1>14 DEF Compare, End
    <3> QED BY <1>0, <1>14, <3>1, ProcStep DEF Compare, ProcTypes, baseVars
  <2>2. StoreTypes'
    BY <1>0, <1>14 DEF Compare, StoreTypes, bounds, cacheVars, baseVars
  <2> QED BY <2>1, <2>2 DEF TypeInv
<1>15. ASSUME NEW p \in Procs, Gate(p) PROVE TypeInv'
  <2>1. ProcTypes'
    BY <1>0, <1>15, ProcStep DEF Gate, End, ProcTypes, baseVars
  <2>2. StoreTypes'
    BY <1>0, <1>15 DEF Gate, StoreTypes, bounds, cacheVars, baseVars
  <2> QED BY <2>1, <2>2 DEF TypeInv
<1>16. ASSUME NEW p \in Procs, Crash(p) PROVE TypeInv'
  <2>1. ProcTypes'
    BY <1>0, <1>16, ProcStep DEF Crash, End, ProcTypes
  <2>2. StoreTypes'
    BY <1>0, <1>16, <1>a DEF Crash, StoreTypes
  <2> QED BY <2>1, <2>2 DEF TypeInv
<1>17. CASE UNCHANGED vars
  BY <1>17 DEF TypeInv, ProcTypes, StoreTypes, IsContent, vars, bounds, runVars, cacheVars, baseVars
<1> QED BY <1>1, <1>2, <1>3, <1>4, <1>5, <1>6, <1>7, <1>8, <1>9, <1>10, <1>11, <1>12, <1>13, <1>14, <1>15,
           <1>16, <1>17 DEF Next

\* A step leaves the tolerance alone that lets no process pass the gates, and, but
\* for a process that is on the baseline alone, what is in there.
LEMMA ToleranceKept ==
  ASSUME IInv, WithinTolerance, NEW p \in Procs, NEW point \in Points, Goto(p, point),
         UNCHANGED setup, \A q \in Procs \ {p} : result'[q] = result[q],
         "baseline" \notin met' => point # "gate" \/ ~Asked(p).noRegression,
         \/ UNCHANGED <<data, base>>
         \/ pc[p] \in OnBaseline /\ point \in OnBaseline
  PROVE  WithinTolerance'
<1> SUFFICES ASSUME "baseline" \notin met', NEW q \in Procs, pc'[q] = "gate", Asked(q)'.noRegression
             PROVE  /\ base' # Missing /\ data'[base'] \in 0 .. 100
                    /\ Score(q)' + Asked(q)'.tolerance >= data'[base']
  BY DEF WithinTolerance
<1>1. /\ Asked(q)' = Asked(q) /\ "gate" \in OnBaseline
      /\ Shapes /\ "baseline" \notin met
      /\ pc'[p] = point /\ \A t \in Procs \ {p} : pc'[t] = pc[t]
      /\ point \in OnBaseline => \A t \in Procs \ {p} : pc[t] \notin OnBaseline
  BY GotoStep DEF IInv, Points, OnBaseline, Asked
<1>2. q # p /\ pc[q] = "gate"
  BY <1>1
<1>3. UNCHANGED <<data, base>> /\ Score(q)' = Score(q)
  BY <1>1, <1>2 DEF Score
<1> QED BY <1>1, <1>2, <1>3 DEF WithinTolerance

\* It is reached from Compare, or from Rename with its own score.
LEMMA ToleranceStep == ASSUME IInv, TypeInv, WithinTolerance, [Next]_vars PROVE WithinTolerance'
<1> USE DEF Points, OnCache, OnBaseline
<1>0. Shapes /\ result \in [Procs -> setup.results \cup {Unscored}]
  BY DEF IInv, Shapes
<1>1. ASSUME NEW p \in Procs, Start(p) \/ LoadCache(p) \/ MakeWorkspace(p) PROVE WithinTolerance'
  <2>1. PICK point \in {"loadCache", "makeWorkspace", "tests", "idle"} : Goto(p, point)
    BY <1>1 DEF Start, LoadCache, MakeWorkspace, End
  <2> QED BY <1>0, <1>1, <2>1, ToleranceKept DEF Start, LoadCache, MakeWorkspace, bounds, runVars, baseVars
<1>2. ASSUME NEW p \in Procs, OpenCache(p) \/ ReportFails(p) \/ Gate(p) \/ Crash(p) PROVE WithinTolerance'
  <2>1. PICK point \in {"writeCache", "idle"} : Goto(p, point)
    BY <1>2 DEF OpenCache, ReportFails, Gate, Crash, End
  <2> QED BY <1>0, <1>2, <2>1, ToleranceKept DEF OpenCache, ReportFails, Gate, Crash, bounds, runVars, baseVars
<1>3. ASSUME NEW p \in Procs, NEW how \in {"ok", "failed"}, NothingToReport(p, how) PROVE WithinTolerance'
  BY <1>0, <1>3, ToleranceKept DEF NothingToReport, End, bounds, baseVars
<1>4. ASSUME NEW p \in Procs, NEW r, NEW error \in BOOLEAN, Run(p, r, error) \/ RunAndSet(p, r, error)
      PROVE  WithinTolerance'
  <2>1. PICK point \in {"open", "load", "gate", "openCache"} :
          Goto(p, point) /\ (point = "gate" => ~Asked(p).noRegression)
    BY <1>4 DEF Run, RunAndSet, Return
  <2> QED BY <1>0, <1>4, <2>1, ToleranceKept DEF Run, RunAndSet, bounds, baseVars
<1>5. ASSUME NEW p \in Procs, WriteCache(p) \/ SaveCacheFails(p) PROVE WithinTolerance'
  <2>1. PICK point \in {"open", "load", "gate"} :
          Goto(p, point) /\ (point = "gate" => ~Asked(p).noRegression)
    BY <1>5 DEF WriteCache, SaveCacheFails, Return
  <2> QED BY <1>0, <1>5, <2>1, ToleranceKept DEF WriteCache, SaveCacheFails, bounds, baseVars, runVars
<1>6. ASSUME NEW p \in Procs, OpenTmp(p) PROVE WithinTolerance'
  BY <1>0, <1>6, ToleranceKept DEF OpenTmp, bounds, runVars
<1>7. ASSUME NEW p \in Procs, WriteTmp(p) PROVE WithinTolerance'
  BY <1>0, <1>7, ToleranceKept DEF WriteTmp, bounds, runVars
<1>8. ASSUME NEW p \in Procs, Rename(p) PROVE WithinTolerance'
  <2>1. /\ pc[p] = "rename"
        /\ UNCHANGED <<bounds, result, failed, workspaces, cacheVars, fd, data>>
    BY <1>8 DEF Rename
  <2>2. CASE tmp = Missing
    BY <1>0, <1>8, <2>1, <2>2, ToleranceKept DEF Rename, End, bounds
  <2>3. CASE tmp # Missing /\ Asked(p).save
    <3>1. PICK point \in {"load", "gate"} : Goto(p, point) /\ (point = "gate" => ~Asked(p).noRegression)
      BY <1>8, <2>3 DEF Rename
    <3> QED BY <1>0, <2>1, <3>1, ToleranceKept DEF bounds
  <2>4. CASE tmp # Missing /\ ~Asked(p).save
    <3>1. Goto(p, "gate") /\ base' = tmp
      BY <1>8, <2>4 DEF Rename
    <3> SUFFICES ASSUME "baseline" \notin met', NEW q \in Procs, pc'[q] = "gate", Asked(q)'.noRegression
                 PROVE  /\ base' # Missing /\ data'[base'] \in 0 .. 100
                        /\ Score(q)' + Asked(q)'.tolerance >= data'[base']
      BY DEF WithinTolerance
    <3>2. /\ "baseline" \notin met /\ \A t \in Procs \ {p} : pc'[t] = pc[t] /\ pc[t] \notin OnBaseline
      BY <1>0, <3>1, GotoStep
    <3>3. q = p
      BY <3>2
    <3>4. data[tmp] = Score(p)
      BY <2>1, <3>2 DEF IInv, BaselineInv
    <3>5. Score(p)' = Score(p) /\ Asked(p)' = Asked(p)
      BY <2>1 DEF Score, Asked, bounds
    <3>6. Score(p) \in 0 .. 100 /\ Asked(p).tolerance \in Nat
      BY <1>0, ScoreOf, AskedFor DEF Option
    <3>7. data'[base'] = Score(p) /\ base' # Missing
      BY <2>1, <2>4, <3>1, <3>4
    <3> QED BY <3>3, <3>5, <3>6, <3>7
  <2> QED BY <2>2, <2>3, <2>4
<1>9. ASSUME NEW p \in Procs, Compare(p) PROVE WithinTolerance'
  <2>1. /\ pc[p] = "load" /\ UNCHANGED <<setup, result, data, base>>
    BY <1>9 DEF Compare, bounds, baseVars
  <2>2. PICK point \in {"open", "idle", "gate"} :
          /\ Goto(p, point)
          /\ point = "gate" => /\ base # Missing /\ data[base] \notin {Empty, Torn}
                               /\ ~(Score(p) + Asked(p).tolerance < data[base])
    BY <1>9 DEF Compare, End
  <2>3. CASE point # "gate"
    BY <1>0, <2>1, <2>2, <2>3, ToleranceKept
  <2>4. CASE point = "gate"
    <3> SUFFICES ASSUME "baseline" \notin met', NEW q \in Procs, pc'[q] = "gate", Asked(q)'.noRegression
                 PROVE  /\ base' # Missing /\ data'[base'] \in 0 .. 100
                        /\ Score(q)' + Asked(q)'.tolerance >= data'[base']
      BY DEF WithinTolerance
    <3>1. \A t \in Procs \ {p} : pc'[t] = pc[t] /\ pc[t] \notin OnBaseline
      BY <1>0, <2>2, <2>4, GotoStep
    <3>2. q = p
      BY <3>1
    <3>3. Score(p)' = Score(p) /\ Asked(p)' = Asked(p)
      BY <2>1 DEF Score, Asked
    <3>4. Score(p) \in 0 .. 100 /\ Asked(p).tolerance \in Nat
      BY <1>0, ScoreOf, AskedFor DEF Option
    <3>5. base \in Inodes /\ data[base] \in 0 .. 100
      BY <1>0, <2>2, <2>4 DEF Shapes, TypeInv, StoreTypes, IsContent
    <3>6. Score(p) + Asked(p).tolerance >= data[base]
      <4>1. ~(Score(p) + Asked(p).tolerance < data[base])
        BY <2>2, <2>4
      <4>2. \A a, b, c \in Int : ~(a + b < c) => a + b >= c
        OBVIOUS
      <4>3. Score(p) \in Int /\ Asked(p).tolerance \in Int /\ data[base] \in Int
        BY <3>4, <3>5
      <4> QED BY <4>1, <4>2, <4>3, Zenon
    <3> QED BY <2>1, <2>2, <2>4, <3>2, <3>3, <3>5, <3>6
  <2> QED BY <2>3, <2>4
<1>10. CASE UNCHANGED vars
  <2>1. \A q \in Procs : Score(q)' = Score(q) /\ Asked(q)' = Asked(q)
    BY <1>10 DEF vars, bounds, runVars, Score, Asked
  <2> QED BY <1>10, <2>1 DEF WithinTolerance, vars, bounds, runVars, cacheVars, baseVars
<1> QED BY <1>1, <1>2, <1>3, <1>4, <1>5, <1>6, <1>7, <1>8, <1>9, <1>10 DEF Next

\* What the last part of Report lets pass, in terms of the bars.
LEMMA MeetsTheBars ==
  ASSUME Shapes, NEW p \in Procs, MeetsThreshold(result[p])
  PROVE  \/ Scored(result[p], Files) = 0
         \/ Score(p) >= Max({setup.root.threshold, setup.policy.floor})
         \/ /\ DOMAIN setup.subs # {}
            /\ \A f \in Files : LET F == {g \in Files : DirOf[g] = DirOf[f]}
                                IN  Scored(result[p], F) > 0 => CalculateScore(result[p], F) >= Needed(f)
<1> DEFINE r == result[p]
<1>1. setup \in Setups /\ r \in setup.results \cup {Unscored}
  BY DEF Shapes
<1>2. Threshold \in Nat /\ Threshold = Max({setup.root.threshold, setup.policy.floor})
  BY <1>1, ThresholdIsHigher
<1>3. Score(p) = CalculateScore(r, Files) /\ Score(p) \in 0 .. 100
  BY ScoreOf DEF Score
<1>4. CASE Threshold = 0 \/ Scored(r, Files) = 0 \/ CalculateScore(r, Files) >= Threshold
  BY <1>2, <1>3, <1>4
<1>5. CASE DOMAIN setup.subs # {} /\ checkPerPackageThresholds(r)
  <2> SUFFICES ASSUME NEW f \in Files,
                      Scored(r, {g \in Files : DirOf[g] = DirOf[f]}) > 0
               PROVE  CalculateScore(r, {g \in Files : DirOf[g] = DirOf[f]}) >= Needed(f)
    BY <1>5
  <2> DEFINE d == DirOf[f]
             F == {g \in Files : DirOf[g] = d}
  <2>1. d \in Dirs
    BY ConfigurationAssumption
  <2>2. PICK h \in F : CalculateScore(r, F) >=
          EffectiveThreshold(setup.subs, setup.mode, setup.policy.locked, h, Threshold)
    BY <1>5, <2>1 DEF checkPerPackageThresholds
  <2>3. EffectiveThreshold(setup.subs, setup.mode, setup.policy.locked, h, Threshold) = Needed(h)
    BY <1>1, <2>2, BarIsEffective
  <2>4. Needed(h) = Needed(f)
    <3>1. DirOf[h] = DirOf[f]
      BY <2>2
    <3>2. chain(setup.subs, setup.mode, h) = chain(setup.subs, setup.mode, f)
      BY <3>1 DEF chain
    <3>3. EffectiveThreshold(setup.subs, setup.mode, setup.policy.locked, h, Threshold)
            = EffectiveThreshold(setup.subs, setup.mode, setup.policy.locked, f, Threshold)
      BY <3>2 DEF EffectiveThreshold
    <3> QED BY <1>1, <2>2, <3>3, BarIsEffective
  <2> QED BY <2>2, <2>3, <2>4
<1> QED BY <1>4, <1>5 DEF MeetsThreshold

FullInv == IInv /\ TypeInv /\ WithinTolerance

LEMMA FullInvariant == Spec => []FullInv
<1>1. ASSUME Init PROVE TypeInv
  <2>1. setup.runs \in Nat /\ setup.crashes \in Nat
    BY <1>1, GatesAssumption DEF Init
  <2>2. 0 \in 0 .. setup.runs /\ 0 \in 0 .. setup.crashes
    BY <2>1
  <2>3. StoreTypes
    BY <1>1, <2>2 DEF Init, StoreTypes, IsContent
  <2>4. ProcTypes
    BY <1>1 DEF Init, ProcTypes
  <2> QED BY <2>3, <2>4 DEF TypeInv
<1>2. Init => WithinTolerance
  BY DEF Init, WithinTolerance
<1>3. Init => FullInv
  BY <1>1, <1>2, Initially DEF FullInv
<1>4. FullInv /\ [Next]_vars => FullInv'
  BY Inductive, TypeStep, ToleranceStep DEF FullInv
<1> QED BY <1>3, <1>4, PTL DEF Spec

-----------------------------------------------------------------------------
(* The theorems.                                                            *)

\* For any number of processes that crash and start again at any point, as long as no
\* two are on the cache at a time, a cache that can be read holds all that was saved,
\* and only one whose write was cut off cannot be read.
THEOREM CacheIsKept == Spec => []CacheKeepsEntries
<1>1. IInv => CacheKeepsEntries
  BY DEF IInv, CacheInv, Whole, CacheKeepsEntries
<1> QED BY <1>1, Invariant, PTL

\* What a step of one process does to what is found in the baseline.
LEMMA FoundStep ==
  ASSUME IInv, NEW p \in Procs, "baseline" \notin met', Found' # Found,
         OpenTmp(p) \/ WriteTmp(p) \/ Rename(p)
  PROVE  pc[p] = "rename" /\ Found' = Score(p) /\ (Found = Missing \/ Asked(p).save)
<1>1. CASE OpenTmp(p)
  <2>1. PICK i \in Inodes : /\ IF tmp # Missing THEN i = tmp ELSE i # base
                            /\ data' = [data EXCEPT ![i] = Empty] /\ base' = base
    BY <1>1 DEF OpenTmp
  <2>2. i # base
    BY <2>1 DEF IInv, Shapes
  <2>3. base # Missing => data'[base] = data[base]
    BY <2>1, <2>2 DEF IInv, Shapes
  <2> QED BY <2>1, <2>3 DEF Found
<1>2. CASE WriteTmp(p)
  <2>1. PICK score : data' = [data EXCEPT ![fd[p]] = score]
    BY <1>2 DEF WriteTmp
  <2>2. pc[p] = "write" /\ base' = base /\ Goto(p, "rename")
    BY <1>2 DEF WriteTmp
  <2>3. "baseline" \notin met
    BY <2>2, GotoStep DEF IInv, OnBaseline
  <2>4. fd[p] # base
    <3>1. tmp = fd[p] /\ fd[p] \in Inodes
      BY <2>2, <2>3 DEF IInv, BaselineInv, Shapes
    <3>2. fd[p] # Missing
      BY <3>1, MarkersAssumption
    <3> QED BY <3>1, <3>2 DEF IInv, Shapes
  <2>5. base # Missing => data'[base] = data[base]
    BY <2>1, <2>4 DEF IInv, Shapes
  <2> QED BY <2>2, <2>5 DEF Found
<1>3. CASE Rename(p)
  <2>1. PICK point \in {"idle", "load", "gate"} : Goto(p, point)
    BY <1>3 DEF Rename, End
  <2>2. pc[p] = "rename" /\ (base' = base \/ base' = tmp) /\ data' = data
    BY <1>3 DEF Rename
  <2>3. "baseline" \notin met
    BY <2>1, GotoStep DEF IInv, OnBaseline
  <2>4. tmp # Missing /\ data[tmp] = Score(p) /\ (base = Missing \/ Asked(p).save)
    BY <2>2, <2>3 DEF IInv, BaselineInv
  <2> QED BY <2>2, <2>4 DEF Found
<1> QED BY <1>1, <1>2, <1>3

\* The baseline moves as a whole, to the score of the run that moves it, and once it is
\* there only for a run that was asked to save, wherever processes crash.
THEOREM BaselineIsARatchet == Spec => BaselineMoves
<1>1. ASSUME IInv, [Next]_vars
      PROVE  [Found' # Found /\ "baseline" \notin met' =>
                \E p \in Procs : /\ pc[p] = "rename"
                                 /\ Found' = Score(p)
                                 /\ Found = Missing \/ Asked(p).save]_vars
  <2> SUFFICES ASSUME Found' # Found, "baseline" \notin met'
               PROVE  \E p \in Procs : /\ pc[p] = "rename"
                                       /\ Found' = Score(p)
                                       /\ Found = Missing \/ Asked(p).save
    OBVIOUS
  <2>1. ~ UNCHANGED <<base, data>>
    BY DEF Found
  <2>2. PICK p \in Procs : OpenTmp(p) \/ WriteTmp(p) \/ Rename(p)
    BY <1>1, <2>1 DEF Next, vars, baseVars, Start, LoadCache, MakeWorkspace, NothingToReport, Run, RunAndSet,
       OpenCache, WriteCache, SaveCacheFails, ReportFails, Compare, Gate, Crash
  <2> QED BY <1>1, <2>2, FoundStep
<1> QED BY <1>1, Invariant, PTL DEF Spec, BaselineMoves

\* Every variable keeps its type, and a process writes a baseline only with a file
\* open, whoever crashes; a score in there is a per cent.
THEOREM TypesHold == Spec => []TypeOK
<1>1. FullInv => TypeOK
  BY DEF FullInv, IInv, Shapes, TypeInv, ProcTypes, StoreTypes, TypeOK
<1> QED BY <1>1, FullInvariant, PTL

\* For every tree of directories, chain of sub-configurations, policy, result and
\* number of processes, a run that passes the gates without an error has run its
\* tests, is within the tolerance of the baseline, and its packages reach their
\* documented bars, but for the two exceptions that the property names.
THEOREM AcceptedRunsMeetTheirBars == Spec => AcceptedRunsPass
<1> DEFINE Passes(p) ==
      LET r == result[p]
      IN  /\ ~failed[p]
          /\ \/ Scored(r, Files) = 0
             \/ Score(p) >= Max({setup.root.threshold, setup.policy.floor})
             \/ /\ DOMAIN setup.subs # {}
                /\ \A f \in Files : LET F == {g \in Files : DirOf[g] = DirOf[f]}
                                    IN  Scored(r, F) > 0 =>
                                          CalculateScore(r, F) >= IF NotRaised(f) THEN Level(f) ELSE Bar(f)
          /\ Asked(p).noRegression /\ "baseline" \notin met =>
               IsContent(Found) /\ Found \notin {Empty, Torn}
               /\ Score(p) + Asked(p).tolerance >= Found
<1>1. ASSUME FullInv, Next, NEW p \in Procs, outcome[p] = "none", outcome'[p] = "ok", pc[p] = "gate"
      PROVE  Passes(p)
  <2>1. Shapes /\ ProcTypes /\ WithinTolerance
    BY <1>1 DEF FullInv, IInv, TypeInv
  <2>2. Gate(p)
    <3>1. PICK q \in Procs :
            \/ Start(q) \/ LoadCache(q) \/ MakeWorkspace(q)
            \/ \E how \in {"ok", "failed"} : NothingToReport(q, how)
            \/ \E r \in setup.results \cup {Unscored}, error \in BOOLEAN : Run(q, r, error) \/ RunAndSet(q, r, error)
            \/ OpenCache(q) \/ WriteCache(q) \/ SaveCacheFails(q)
            \/ OpenTmp(q) \/ WriteTmp(q) \/ Rename(q) \/ ReportFails(q) \/ Compare(q) \/ Gate(q)
            \/ Crash(q)
      BY <1>1 DEF Next
    <3>2. q = p
      BY <1>1, <2>1, <3>1 DEF ProcTypes, Start, LoadCache, MakeWorkspace, NothingToReport, Run, RunAndSet, OpenCache,
         WriteCache, SaveCacheFails, OpenTmp, WriteTmp, Rename, ReportFails, Compare, Gate, Crash, End, runVars
    <3> QED BY <1>1, <2>1, <3>1, <3>2 DEF ProcTypes, Start, LoadCache, MakeWorkspace, NothingToReport, Run, RunAndSet,
         OpenCache, WriteCache, SaveCacheFails, OpenTmp, WriteTmp, Rename, ReportFails, Compare, Crash, End, runVars
  <2>3. MeetsThreshold(result[p]) /\ ~failed[p]
    BY <1>1, <2>1, <2>2 DEF Gate, End, ProcTypes
  <2>4. Asked(p).noRegression /\ "baseline" \notin met =>
          IsContent(Found) /\ Found \notin {Empty, Torn} /\ Score(p) + Asked(p).tolerance >= Found
    BY <1>1, <2>1, MarkersAssumption DEF WithinTolerance, Found, IsContent
  <2> QED BY <2>1, <2>3, <2>4, MeetsTheBars DEF Needed
<1>2. FullInv /\ [Next]_vars =>
        [\A p \in Procs : outcome[p] = "none" /\ outcome'[p] = "ok" /\ pc[p] = "gate" => Passes(p)]_vars
  BY <1>1
<1> QED BY <1>2, FullInvariant, PTL DEF Spec, AcceptedRunsPass
=============================================================================
