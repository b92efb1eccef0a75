--------------------------- MODULE ReceiverProofs ---------------------------
(***************************************************************************)
(* Proofs about the receivers oldestfile and fragmentation of              *)
(* knfsd-metrics-agent. Each has an inductive invariant of its own.        *)
(* fragmentation adds up over the files; the sums are those of SumLemmas.  *)
(***************************************************************************)
EXTENDS CacheWalk, SumLemmas, SequenceTheorems

-----------------------------------------------------------------------------
(* oldestfile *)

WalkSpec == CacheWalkInit /\ [][CacheWalkNext]_cacheWalkVars

\* Times do not go back, and no file was changed before wOldest.
FilesInv ==
  /\ cClock \in Nat \ {0} /\ wBegan \in Nat /\ wOldest \in Nat
  /\ wBegan <= cClock /\ wOldest <= cClock
  /\ DOMAIN cFiles \subseteq CacheFiles
  /\ \A f \in DOMAIN cFiles :
       cFiles[f].mtime \in Nat \ {0} /\ wOldest <= cFiles[f].mtime

FileInfos == [path : CacheFiles, mtime : Nat \ {0}] \cup {NoFile}

PhaseInv ==
  /\ wReceiver \in {"none", "oldestfile", "fragmentation"}
  /\ wReceiver = "none" => wPc = "idle" /\ wOut = <<>>
  /\ wReceiver = "oldestfile" => wPc \in {"idle", "walk", "exited"}

\* Every file is as young as the walk, is still to come, or is no older than
\* the one found.
FoundInv ==
  /\ wFound \in FileInfos
  /\ wPc = "walk" /\ wFound # NoFile => wOldest <= wFound.mtime
  /\ wPc = "walk" =>
       \A f \in DOMAIN cFiles :
         \/ cFiles[f].mtime >= wBegan \/ DirOf[f] \in wDirs \/ f \in wNames
         \/ wFound # NoFile /\ cFiles[f].mtime >= wFound.mtime

\* The file of the scrape before is still the bound that its walk found.
LastInv ==
  /\ wLast \in FileInfos
  /\ wPc = "idle" /\ wLast # NoFile =>
       \A f \in DOMAIN cFiles : cFiles[f].mtime >= wBegan \/ cFiles[f].mtime >= wLast.mtime

OutInv ==
  wPc = "idle" /\ wOut # <<>> =>
    /\ wOut.path = wLast.path /\ wOut.mtime = wLast.mtime
    /\ wLast # NoFile => wOldest <= wLast.mtime
    /\ wLast = NoFile => \A f \in DOMAIN cFiles : cFiles[f].mtime >= wBegan

WInv ==
  FilesInv /\ PhaseInv /\ (wReceiver # "fragmentation" => FoundInv /\ LastInv /\ OutInv)


\* The invariant of oldestfile holds at first.
LEMMA WalkStart == CacheWalkInit => WInv
<1> SUFFICES ASSUME CacheWalkInit PROVE WInv
  OBVIOUS
<1>1. FilesInv
  <2>1. cFiles = [f \in InitialFiles |-> [mtime |-> 1, extents |-> <<TRUE, FALSE>>]]
    BY DEF CacheWalkInit
  <2>2. DOMAIN cFiles = InitialFiles /\ \A f \in DOMAIN cFiles : cFiles[f].mtime = 1
    BY <2>1
  <2>3. cClock = 1 /\ wBegan = 0 /\ wOldest = 0
    BY DEF CacheWalkInit
  <2>4. InitialFiles \subseteq CacheFiles
    BY CacheAssumption, Zenon
  <2> QED BY <2>2, <2>3, <2>4 DEF FilesInv
<1>2. PhaseInv /\ FoundInv /\ LastInv
  BY DEF CacheWalkInit, PhaseInv, FoundInv, LastInv, FileInfos
<1>3. OutInv
  BY DEF CacheWalkInit, OutInv
<1> QED BY <1>1, <1>2, <1>3 DEF WInv

\* Whatever happens to the files of the cache, one that is there was there with
\* the same time, or was changed just now.
LEMMA CacheKeeps ==
  ASSUME WInv, cClock' \in Nat, cClock <= cClock', DOMAIN cFiles' \subseteq CacheFiles,
         \A f \in DOMAIN cFiles' :
           \/ f \in DOMAIN cFiles /\ cFiles'[f].mtime = cFiles[f].mtime
           \/ cFiles'[f].mtime = cClock,
         UNCHANGED <<wReceiver, wPc, wDirs, wNames, wFound, wLast, wOut, wBegan, wOldest>>
  PROVE  WInv'
<1>0. FilesInv /\ PhaseInv
  BY DEF WInv
<1>1. FilesInv'
  BY <1>0 DEF FilesInv
<1>2. PhaseInv'
  BY <1>0 DEF PhaseInv
<1>3. ASSUME wReceiver # "fragmentation"
      PROVE  FoundInv' /\ LastInv' /\ OutInv'
  <2>0. FoundInv /\ LastInv /\ OutInv /\ cClock \in Nat /\ wBegan \in Nat /\ wBegan <= cClock
    BY <1>0, <1>3 DEF WInv, FilesInv
  <2>1. FoundInv'
    BY <2>0 DEF FoundInv
  <2>2. LastInv'
    BY <2>0 DEF LastInv
  <2>3. OutInv'
    BY <2>0 DEF OutInv
  <2> QED BY <2>1, <2>2, <2>3
<1> QED BY <1>1, <1>2, <1>3 DEF WInv

\* A file that is created or written to is as young as the walk.
LEMMA WriteFileKeeps ==
  ASSUME WInv, NEW f \in CacheFiles, NEW hole \in BOOLEAN, WriteFile(f, hole)
  PROVE  WInv'
<1>1. PICK new : /\ new.mtime = cClock
                 /\ cFiles' = [g \in DOMAIN cFiles \cup {f} |-> IF g = f THEN new ELSE cFiles[g]]
  BY DEF WriteFile, Change
<1>2. UNCHANGED <<cClock, wReceiver, wPc, wDirs, wNames, wFound, wLast, wOut, wBegan, wOldest>>
  BY DEF WriteFile, Change
<1>3. DOMAIN cFiles \subseteq CacheFiles /\ cClock \in Nat
  BY DEF WInv, FilesInv
<1> QED BY <1>1, <1>2, <1>3, CacheKeeps

\* A file that is culled bounds nothing.
LEMMA CullFileKeeps ==
  ASSUME WInv, NEW f \in CacheFiles, CullFile(f)
  PROVE  WInv'
<1>1. cFiles' = [g \in DOMAIN cFiles \ {f} |-> cFiles[g]]
  BY DEF CullFile, Change
<1>2. UNCHANGED <<cClock, wReceiver, wPc, wDirs, wNames, wFound, wLast, wOut, wBegan, wOldest>>
  BY DEF CullFile, Change
<1>3. DOMAIN cFiles \subseteq CacheFiles /\ cClock \in Nat
  BY DEF WInv, FilesInv
<1> QED BY <1>1, <1>2, <1>3, CacheKeeps

\* Without the cache directory there are no files.
LEMMA LoseCacheKeeps ==
  ASSUME WInv, LoseCache
  PROVE  WInv'
<1>1. DOMAIN cFiles' = {}
  BY DEF LoseCache
<1>2. UNCHANGED <<cClock, wReceiver, wPc, wDirs, wNames, wFound, wLast, wOut, wBegan, wOldest>>
  BY DEF LoseCache
<1>3. cClock \in Nat
  BY DEF WInv, FilesInv
<1> QED BY <1>1, <1>2, <1>3, CacheKeeps

\* Time passes.
LEMMA AdvanceKeeps ==
  ASSUME WInv, Advance
  PROVE  WInv'
<1>1. cClock' = cClock + 1
      /\ UNCHANGED <<cFiles, wReceiver, wPc, wDirs, wNames, wFound, wLast, wOut, wBegan, wOldest>>
  BY DEF Advance, walkVars
<1>2. DOMAIN cFiles \subseteq CacheFiles /\ cClock \in Nat
  BY DEF WInv, FilesInv
<1> QED BY <1>1, <1>2, CacheKeeps

\* A directory is listed: its files are still to come, as entries.
LEMMA ListDirKeeps ==
  ASSUME WInv, NEW d \in Dirs, ListDir(d)
  PROVE  WInv'
<1>1. /\ UNCHANGED <<cClock, cFiles, wReceiver, wPc, wFound, wLast, wOut, wBegan, wOldest>>
      /\ wPc = "walk" /\ wNames = {} /\ wDirs' = wDirs \ {d}
      /\ wNames' = {f \in DOMAIN cFiles : DirOf[f] = d}
  BY DEF ListDir, cacheVars
<1>2. FilesInv' /\ PhaseInv'
  BY <1>1 DEF WInv, FilesInv, PhaseInv
<1>3. ASSUME wReceiver # "fragmentation"
      PROVE  FoundInv' /\ LastInv' /\ OutInv'
  <2>1. FoundInv'
    BY <1>1, <1>3 DEF WInv, FoundInv
  <2>2. LastInv' /\ OutInv'
    BY <1>1, <1>3 DEF WInv, LastInv, OutInv
  <2> QED BY <2>1, <2>2
<1> QED BY <1>1, <1>2, <1>3 DEF WInv

\* An entry is looked at: if its file is older than the one found, it is the
\* one found.
LEMMA VisitKeeps ==
  ASSUME WInv, NEW f \in CacheFiles, Visit(f)
  PROVE  WInv'
<1>1. /\ UNCHANGED <<cClock, cFiles, wReceiver, wDirs, wLast, wOut, wBegan, wOldest>>
      /\ wPc = "walk" /\ wNames' = wNames \ {f}
  BY DEF Visit, cacheVars
<1>2. FilesInv' /\ wReceiver # "none"
  BY <1>1 DEF WInv, FilesInv, PhaseInv
<1>3. CASE wReceiver = "oldestfile"
  <2>0. FilesInv /\ FoundInv /\ LastInv /\ UNCHANGED wPc /\ VisitOldest(f)
    BY <1>3 DEF WInv, Visit
  <2>1. PhaseInv' /\ LastInv' /\ OutInv'
    BY <1>1, <2>0 DEF WInv, PhaseInv, LastInv, OutInv
  <2>2. FoundInv'
    <3>1. CASE wFound' = wFound /\ (f \in DOMAIN cFiles =>
                  wFound # NoFile /\ cFiles[f].mtime >= wFound.mtime)
      BY <1>1, <2>0, <3>1 DEF FoundInv
    <3>2. CASE /\ f \in DOMAIN cFiles /\ wFound' = [path |-> f, mtime |-> cFiles[f].mtime]
               /\ wFound = NoFile \/ cFiles[f].mtime < wFound.mtime
      <4>1. cFiles[f].mtime \in Nat \ {0} /\ wOldest <= cFiles[f].mtime
        BY <2>0, <3>2 DEF FilesInv
      <4>2. wFound' \in FileInfos /\ wFound'.mtime = cFiles[f].mtime
        BY <3>2, <4>1 DEF FileInfos
      <4>3. wFound' # NoFile
        <5>1. NoFile.mtime = 0
          BY DEF NoFile
        <5> QED BY <4>1, <4>2, <5>1
      <4>4. wFound # NoFile => wFound.mtime \in Nat
        BY <2>0 DEF FoundInv, FileInfos
      <4>5. ASSUME NEW g \in DOMAIN cFiles
            PROVE  \/ cFiles[g].mtime >= wBegan \/ DirOf[g] \in wDirs \/ g \in wNames'
                   \/ cFiles[g].mtime >= wFound'.mtime
        <5>1. cFiles[g].mtime \in Nat
          BY <2>0 DEF FilesInv
        <5>2. \/ cFiles[g].mtime >= wBegan \/ DirOf[g] \in wDirs \/ g \in wNames
              \/ wFound # NoFile /\ cFiles[g].mtime >= wFound.mtime
          BY <1>1, <2>0 DEF FoundInv
        <5> QED BY <1>1, <3>2, <4>1, <4>2, <4>4, <5>1, <5>2
      <4> QED BY <1>1, <2>0, <4>1, <4>2, <4>3, <4>5 DEF FoundInv
    <3>3. f \in DOMAIN cFiles /\ wFound # NoFile =>
            cFiles[f].mtime \in Nat /\ wFound.mtime \in Nat
      BY <2>0 DEF FilesInv, FoundInv, FileInfos
    <3> QED BY <2>0, <3>1, <3>2, <3>3 DEF VisitOldest
  <2> QED BY <1>2, <2>1, <2>2 DEF WInv
<1>4. CASE wReceiver # "oldestfile"
  BY <1>1, <1>2, <1>4 DEF WInv, PhaseInv
<1> QED BY <1>3, <1>4

\* A walk that the context ends forgets the file that was known.
LEMMA AbortWalkKeeps ==
  ASSUME WInv, AbortWalk
  PROVE  WInv'
<1>1. /\ UNCHANGED <<cClock, cFiles, wReceiver, wBegan, wOldest>>
      /\ wPc' = "idle" /\ wFound' = NoFile /\ wLast' = NoFile /\ wOut' = <<>>
  BY DEF AbortWalk, cacheVars
<1> QED BY <1>1 DEF WInv, FilesInv, PhaseInv, FoundInv, LastInv, OutInv, FileInfos

\* A scrape: the shortcut for a file that is as it was reports the bound of the
\* walk that found it; otherwise all directories are to come.
LEMMA ScrapeOldestKeeps ==
  ASSUME WInv, ScrapeOldest
  PROVE  WInv'
<1> DEFINE times == {cClock} \cup {cFiles[f].mtime : f \in DOMAIN cFiles}
<1>0. FilesInv /\ FoundInv /\ LastInv /\ wPc = "idle" /\ wReceiver = "oldestfile"
  BY DEF WInv, ScrapeOldest
<1>1. UNCHANGED <<cClock, cFiles, wReceiver>> /\ wOldest' = Min(times)
  BY Zenon DEF ScrapeOldest, cacheVars
<1>2. /\ wOldest' \in Nat /\ wOldest' <= cClock
      /\ \A f \in DOMAIN cFiles : wOldest' <= cFiles[f].mtime
  <2>1. times \in SUBSET Nat /\ times # {} /\ cClock \in times
    BY <1>0 DEF FilesInv
  <2>2. \A f \in DOMAIN cFiles : cFiles[f].mtime \in times
    OBVIOUS
  <2> HIDE DEF times
  <2> QED BY <1>1, <2>1, <2>2, LeastNumber
<1> HIDE DEF times
<1>3. CASE stillOldest
  <2>1. /\ wLast' = wLast /\ wPc' = "idle" /\ UNCHANGED <<wFound, wBegan>>
        /\ wOut'.path = wLast.path /\ wOut'.mtime = wLast.mtime
    BY <1>3 DEF ScrapeOldest, ReportOldest
  <2>2. wLast # NoFile /\ wOldest' <= wLast.mtime
    BY <1>2, <1>3 DEF stillOldest
  <2>3. FilesInv' /\ PhaseInv'
    BY <1>0, <1>1, <1>2, <2>1 DEF FilesInv, PhaseInv
  <2>4. FoundInv' /\ LastInv' /\ OutInv'
    <3>1. FoundInv' /\ LastInv'
      BY <1>0, <1>1, <2>1 DEF FoundInv, LastInv
    <3>2. OutInv'
      BY <2>1, <2>2 DEF OutInv
    <3> QED BY <3>1, <3>2
  <2> QED BY <2>3, <2>4 DEF WInv
<1>4. CASE ~stillOldest /\ ~cExists
  <2>1. wPc' = "exited" /\ UNCHANGED <<wFound, wBegan, wLast>>
    BY <1>4, Zenon DEF ScrapeOldest
  <2> QED BY <1>0, <1>1, <1>2, <2>1 DEF WInv, FilesInv, PhaseInv, FoundInv, LastInv, OutInv
<1>5. CASE ~stillOldest /\ cExists
  <2>1. /\ wPc' = "walk" /\ wFound' = NoFile /\ wBegan' = cClock /\ UNCHANGED wLast
        /\ wDirs' = Dirs
    BY <1>5, Zenon DEF ScrapeOldest, StartWalk
  <2>2. FilesInv' /\ PhaseInv'
    BY <1>0, <1>1, <1>2, <2>1 DEF FilesInv, PhaseInv
  <2>3. \A f \in DOMAIN cFiles : DirOf[f] \in Dirs
    BY <1>0 DEF FilesInv, Dirs
  <2>4. FoundInv'
    BY <1>1, <2>1, <2>3 DEF FoundInv, FileInfos
  <2>5. LastInv' /\ OutInv'
    BY <1>0, <2>1 DEF LastInv, OutInv
  <2> QED BY <2>2, <2>4, <2>5 DEF WInv
<1> QED BY <1>3, <1>4, <1>5

\* A walk that is over has seen every file that was there when it began.
LEMMA FoundOldestKeeps ==
  ASSUME WInv, FoundOldest
  PROVE  WInv'
<1>0. FilesInv /\ FoundInv /\ wPc = "walk" /\ wReceiver = "oldestfile" /\ wDirs = {} /\ wNames = {}
  BY DEF WInv, FoundOldest
<1>1. /\ UNCHANGED <<cClock, cFiles, wReceiver, wBegan, wOldest>>
      /\ wPc' = "idle" /\ wLast' = wFound /\ wFound' = NoFile
      /\ wOut'.path = wFound.path /\ wOut'.mtime = wFound.mtime
  BY DEF FoundOldest, ReportOldest, cacheVars
<1>2. FilesInv' /\ PhaseInv'
  BY <1>0, <1>1 DEF FilesInv, PhaseInv
<1>3. FoundInv' /\ LastInv'
  BY <1>0, <1>1 DEF FoundInv, LastInv, FileInfos
<1>4. OutInv'
  BY <1>0, <1>1 DEF FoundInv, OutInv
<1> QED BY <1>2, <1>3, <1>4 DEF WInv

\* The steps of the receiver fragmentation.
LEMMA FragmentationKeeps ==
  ASSUME WInv, MapExtents \/ ScrapeFragmentation \/ EmitFragmentation
  PROVE  WInv'
<1>1. wReceiver = "fragmentation"
  BY DEF WInv, PhaseInv, MapExtents, ScrapeFragmentation, EmitFragmentation
<1>2. /\ UNCHANGED <<cClock, cFiles, wReceiver, wOldest>>
      /\ wBegan' \in {wBegan, cClock}
  BY DEF MapExtents, ScrapeFragmentation, EmitFragmentation, StartWalk, cacheVars
<1> QED BY <1>1, <1>2 DEF WInv, FilesInv, PhaseInv

\* A receiver starts.
LEMMA StartReceiverKeeps ==
  ASSUME WInv, NEW r \in {"oldestfile", "fragmentation"}, StartReceiver(r)
  PROVE  WInv'
<1>1. /\ UNCHANGED <<cClock, cFiles, wPc, wDirs, wNames, wFound, wLast, wOut, wBegan, wOldest>>
      /\ wReceiver = "none" /\ wReceiver' = r
  BY DEF StartReceiver, cacheVars
<1>2. FilesInv' /\ PhaseInv'
  BY <1>1 DEF WInv, FilesInv, PhaseInv
<1>3. FoundInv' /\ LastInv' /\ OutInv'
  BY <1>1 DEF WInv, FoundInv, LastInv, OutInv
<1> QED BY <1>2, <1>3 DEF WInv

\* A step that changes nothing.
LEMMA WalkStutters ==
  ASSUME WInv, UNCHANGED cacheWalkVars
  PROVE  WInv'
<1>1. UNCHANGED <<cClock, cFiles, wReceiver, wPc, wDirs, wNames, wFound, wLast, wOut, wBegan, wOldest>>
  BY DEF cacheWalkVars, cacheVars, walkVars
<1> QED BY <1>1, Zenon DEF WInv, FilesInv, PhaseInv, FoundInv, LastInv, OutInv

\* The invariant of oldestfile holds for any files, directories and changes.
THEOREM WalkInvariance == WalkSpec => []WInv
<1>1. WInv /\ [CacheWalkNext]_cacheWalkVars => WInv'
  BY WriteFileKeeps, CullFileKeeps, LoseCacheKeeps, AdvanceKeeps, ListDirKeeps, VisitKeeps,
     AbortWalkKeeps, ScrapeOldestKeeps, FoundOldestKeeps, FragmentationKeeps,
     StartReceiverKeeps, WalkStutters DEF CacheWalkNext
<1> QED BY <1>1, WalkStart, PTL DEF WalkSpec

\* The age that oldestfile reports is right up to the length of the walk that
\* found the file (findOldestFile, stillOldest), for any files and directories,
\* whatever cachefilesd does meanwhile.
THEOREM OldestIsHonest == WalkSpec => []OldestHonest
<1>1. WInv => OldestHonest
  <2>1. SUFFICES ASSUME WInv, wReceiver = "oldestfile", wPc = "idle", wOut # <<>>
                 PROVE  /\ wOut.path # "" => wOut.mtime >= wOldest
                        /\ \A f \in DOMAIN cFiles :
                             \/ cFiles[f].mtime >= wBegan
                             \/ wOut.path # "" /\ cFiles[f].mtime >= wOut.mtime
    BY Zenon DEF OldestHonest
  <2>2. FilesInv /\ LastInv /\ OutInv
    BY <2>1 DEF WInv
  <2>3. wOut.path = wLast.path /\ wOut.mtime = wLast.mtime
    BY <2>1, <2>2 DEF OutInv
  <2>4. CASE wLast = NoFile
    BY <2>1, <2>2, <2>3, <2>4, Zenon DEF OutInv, NoFile
  <2>5. CASE wLast # NoFile
    <3>1. wLast.path # "" /\ wLast.mtime \in Nat
      BY <2>2, <2>5, CacheAssumption, Zenon DEF LastInv, FileInfos
    <3>2. wOldest <= wLast.mtime /\ wOldest \in Nat
      BY <2>1, <2>2, <2>5 DEF OutInv, FilesInv
    <3> QED BY <2>1, <2>2, <2>3, <2>5, <3>1, <3>2, Zenon DEF LastInv
  <2> QED BY <2>4, <2>5, Zenon
<1> QED BY <1>1, WalkInvariance, PTL

-----------------------------------------------------------------------------
(* fragmentation *)

\* What an extent is: whether it holds no data.
Flags == BOOLEAN
Holes(e, n) == Cardinality({i \in 1..n : e[i]})
\* The extents that follow the first a, up to the b-th.
Slice(e, a, b) == SubSeq(e, a + 1, b)
HolesOf(m) == Cardinality({i \in DOMAIN m : m[i]})
HolesIn(files) == [f \in DOMAIN files |-> Holes(files[f].extents, Len(files[f].extents))]

FilesTyped(files) ==
  /\ DOMAIN files \subseteq CacheFiles
  /\ \A f \in DOMAIN files : files[f].extents \in Seq(Flags) /\ Len(files[f].extents) > 0

StatFields == [files : Nat, extents : Nat, maxExtents : Nat, allocatedBytes : Nat,
               unwrittenBytes : Nat]
ExtentFields == [extents : Nat, writtenBytes : Int, unwrittenBytes : Nat]
MapFields == [path : CacheFiles \cup {""}, blocks : Nat, start : Nat \ {0},
              info : ExtentFields, deleted : SUBSET Seq(Flags)]

\* The files that were not touched, are large enough and have been counted.
Counted ==
  {f \in DOMAIN cFiles \ wTouched :
     /\ Len(cFiles[f].extents) >= MinFileSize /\ DirOf[f] \notin wDirs /\ f \notin wNames
     /\ ~(wPc = "map" /\ wMap.path = f)}

ExtentsTyped ==
  /\ FilesTyped(cFiles)
  /\ wTouched \subseteq CacheFiles /\ wNames \subseteq CacheFiles
  /\ \A f \in wNames : DirOf[f] \notin wDirs
  /\ wStats \in StatFields /\ wMap \in MapFields

\* A total of u holes and a greatest number of m extents are right for the files
\* C, up to what touched files may have added.
Covers(C, files, touched, u, m) ==
  /\ u >= Total(HolesIn(files), C)
  /\ \A f \in C : m >= Len(files[f].extents)
  /\ touched = {} => /\ u = Total(HolesIn(files), C)
                     /\ m = 0 \/ \E f \in C : m = Len(files[f].extents)

StatsInv ==
  wPc \in {"walk", "map"} =>
    /\ Covers(Counted, cFiles, wTouched, wStats.unwrittenBytes, wStats.maxExtents)
    /\ Counted # {} => wStats.files > 0 /\ wStats.extents > 0
    /\ wStats.maxExtents > 0 => wStats.files > 0 /\ wStats.extents > 0
    /\ wTouched = {} => wStats.extents = wStats.allocatedBytes

\* The file that is mapped was left out so far, and, if it was not touched, its
\* extents before start have been added up.
Mapped(map, files) ==
  LET e == files[map.path].extents IN
  /\ map.path \in DOMAIN files /\ map.deleted = {}
  /\ Len(e) >= MinFileSize /\ map.start <= Len(e) /\ map.blocks = Len(e)
  /\ map.info.extents = map.start - 1
  /\ map.info.unwrittenBytes = Holes(e, map.start - 1)

MapInv ==
  wPc = "map" =>
    /\ DirOf[wMap.path] \notin wDirs /\ wMap.path \notin wNames /\ wMap.path \in CacheFiles
    /\ wMap.path \notin wTouched => Mapped(wMap, cFiles)

MaxOut(out) == IF "max" \in DOMAIN out THEN out.max ELSE 0

EmittedInv ==
  wPc = "idle" /\ wOut # <<>> =>
    /\ wDirs = {} /\ wNames = {} /\ wOut.unwritten \in Nat /\ MaxOut(wOut) \in Nat
    /\ Covers(Counted, cFiles, wTouched, wOut.unwritten, MaxOut(wOut))
    /\ wTouched = {} /\ Counted # {} => wOut.mean = 1

FragInv == wPc \in {"idle", "walk", "map"} /\ StatsInv /\ MapInv /\ EmittedInv

EInv == ExtentsTyped /\ PhaseInv /\ (wReceiver = "fragmentation" => FragInv)



\* The holes up to an extent are those up to an earlier one and those in
\* between: batches neither overlap nor leave a gap.
LEMMA HolesSplit ==
  ASSUME NEW e \in Seq(Flags), NEW a \in Nat, NEW b \in Nat, a <= b, b <= Len(e)
  PROVE  /\ Slice(e, a, b) \in Seq(Flags) /\ Len(Slice(e, a, b)) = b - a
         /\ HolesOf(Slice(e, a, b)) \in Nat
         /\ Holes(e, a) \in Nat
         /\ Holes(e, b) = Holes(e, a) + HolesOf(Slice(e, a, b))
<1> DEFINE m == Slice(e, a, b)
           A == {i \in 1..a : e[i]}
           B == {i \in (a + 1)..b : e[i]}
           M == {i \in DOMAIN m : m[i]}
<1>1. /\ m \in Seq(Flags) /\ Len(m) = b - a /\ DOMAIN m = 1..(b - a)
      /\ \A i \in 1..(b - a) : m[i] = e[i + a]
  <2>1. \A i \in (a + 1)..b : e[i] \in Flags
    <3>1. \A i \in 1..Len(e) : e[i] \in Flags
      OBVIOUS
    <3> QED BY <3>1
  <2>2. /\ m \in Seq(Flags)
        /\ Len(m) = IF a + 1 <= b THEN b - (a + 1) + 1 ELSE 0
        /\ \A i \in 1..(b - (a + 1) + 1) : m[i] = e[(a + 1) + i - 1]
    <3>1. m = SubSeq(e, a + 1, b)
      BY Zenon DEF Slice
    <3> QED BY <2>1, <3>1, SubSeqProperties
  <2>3. b - (a + 1) + 1 = b - a /\ \A i \in 1..(b - a) : (a + 1) + i - 1 = i + a
    OBVIOUS
  <2> QED BY <2>2, <2>3
<1> HIDE DEF m
<1>2. IsFiniteSet(A) /\ IsFiniteSet(B) /\ IsFiniteSet(M)
  <2>1. IsFiniteSet(1..a) /\ IsFiniteSet((a + 1)..b) /\ IsFiniteSet(1..(b - a))
    BY FS_Interval
  <2>2. A \subseteq 1..a /\ B \subseteq (a + 1)..b /\ M \subseteq 1..(b - a)
    BY <1>1
  <2> HIDE DEF A, B, M
  <2> QED BY <2>1, <2>2, FS_Subset, Zenon
<1>3. Cardinality(M) = Cardinality(B)
  <2> DEFINE f == [i \in M |-> i + a]
  <2>1. f \in Bijection(M, B)
    <3>1. \A i \in M : i \in Int /\ i + a \in B
      BY <1>1
    <3>2. \A j \in B : j \in Int /\ j - a \in M
      <4>1. \A j \in B : j \in Int /\ j - a \in 1..(b - a) /\ (j - a) + a = j
        OBVIOUS
      <4> QED BY <1>1, <4>1
    <3> HIDE DEF M, B
    <3>3. f \in [M -> B]
      BY <3>1
    <3>4. f \in Injection(M, B)
      <4>1. \A i, j \in M : f[i] = f[j] => i = j
        BY <3>1
      <4> HIDE DEF f
      <4> QED BY <3>3, <4>1 DEF Injection, IsInjective
    <3>5. f \in Surjection(M, B)
      <4>1. \A j \in B : f[j - a] = j
        BY <3>2
      <4> HIDE DEF f
      <4> QED BY <3>2, <3>3, <4>1 DEF Surjection
    <3> QED BY <3>4, <3>5, Zenon DEF Bijection
  <2>2. ExistsBijection(M, B)
    BY <2>1 DEF ExistsBijection
  <2> HIDE DEF M, B
  <2> QED BY <1>2, <2>2, FS_Bijection
<1>4. {i \in 1..b : e[i]} = A \cup B /\ A \cap B = {}
  OBVIOUS
<1>5. Cardinality(A \cup B) = Cardinality(A) + Cardinality(B)
  <2> HIDE DEF A, B
  <2>1. Cardinality(A \cup B) = Cardinality(A) + Cardinality(B) - Cardinality(A \cap B)
    BY <1>2, FS_Union, Zenon
  <2>2. Cardinality(A \cap B) = 0 /\ Cardinality(A) \in Nat /\ Cardinality(B) \in Nat
    BY <1>2, <1>4, FS_EmptySet, FS_CardinalityType, Zenon
  <2> QED BY <2>1, <2>2
<1>6. /\ m \in Seq(Flags) /\ Len(m) = b - a
      /\ HolesOf(m) \in Nat /\ Holes(e, a) \in Nat
      /\ Holes(e, b) = Holes(e, a) + HolesOf(m)
  BY <1>1, <1>2, <1>3, <1>4, <1>5, FS_CardinalityType, Zenon DEF Holes, HolesOf
<1> QED BY <1>6, Zenon DEF m

\* The holes of the files are finitely many.
LEMMA HolesTyped ==
  ASSUME NEW files, FilesTyped(files)
  PROVE  /\ IsFiniteSet(DOMAIN files)
         /\ \A f \in DOMAIN files : /\ HolesIn(files)[f] = Holes(files[f].extents, Len(files[f].extents))
                                    /\ HolesIn(files)[f] \in Nat /\ HolesIn(files)[f] \in Int
                                    /\ Len(files[f].extents) \in Nat
<1>1. IsFiniteSet(DOMAIN files)
  <2>1. IsFiniteSet(CacheFiles)
    BY CacheAssumption, Zenon
  <2> QED BY <2>1, FS_Subset DEF FilesTyped
<1>2. ASSUME NEW f \in DOMAIN files
      PROVE  /\ HolesIn(files)[f] = Holes(files[f].extents, Len(files[f].extents))
             /\ HolesIn(files)[f] \in Nat /\ Len(files[f].extents) \in Nat
  <2> DEFINE e == files[f].extents
  <2>1. e \in Seq(Flags)
    BY DEF FilesTyped
  <2> HIDE DEF e
  <2>2. Len(e) \in Nat /\ Len(e) <= Len(e)
    BY <2>1
  <2>3. Holes(e, Len(e)) \in Nat
    <3>1. 0 \in Nat /\ 0 <= Len(e)
      BY <2>2
    <3> QED BY <2>1, <2>2, <3>1, HolesSplit, Zenon
  <2> QED BY <2>2, <2>3 DEF HolesIn, e
<1> QED BY <1>1, <1>2

\* Totals stay right for fewer files, if some were touched.
LEMMA CoversFewer ==
  ASSUME NEW files, FilesTyped(files), NEW now, FilesTyped(now),
         NEW C \in SUBSET DOMAIN files, NEW D \in SUBSET (C \cap DOMAIN now),
         \A f \in D : now[f].extents = files[f].extents,
         NEW touched, NEW then, then = {} => touched = {} /\ D = C,
         NEW u \in Nat, NEW m \in Nat, Covers(C, files, touched, u, m)
  PROVE  Covers(D, now, then, u, m)
<1> DEFINE g == HolesIn(files)
           e == HolesIn(now)
<1>1. /\ IsFiniteSet(C) /\ \A f \in C : g[f] \in Nat
      /\ \A f \in D : e[f] = g[f]
  <2>1. IsFiniteSet(C)
    BY HolesTyped, FS_Subset, Zenon
  <2>2. \A f \in C : g[f] \in Nat /\ g[f] = Holes(files[f].extents, Len(files[f].extents))
    BY HolesTyped, Zenon
  <2>3. \A f \in D : e[f] = Holes(now[f].extents, Len(now[f].extents))
    BY HolesTyped, Zenon
  <2> HIDE DEF g, e
  <2> QED BY <2>1, <2>2, <2>3, Zenon
<1>2. Total(g, C) \in Nat /\ Total(e, D) \in Nat /\ Total(e, D) <= Total(g, C)
  <2> HIDE DEF g, e
  <2> QED BY <1>1, TotalOfPart
<1>3. D = C => Total(e, D) = Total(g, C)
  <2> HIDE DEF g, e
  <2> SUFFICES ASSUME D = C PROVE Total(g, C) = Total(e, C)
    BY Zenon
  <2>1. \A n \in Nat : n \in Int
    OBVIOUS
  <2>2. \A x \in C : g[x] \in Int /\ g[x] = e[x]
    BY <1>1, <2>1, Zenon
  <2> QED BY <1>1, <2>2, TotalSame, Zenon
<1> HIDE DEF g, e
<1>4. u >= Total(g, C) /\ (touched = {} => u = Total(g, C))
  BY DEF Covers, g
<1>5. u >= Total(e, D) /\ (then = {} => u = Total(e, D))
  BY <1>2, <1>3, <1>4
<1>6. /\ \A f \in D : m >= Len(now[f].extents)
      /\ then = {} => m = 0 \/ \E f \in D : m = Len(now[f].extents)
  BY DEF Covers
<1> QED BY <1>5, <1>6 DEF Covers, e


\* Totals to which a whole file is added are right with that file.
LEMMA CoversOneMore ==
  ASSUME NEW files, FilesTyped(files), NEW C \in SUBSET DOMAIN files,
         NEW f \in DOMAIN files, f \notin C, NEW touched, NEW u \in Nat, NEW m \in Nat,
         Covers(C, files, touched, u, m),
         NEW h, h = Holes(files[f].extents, Len(files[f].extents)),
         NEW n, n = Len(files[f].extents)
  PROVE  Covers(C \cup {f}, files, touched, u + h, Max({m, n}))
<1> DEFINE g == HolesIn(files)
           D == C \cup {f}
<1>1. IsFiniteSet(D) /\ IsFiniteSet(C) /\ \A x \in D : g[x] \in Int
  BY HolesTyped, FS_Subset
<1>2. g[f] = h /\ h \in Nat /\ n \in Nat
  BY HolesTyped
<1>3. D \ {f} = C /\ f \in D
  OBVIOUS
<1> HIDE DEF g, D
<1>4. Total(g, D) = g[f] + Total(g, C) /\ Total(g, C) \in Int
  BY <1>1, <1>3, TotalRemove
<1>5. u >= Total(g, C) /\ (touched = {} => u = Total(g, C))
  BY DEF Covers, g
<1>6. u + h >= Total(g, D) /\ (touched = {} => u + h = Total(g, D))
  BY <1>2, <1>4, <1>5
<1>7. Max({m, n}) \in {m, n} /\ Max({m, n}) >= m /\ Max({m, n}) >= n
  BY <1>2, Greater
<1>8. ASSUME NEW x \in D PROVE Max({m, n}) >= Len(files[x].extents)
  <2>1. Len(files[x].extents) \in Nat
    BY HolesTyped DEF D
  <2>2. x \in C => m >= Len(files[x].extents)
    BY DEF Covers
  <2> QED BY <1>2, <1>7, <2>1, <2>2 DEF D
<1>9. ASSUME touched = {}
      PROVE  Max({m, n}) = 0 \/ \E x \in D : Max({m, n}) = Len(files[x].extents)
  <2>1. m = 0 \/ \E x \in C : m = Len(files[x].extents)
    BY <1>9 DEF Covers
  <2>2. Max({m, n}) = n => \E x \in D : Max({m, n}) = Len(files[x].extents)
    BY <1>3
  <2> QED BY <1>3, <1>7, <2>1, <2>2, Zenon
<1> QED BY <1>6, <1>8, <1>9, Zenon DEF Covers, g, D

\* Totals to which something is added are still right if a file was touched.
LEMMA CoversMore ==
  ASSUME NEW files, FilesTyped(files), NEW C \in SUBSET DOMAIN files,
         NEW touched, touched # {}, NEW u \in Nat, NEW m \in Nat,
         Covers(C, files, touched, u, m), NEW h \in Nat, NEW n \in Nat
  PROVE  Covers(C, files, touched, u + h, Max({m, n}))
<1>1. Max({m, n}) >= m /\ Max({m, n}) \in Nat
  BY Greater
<1>2. IsFiniteSet(C) /\ \A x \in C : HolesIn(files)[x] \in Nat /\ Len(files[x].extents) \in Nat
  BY HolesTyped, FS_Subset
<1>3. Total(HolesIn(files), C) \in Nat
  BY <1>2, TotalNat
<1> QED BY <1>1, <1>2, <1>3 DEF Covers

\* What an ioctl returns.
LEMMA FiemapMaps ==
  ASSUME NEW e \in Seq(Flags), NEW start \in Nat \ {0}, NEW b, b = fiemap(e, start)
  PROVE  /\ b.mapped \in Seq(Flags) /\ b.next \in Nat \ {0}
         /\ start <= Len(e) =>
              /\ b.next - 1 \in Nat /\ start <= b.next - 1 /\ b.next - 1 <= Len(e)
              /\ b.mapped = Slice(e, start - 1, b.next - 1)
              /\ b.mapped # <<>>
              /\ b.last <=> b.next - 1 = Len(e)
<1> DEFINE to == Min({Len(e), start + Batch - 1})
<1>0. Len(e) \in Nat /\ Batch \in Nat \ {0}
  <2>1. Batch \in Nat \ {0}
    BY CacheAssumption, Zenon
  <2> QED BY <2>1
<1>1. to \in Nat /\ to <= Len(e) /\ (start <= Len(e) => start <= to)
  <2>1. start + Batch - 1 \in Nat /\ start <= start + Batch - 1
    BY <1>0
  <2>2. \A x, y \in Nat : Min({x, y}) \in {x, y} /\ Min({x, y}) <= x
    BY LeastNumber
  <2> QED BY <1>0, <2>1, <2>2
<1>2. fiemap(e, start) = [mapped |-> SubSeq(e, start, to), last |-> to = Len(e), next |-> to + 1]
  BY DEF fiemap
<1> HIDE DEF to
<1>3. b.mapped = SubSeq(e, start, to) /\ (b.last <=> to = Len(e)) /\ b.next = to + 1
  <2> DEFINE r == [mapped |-> SubSeq(e, start, to), last |-> to = Len(e), next |-> to + 1]
  <2>1. r.mapped = SubSeq(e, start, to) /\ (r.last <=> to = Len(e)) /\ r.next = to + 1
    OBVIOUS
  <2> HIDE DEF r
  <2>2. b = r
    BY <1>2, Zenon DEF r
  <2> QED BY <2>1, <2>2, Zenon
<1>4. \A i \in start..to : e[i] \in Flags
  <2>1. \A i \in start..to : i \in 1..Len(e)
    BY <1>0, <1>1
  <2> QED BY <2>1
<1>5. /\ SubSeq(e, start, to) \in Seq(Flags)
      /\ Len(SubSeq(e, start, to)) = IF start <= to THEN to - start + 1 ELSE 0
  BY <1>1, <1>4, SubSeqProperties
<1>6. start <= to => SubSeq(e, start, to) # <<>>
  BY <1>1, <1>5
<1>7. (start - 1) + 1 = start /\ (to + 1) - 1 = to /\ to + 1 \in Nat \ {0}
  BY <1>1
<1>8. b.mapped = Slice(e, start - 1, to)
  BY <1>3, <1>7, Zenon DEF Slice
<1> QED BY <1>1, <1>3, <1>5, <1>6, <1>7, <1>8, Zenon

\* A batch that begins within a file is not empty, ends within it, and has the
\* holes in between.
LEMMA FiemapCounts ==
  ASSUME NEW e \in Seq(Flags), NEW start \in Nat \ {0}, start <= Len(e),
         NEW b, b = fiemap(e, start)
  PROVE  /\ b.next - 1 \in Nat /\ b.next - 1 <= Len(e) /\ b.mapped # <<>>
         /\ Len(b.mapped) = (b.next - 1) - (start - 1)
         /\ Holes(e, start - 1) \in Nat
         /\ Holes(e, b.next - 1) = Holes(e, start - 1) + HolesOf(b.mapped)
         /\ b.last => b.next - 1 = Len(e)
         /\ ~b.last => b.next <= Len(e)
<1> DEFINE to == b.next - 1
           from == start - 1
           mapped == b.mapped
<1>1. /\ b.next \in Nat /\ to \in Nat /\ start <= to /\ to <= Len(e) /\ mapped # <<>>
      /\ mapped = Slice(e, from, to) /\ (b.last <=> to = Len(e))
  BY FiemapMaps
<1>2. from \in Nat /\ from <= to
  BY <1>1
<1>3. to # Len(e) => b.next <= Len(e)
  BY <1>1
<1> HIDE DEF to, from, mapped
<1>4. /\ Len(mapped) = to - from /\ Holes(e, from) \in Nat
      /\ Holes(e, to) = Holes(e, from) + HolesOf(mapped)
  <2>1. to \in Nat /\ to <= Len(e) /\ mapped = Slice(e, from, to)
    BY <1>1, Zenon
  <2> QED BY <1>2, <2>1, HolesSplit, Zenon
<1> QED BY <1>1, <1>3, <1>4, Zenon DEF to, from, mapped

\* The type of no mapping.
LEMMA NoMapTyped == NoMap \in MapFields
BY DEF NoMap, MapFields, NoExtents, ExtentFields

\* The invariant of fragmentation holds at first.
LEMMA ExtentsStart == CacheWalkInit => EInv
<1> SUFFICES ASSUME CacheWalkInit PROVE EInv
  OBVIOUS
<1>1. FilesTyped(cFiles)
  <2>1. cFiles = [f \in InitialFiles |-> [mtime |-> 1, extents |-> <<TRUE, FALSE>>]]
    BY DEF CacheWalkInit
  <2>2. DOMAIN cFiles = InitialFiles /\ \A f \in DOMAIN cFiles : cFiles[f].extents = <<TRUE, FALSE>>
    BY <2>1, Zenon
  <2>3. InitialFiles \subseteq CacheFiles
    BY CacheAssumption, Zenon
  <2>4. <<TRUE, FALSE>> \in Seq(Flags) /\ Len(<<TRUE, FALSE>>) > 0
    BY DEF Flags
  <2> QED BY <2>2, <2>3, <2>4, Zenon DEF FilesTyped
<1>2. wNames = {} /\ wTouched = {} /\ wReceiver = "none" /\ wPc = "idle" /\ wOut = <<>>
  BY DEF CacheWalkInit
<1>3. wStats \in StatFields
  BY DEF CacheWalkInit, StatFields, NoStats
<1>4. wMap \in MapFields
  BY Zenon, NoMapTyped DEF CacheWalkInit
<1> QED BY <1>1, <1>2, <1>3, <1>4 DEF EInv, ExtentsTyped, PhaseInv

\* What cachefilesd does to files adds them to the touched ones, and leaves alone
\* what the walk has.
LEMMA ChangesKeep ==
  ASSUME EInv, FilesTyped(cFiles'), wMap' \in MapFields, wTouched' \subseteq CacheFiles,
         UNCHANGED <<wReceiver, wPc, wDirs, wNames, wStats, wOut>>,
         wReceiver = "fragmentation" =>
           /\ wTouched \subseteq wTouched'
           /\ wMap'.path = wMap.path
           /\ wMap.path \notin wTouched' => wMap' = wMap
           /\ \A f \in CacheFiles \ wTouched' : /\ f \in DOMAIN cFiles' <=> f \in DOMAIN cFiles
                                                /\ f \in DOMAIN cFiles => cFiles'[f] = cFiles[f]
  PROVE  EInv'
<1>1. ExtentsTyped' /\ PhaseInv'
  BY DEF EInv, ExtentsTyped, PhaseInv
<1>2. ASSUME wReceiver = "fragmentation" PROVE FragInv'
  <2>0. ExtentsTyped /\ FragInv
    BY <1>2 DEF EInv
  <2>1. /\ FilesTyped(cFiles) /\ Counted \in SUBSET DOMAIN cFiles
        /\ Counted' \in SUBSET (Counted \cap DOMAIN cFiles')
        /\ \A f \in Counted' : cFiles'[f].extents = cFiles[f].extents
        /\ wTouched' = {} => wTouched = {} /\ Counted' = Counted
    BY <1>2, <2>0 DEF Counted, ExtentsTyped, FilesTyped
  <2>2. ASSUME NEW u \in Nat, NEW m \in Nat
        PROVE  Covers(Counted, cFiles, wTouched, u, m) => Covers(Counted', cFiles', wTouched', u, m)
    BY <2>1, CoversFewer, Zenon
  <2>3. StatsInv'
    <3>1. wStats.unwrittenBytes \in Nat /\ wStats.maxExtents \in Nat
      BY <2>0 DEF ExtentsTyped, StatFields
    <3> QED BY <2>0, <2>1, <2>2, <3>1, Zenon DEF FragInv, StatsInv
  <2>4. MapInv'
    BY <1>2, <2>0 DEF FragInv, MapInv, Mapped
  <2>5. EmittedInv'
    BY <2>0, <2>1, <2>2 DEF FragInv, EmittedInv
  <2> QED BY <2>0, <2>3, <2>4, <2>5 DEF FragInv
<1> QED BY <1>1, <1>2 DEF EInv

\* A file that is created or written to is touched.
LEMMA WriteFileExtents ==
  ASSUME EInv, NEW f \in CacheFiles, NEW hole \in BOOLEAN, WriteFile(f, hole)
  PROVE  EInv'
<1> DEFINE old == IF f \in DOMAIN cFiles THEN cFiles[f].extents ELSE <<>>
           new == [mtime |-> cClock, extents |-> Append(old, hole)]
<1>1. /\ cFiles' = [g \in DOMAIN cFiles \cup {f} |-> IF g = f THEN new ELSE cFiles[g]]
      /\ UNCHANGED <<wMap, wReceiver, wPc, wDirs, wNames, wStats, wOut>>
      /\ wTouched' = IF wReceiver = "fragmentation" THEN wTouched \cup {f} ELSE {}
  BY DEF WriteFile, Change
<1>2. FilesTyped(cFiles) /\ wMap \in MapFields /\ wTouched \subseteq CacheFiles
  BY DEF EInv, ExtentsTyped
<1>3. new.extents \in Seq(Flags) /\ Len(new.extents) > 0
  <2>1. old \in Seq(Flags)
    <3>1. <<>> \in Seq(Flags)
      OBVIOUS
    <3> QED BY <1>2, <3>1, Zenon DEF FilesTyped
  <2>2. hole \in Flags
    BY DEF Flags
  <2> HIDE DEF old
  <2> QED BY <2>1, <2>2
<1> HIDE DEF new
<1>4. FilesTyped(cFiles')
  BY <1>1, <1>2, <1>3 DEF FilesTyped
<1>5. \A g \in CacheFiles \ {f} : /\ g \in DOMAIN cFiles' <=> g \in DOMAIN cFiles
                                  /\ g \in DOMAIN cFiles => cFiles'[g] = cFiles[g]
  BY <1>1
<1> QED BY <1>1, <1>2, <1>4, <1>5, ChangesKeep

\* A file that is culled is touched; if it is the one that is mapped, it keeps
\* its extents until it is closed.
LEMMA CullFileExtents ==
  ASSUME EInv, NEW f \in CacheFiles, CullFile(f)
  PROVE  EInv'
<1>1. /\ cFiles' = [g \in DOMAIN cFiles \ {f} |-> cFiles[g]] /\ f \in DOMAIN cFiles
      /\ UNCHANGED <<wReceiver, wPc, wDirs, wNames, wStats, wOut>>
      /\ wTouched' = IF wReceiver = "fragmentation" THEN wTouched \cup {f} ELSE {}
      /\ wMap' = IF wMap.path = f /\ wMap.deleted = {}
                 THEN [wMap EXCEPT !.deleted = {cFiles[f].extents}] ELSE wMap
  BY DEF CullFile, Change
<1>2. FilesTyped(cFiles) /\ wMap \in MapFields /\ wTouched \subseteq CacheFiles
  BY DEF EInv, ExtentsTyped
<1>3. wMap' \in MapFields /\ wMap'.path = wMap.path /\ (wMap.path # f => wMap' = wMap)
  <2>1. cFiles[f].extents \in Seq(Flags)
    BY <1>1, <1>2 DEF FilesTyped
  <2> QED BY <1>1, <1>2, <2>1, Zenon DEF MapFields
<1>4. FilesTyped(cFiles')
  BY <1>1, <1>2 DEF FilesTyped
<1>5. \A g \in CacheFiles \ {f} : /\ g \in DOMAIN cFiles' <=> g \in DOMAIN cFiles
                                  /\ g \in DOMAIN cFiles => cFiles'[g] = cFiles[g]
  BY <1>1
<1> QED BY <1>1, <1>2, <1>3, <1>4, <1>5, ChangesKeep

\* Without the cache directory all files are touched.
LEMMA LoseCacheExtents ==
  ASSUME EInv, LoseCache
  PROVE  EInv'
<1>1. /\ DOMAIN cFiles' = {} /\ UNCHANGED <<wMap, wReceiver, wPc, wDirs, wNames, wStats, wOut>>
      /\ wTouched' = IF wReceiver = "fragmentation" THEN CacheFiles ELSE {}
  BY DEF LoseCache
<1>2. FilesTyped(cFiles') /\ wMap \in MapFields /\ wTouched \subseteq CacheFiles
  BY <1>1 DEF FilesTyped, EInv, ExtentsTyped
<1> QED BY <1>1, <1>2, ChangesKeep

\* Of the receiver oldestfile, and of none, nothing is to show.
LEMMA OthersExtents ==
  ASSUME EInv, PhaseInv', wReceiver' # "fragmentation", UNCHANGED <<cFiles, wMap>>,
         wStats' \in {wStats, NoStats}, wTouched' \in {wTouched, {}},
         wNames' \subseteq CacheFiles, \A f \in wNames' : DirOf[f] \notin wDirs'
  PROVE  EInv'
<1>1. NoStats \in StatFields
  BY DEF NoStats, StatFields
<1> QED BY <1>1 DEF EInv, ExtentsTyped

\* A step of a walk that counts no file and touches none.
LEMMA SameCounted ==
  ASSUME EInv, wReceiver = "fragmentation", UNCHANGED <<cFiles, wReceiver, wTouched, wStats>>,
         Counted' = Counted, wPc \in {"walk", "map"}, wPc' \in {"walk", "map"},
         wNames' \subseteq CacheFiles, \A f \in wNames' : DirOf[f] \notin wDirs',
         wMap' \in MapFields, MapInv'
  PROVE  EInv'
<1>1. ExtentsTyped' /\ PhaseInv'
  BY DEF EInv, ExtentsTyped, PhaseInv
<1>2. StatsInv' /\ EmittedInv'
  BY DEF EInv, FragInv, StatsInv, EmittedInv
<1> QED BY <1>1, <1>2 DEF EInv, FragInv

\* A directory is listed: its files are still to come, as entries.
LEMMA ListDirExtents ==
  ASSUME EInv, NEW d \in Dirs, ListDir(d)
  PROVE  EInv'
<1>1. /\ UNCHANGED <<cFiles, wReceiver, wPc, wStats, wMap, wTouched, wOut>>
      /\ wPc = "walk" /\ wNames = {} /\ d \in wDirs /\ wDirs' = wDirs \ {d}
      /\ wNames' = {f \in DOMAIN cFiles : DirOf[f] = d}
  BY Zenon DEF ListDir, cacheVars
<1>2. wNames' \subseteq CacheFiles /\ \A f \in wNames' : DirOf[f] \notin wDirs'
  BY <1>1 DEF EInv, ExtentsTyped, FilesTyped
<1>3. CASE wReceiver = "fragmentation"
  <2>1. Counted' = Counted
    BY <1>1 DEF Counted
  <2>2. MapInv' /\ wMap' \in MapFields
    BY <1>1 DEF MapInv, EInv, ExtentsTyped
  <2> QED BY <1>1, <1>2, <1>3, <2>1, <2>2, SameCounted
<1>4. CASE wReceiver # "fragmentation"
  <2>1. PhaseInv'
    BY <1>1 DEF EInv, PhaseInv
  <2> QED BY <1>1, <1>2, <1>4, <2>1, OthersExtents
<1> QED BY <1>3, <1>4

\* An entry is looked at: a file that is gone or too small does not count,
\* another is the one to map.
LEMMA VisitExtents ==
  ASSUME EInv, NEW f \in CacheFiles, Visit(f)
  PROVE  EInv'
<1>1. /\ UNCHANGED <<cFiles, wReceiver, wDirs, wTouched, wOut, wStats>>
      /\ wPc = "walk" /\ f \in wNames /\ wNames' = wNames \ {f}
  BY DEF Visit, cacheVars
<1>2. wNames' \subseteq CacheFiles /\ \A g \in wNames' : DirOf[g] \notin wDirs'
  BY <1>1 DEF EInv, ExtentsTyped
<1>3. CASE wReceiver = "oldestfile"
  <2>1. UNCHANGED <<wPc, wMap>>
    BY <1>3 DEF Visit
  <2>2. PhaseInv'
    BY <1>1, <2>1 DEF EInv, PhaseInv
  <2> QED BY <1>1, <1>2, <1>3, <2>1, <2>2, OthersExtents
<1>4. CASE wReceiver # "oldestfile"
  <2>0. wReceiver = "fragmentation" /\ FilesTyped(cFiles) /\ wMap \in MapFields
    BY <1>1, <1>4 DEF EInv, PhaseInv, ExtentsTyped
  <2>1. CASE f \notin DOMAIN cFiles \/ Len(cFiles[f].extents) < MinFileSize
    <3>1. UNCHANGED <<wPc, wMap>>
      BY <1>4, <2>1 DEF Visit
    <3>2. f \in DOMAIN cFiles => ~(Len(cFiles[f].extents) >= MinFileSize)
      <4>1. MinFileSize \in Nat
        BY CacheAssumption, Zenon
      <4> QED BY <2>0, <2>1, <4>1, HolesTyped
    <3>3. Counted' = Counted
      BY <1>1, <3>1, <3>2 DEF Counted
    <3>4. MapInv'
      BY <1>1, <3>1, Zenon DEF MapInv
    <3> QED BY <1>1, <1>2, <2>0, <3>1, <3>3, <3>4, SameCounted
  <2>2. CASE f \in DOMAIN cFiles /\ ~(Len(cFiles[f].extents) < MinFileSize)
    <3> DEFINE e == cFiles[f].extents
    <3>1. wPc' = "map" /\ wMap' = [NoMap EXCEPT !.path = f, !.blocks = Len(e)]
      BY <1>4, <2>2 DEF Visit
    <3>2. e \in Seq(Flags) /\ Len(e) > 0 /\ Len(e) \in Nat
      BY <2>0, <2>2, HolesTyped, Zenon DEF FilesTyped
    <3>3. Len(e) >= MinFileSize
      <4>1. MinFileSize \in Nat
        BY CacheAssumption, Zenon
      <4> QED BY <2>2, <3>2, <4>1
    <3> HIDE DEF e
    <3>4. /\ wMap' \in MapFields /\ wMap'.path = f /\ wMap'.blocks = Len(e) /\ wMap'.start = 1
          /\ wMap'.deleted = {} /\ wMap'.info.extents = 0 /\ wMap'.info.unwrittenBytes = 0
      BY <3>1, <3>2, NoMapTyped, Zenon DEF NoMap, NoExtents, MapFields
    <3>5. Counted' = Counted
      BY <1>1, <3>1, <3>4 DEF Counted
    <3>6. Holes(e, 1 - 1) = 0
      <4>1. {i \in 1..(1 - 1) : e[i]} = {}
        OBVIOUS
      <4> QED BY <4>1, FS_EmptySet DEF Holes
    <3>7. Mapped(wMap', cFiles')
      <4>1. 1 <= Len(e) /\ 0 = 1 - 1
        BY <3>2
      <4> QED BY <1>1, <2>2, <3>3, <3>4, <3>6, <4>1, Zenon DEF Mapped, e
    <3>8. MapInv'
      <4>1. DirOf[f] \notin wDirs'
        BY <1>1 DEF EInv, ExtentsTyped
      <4> QED BY <1>1, <3>4, <3>7, <4>1 DEF MapInv
    <3> QED BY <1>1, <1>2, <2>0, <3>1, <3>4, <3>5, <3>8, SameCounted
  <2> QED BY <2>1, <2>2
<1> QED BY <1>3, <1>4

\* A step after which the receiver has nothing.
LEMMA NothingExtents ==
  ASSUME EInv, PhaseInv', UNCHANGED <<cFiles, wReceiver, wMap>>, wPc' = "idle", wOut' = <<>>,
         wStats' \in {wStats, NoStats}, wTouched' \in {wTouched, {}},
         wNames' \subseteq CacheFiles, \A f \in wNames' : DirOf[f] \notin wDirs'
  PROVE  EInv'
<1>1. NoStats \in StatFields
  BY DEF NoStats, StatFields
<1>2. ExtentsTyped'
  BY <1>1 DEF EInv, ExtentsTyped
<1>3. FragInv'
  BY Zenon DEF FragInv, StatsInv, MapInv, EmittedInv
<1> QED BY <1>2, <1>3 DEF EInv

\* A walk that the context ends emits nothing.
LEMMA AbortWalkExtents ==
  ASSUME EInv, AbortWalk
  PROVE  EInv'
<1>1. /\ UNCHANGED <<cFiles, wReceiver, wMap, wTouched>> /\ wPc' = "idle" /\ wOut' = <<>>
      /\ wStats' = NoStats /\ wNames' = {}
  BY DEF AbortWalk, cacheVars
<1>2. PhaseInv'
  BY <1>1 DEF EInv, PhaseInv
<1> QED BY <1>1, <1>2, NothingExtents

\* The scrapes of the other receiver.
LEMMA OldestExtents ==
  ASSUME EInv, ScrapeOldest \/ FoundOldest
  PROVE  EInv'
<1>1. /\ UNCHANGED <<cFiles, wReceiver, wMap>> /\ wReceiver = "oldestfile"
      /\ wPc' \in {"idle", "walk", "exited"} /\ wStats' \in {wStats, NoStats}
      /\ wTouched' \in {wTouched, {}} /\ (UNCHANGED <<wNames, wDirs>> \/ wNames' = {})
  BY Zenon DEF ScrapeOldest, FoundOldest, StartWalk, ReportOldest, cacheVars
<1>2. PhaseInv' /\ wNames' \subseteq CacheFiles /\ \A f \in wNames' : DirOf[f] \notin wDirs'
  BY <1>1 DEF EInv, PhaseInv, ExtentsTyped
<1> QED BY <1>1, <1>2, OthersExtents

\* A scrape begins with all directories to come and no file counted.
LEMMA ScrapeFragmentationExtents ==
  ASSUME EInv, ScrapeFragmentation
  PROVE  EInv'
<1>1. /\ UNCHANGED <<cFiles, wReceiver, wMap>> /\ wReceiver = "fragmentation" /\ wOut' = <<>>
      /\ wPc = "idle"
  BY DEF ScrapeFragmentation, cacheVars
<1>2. PhaseInv'
  BY <1>1 DEF EInv, PhaseInv
<1>3. CASE ~cExists
  <2>1. wPc' = "idle" /\ UNCHANGED <<wStats, wTouched, wNames, wDirs>>
    BY <1>1, <1>3 DEF ScrapeFragmentation
  <2> QED BY <1>1, <1>2, <2>1, NothingExtents DEF EInv, ExtentsTyped
<1>4. CASE cExists
  <2>1. wPc' = "walk" /\ wDirs' = Dirs /\ wNames' = {} /\ wStats' = NoStats /\ wTouched' = {}
    BY <1>4 DEF ScrapeFragmentation, StartWalk
  <2>2. ExtentsTyped'
    <3>1. NoStats \in StatFields
      BY DEF NoStats, StatFields
    <3> QED BY <1>1, <2>1, <3>1 DEF EInv, ExtentsTyped
  <2>3. Counted' = {}
    <3>1. \A f \in DOMAIN cFiles : DirOf[f] \in Dirs
      BY DEF EInv, ExtentsTyped, FilesTyped, Dirs
    <3> QED BY <1>1, <2>1, <3>1 DEF Counted
  <2>4. StatsInv'
    <3>1. Covers({}, cFiles', {}, 0, 0)
      BY TotalEmpty DEF Covers
    <3>2. wStats'.unwrittenBytes = 0 /\ wStats'.maxExtents = 0 /\ wStats'.extents = wStats'.allocatedBytes
      BY <2>1 DEF NoStats
    <3> QED BY <2>1, <2>3, <3>1, <3>2 DEF StatsInv
  <2>5. FragInv'
    BY <2>1, <2>4 DEF FragInv, MapInv, EmittedInv
  <2> QED BY <1>2, <2>2, <2>5 DEF EInv
<1> QED BY <1>3, <1>4

\* What is emitted are the totals of a walk that is over; the maximum and the
\* mean are left out only if there is no file.
LEMMA EmitFragmentationExtents ==
  ASSUME EInv, EmitFragmentation
  PROVE  EInv'
<1> DEFINE u == wStats.unwrittenBytes
           m == wStats.maxExtents
<1>1. /\ UNCHANGED <<cFiles, wReceiver, wMap, wDirs, wNames, wTouched>> /\ wReceiver = "fragmentation"
      /\ wPc = "walk" /\ wPc' = "idle" /\ wStats' = NoStats /\ wDirs = {} /\ wNames = {}
  BY Zenon DEF EmitFragmentation, cacheVars
<1>2. ExtentsTyped' /\ PhaseInv'
  <2>1. NoStats \in StatFields
    BY DEF NoStats, StatFields
  <2> QED BY <1>1, <2>1 DEF EInv, ExtentsTyped, PhaseInv
<1>3. Counted' = Counted
  BY <1>1 DEF Counted
<1>4. wStats \in StatFields /\ StatsInv
  BY <1>1 DEF EInv, ExtentsTyped, FragInv
<1>5. /\ u \in Nat /\ m \in Nat /\ wStats.files \in Nat /\ wStats.extents \in Nat
      /\ wStats.allocatedBytes \in Nat
  BY <1>4 DEF StatFields
<1>6. /\ Covers(Counted, cFiles, wTouched, u, m)
      /\ Counted # {} => wStats.files > 0 /\ wStats.extents > 0
      /\ m > 0 => wStats.files > 0 /\ wStats.extents > 0
      /\ wTouched = {} => wStats.extents = wStats.allocatedBytes
  BY <1>1, <1>4 DEF StatsInv
<1>7. /\ wOut'.unwritten = u /\ MaxOut(wOut') = m
      /\ wTouched = {} /\ Counted # {} => wOut'.mean = 1
  <2>1. CASE wStats.files > 0 /\ wStats.extents > 0
    <3>1. wOut' = [unwritten |-> u, max |-> m, mean |-> wStats.allocatedBytes \div wStats.extents]
      BY <2>1, Zenon DEF EmitFragmentation
    <3>2. /\ "max" \in DOMAIN wOut' /\ wOut'.unwritten = u /\ wOut'.max = m
          /\ wOut'.mean = wStats.allocatedBytes \div wStats.extents
      BY <3>1
    <3>3. \A n \in Nat : n > 0 => n \div n = 1
      OBVIOUS
    <3> QED BY <1>5, <1>6, <2>1, <3>2, <3>3 DEF MaxOut
  <2>2. CASE ~(wStats.files > 0 /\ wStats.extents > 0)
    <3>1. wOut' = [unwritten |-> u]
      BY <2>2, Zenon DEF EmitFragmentation
    <3>2. "max" \notin DOMAIN wOut' /\ wOut'.unwritten = u
      BY <3>1
    <3>3. Counted = {} /\ m = 0
      BY <1>5, <1>6, <2>2
    <3> QED BY <3>2, <3>3 DEF MaxOut
  <2> QED BY <2>1, <2>2, Zenon
<1>8. EmittedInv'
  <2> HIDE DEF u, m
  <2> QED BY <1>1, <1>3, <1>5, <1>6, <1>7, Zenon DEF EmittedInv
<1>9. FragInv'
  BY <1>1, <1>8, Zenon DEF FragInv, StatsInv, MapInv
<1> QED BY <1>2, <1>9 DEF EInv

\* What addExtents adds.
LEMMA InfoTyped ==
  ASSUME NEW info \in ExtentFields, NEW mapped \in Seq(Flags)
  PROVE  /\ addExtents(info, mapped) \in ExtentFields
         /\ addExtents(info, mapped).extents = info.extents + Len(mapped)
         /\ addExtents(info, mapped).unwrittenBytes =
              info.unwrittenBytes + HolesOf(mapped)
<1> DEFINE holes == Cardinality({i \in DOMAIN mapped : mapped[i]})
<1>1. holes \in Nat /\ Len(mapped) \in Nat
  <2>1. DOMAIN mapped = 1..Len(mapped) /\ Len(mapped) \in Nat
    OBVIOUS
  <2>2. IsFiniteSet({i \in DOMAIN mapped : mapped[i]})
    <3>1. IsFiniteSet(1..Len(mapped))
      BY <2>1, FS_Interval
    <3> QED BY <2>1, <3>1, FS_Subset
  <2> QED BY <2>1, <2>2, FS_CardinalityType
<1>2. addExtents(info, mapped) = [extents |-> info.extents + Len(mapped),
        writtenBytes |-> info.writtenBytes + Len(mapped) - holes,
        unwrittenBytes |-> info.unwrittenBytes + holes]
  BY Zenon DEF addExtents
<1> HIDE DEF holes
<1>3. info.extents \in Nat /\ info.writtenBytes \in Int /\ info.unwrittenBytes \in Nat
  BY DEF ExtentFields
<1>4. /\ info.extents + Len(mapped) \in Nat /\ info.unwrittenBytes + holes \in Nat
      /\ info.writtenBytes + Len(mapped) - holes \in Int
  BY <1>1, <1>3
<1>5. /\ addExtents(info, mapped).extents = info.extents + Len(mapped)
      /\ addExtents(info, mapped).unwrittenBytes = info.unwrittenBytes + holes
  BY <1>2
<1>6. addExtents(info, mapped) \in ExtentFields
  BY <1>2, <1>4 DEF ExtentFields
<1> QED BY <1>5, <1>6 DEF holes, HolesOf

\* The extents one round of mapExtents gets, and what it knows of the file then.
RoundGets(map, files) == fiemap(files[map.path].extents, map.start)
InfoAfter(map, files) == addExtents(map.info, RoundGets(map, files).mapped)

\* One round of mapExtents over a file that nobody changed goes on where the round
\* before it ended.
LEMMA RoundAdds ==
  ASSUME NEW files, FilesTyped(files), NEW map \in MapFields, Mapped(map, files)
  PROVE  /\ RoundGets(map, files).mapped # <<>>
         /\ InfoAfter(map, files).extents = RoundGets(map, files).next - 1
         /\ InfoAfter(map, files).unwrittenBytes =
              Holes(files[map.path].extents, RoundGets(map, files).next - 1)
         /\ RoundGets(map, files).last =>
              RoundGets(map, files).next - 1 = Len(files[map.path].extents)
         /\ ~RoundGets(map, files).last =>
              RoundGets(map, files).next <= Len(files[map.path].extents)
<1> DEFINE e == files[map.path].extents
           b == fiemap(e, map.start)
           info == addExtents(map.info, b.mapped)
           to == b.next - 1
<1>1. e \in Seq(Flags)
  BY Zenon DEF Mapped, FilesTyped
<1>2. map.start \in Nat \ {0} /\ map.info \in ExtentFields
  BY Zenon DEF MapFields
<1>3. /\ map.start <= Len(e) /\ map.info.extents = map.start - 1
      /\ map.info.unwrittenBytes = Holes(e, map.start - 1)
  BY Zenon DEF Mapped
<1> HIDE DEF e
<1>4. b.mapped \in Seq(Flags)
  BY <1>1, <1>2, FiemapMaps, Zenon
<1>5. /\ to \in Nat /\ b.mapped # <<>> /\ Len(b.mapped) = to - (map.start - 1)
      /\ Holes(e, to) = Holes(e, map.start - 1) + HolesOf(b.mapped)
      /\ (b.last => to = Len(e)) /\ (~b.last => b.next <= Len(e))
  <2>1. map.start <= Len(e)
    BY <1>3, Zenon
  <2>2. map.start \in Nat \ {0}
    BY <1>2, Zenon
  <2> QED BY <1>1, <2>1, <2>2, FiemapCounts, Zenon
<1> HIDE DEF b, to
<1>6. /\ info.extents = map.info.extents + Len(b.mapped)
      /\ info.unwrittenBytes = map.info.unwrittenBytes + HolesOf(b.mapped)
  BY <1>2, <1>4, InfoTyped, Zenon
<1>7. info.extents = to
  <2>1. info.extents = (map.start - 1) + (to - (map.start - 1))
    BY <1>3, <1>5, <1>6, Zenon
  <2>2. \A x, y \in Nat : (x - 1) + (y - (x - 1)) = y
    OBVIOUS
  <2>3. map.start \in Nat
    BY <1>2
  <2> QED BY <1>5, <2>1, <2>2, <2>3, Zenon
<1>8. info.unwrittenBytes = Holes(e, to)
  BY <1>3, <1>5, <1>6, Zenon
<1>9. b = RoundGets(map, files) /\ info = InfoAfter(map, files)
  BY Zenon DEF RoundGets, InfoAfter, b, e
<1> HIDE DEF info
<1> QED BY <1>5, <1>7, <1>8, <1>9, Zenon DEF to, e

\* What addStats adds.
LEMMA StatsAdd ==
  ASSUME NEW st \in StatFields, NEW info \in ExtentFields, NEW blocks \in Nat
  PROVE  LET s == addStats(st, info, blocks) IN
         /\ s \in StatFields
         /\ s.files = st.files + 1 /\ s.extents = st.extents + info.extents
         /\ s.maxExtents = Max({st.maxExtents, info.extents})
         /\ s.allocatedBytes = st.allocatedBytes + blocks
         /\ s.unwrittenBytes = st.unwrittenBytes + info.unwrittenBytes
<1>1. addStats(st, info, blocks) =
        [files |-> st.files + 1, extents |-> st.extents + info.extents,
         maxExtents |-> Max({st.maxExtents, info.extents}),
         allocatedBytes |-> st.allocatedBytes + blocks,
         unwrittenBytes |-> st.unwrittenBytes + info.unwrittenBytes]
  BY Zenon DEF addStats
<1>2. /\ st.files \in Nat /\ st.extents \in Nat /\ st.maxExtents \in Nat /\ st.allocatedBytes \in Nat
      /\ st.unwrittenBytes \in Nat /\ info.extents \in Nat /\ info.unwrittenBytes \in Nat
  BY DEF StatFields, ExtentFields
<1>3. Max({st.maxExtents, info.extents}) \in Nat
  BY <1>2, Greater
<1>4. /\ st.files + 1 \in Nat /\ st.extents + info.extents \in Nat
      /\ st.allocatedBytes + blocks \in Nat /\ st.unwrittenBytes + info.unwrittenBytes \in Nat
  BY <1>2
<1>5. addStats(st, info, blocks) \in StatFields
  BY <1>1, <1>3, <1>4 DEF StatFields
<1>6. /\ addStats(st, info, blocks).files = st.files + 1
      /\ addStats(st, info, blocks).extents = st.extents + info.extents
      /\ addStats(st, info, blocks).maxExtents = Max({st.maxExtents, info.extents})
      /\ addStats(st, info, blocks).allocatedBytes = st.allocatedBytes + blocks
      /\ addStats(st, info, blocks).unwrittenBytes = st.unwrittenBytes + info.unwrittenBytes
  BY <1>1
<1> QED BY <1>5, <1>6, Zenon

\* A round of mapExtents: the last one of a file that was not touched has added
\* each of its extents once, and a file that cannot be mapped counts as
\* touched.
LEMMA MapExtentsExtents ==
  ASSUME EInv, MapExtents
  PROVE  EInv'
<1> DEFINE f == wMap.path
           e == IF wMap.deleted # {} THEN CHOOSE x \in wMap.deleted : TRUE ELSE cFiles[f].extents
           b == fiemap(e, wMap.start)
           info == addExtents(wMap.info, b.mapped)
<1>1. /\ UNCHANGED <<cFiles, wReceiver, wDirs, wNames, wOut>> /\ wPc = "map"
  BY DEF MapExtents, cacheVars
<1>2. wReceiver = "fragmentation" /\ FilesTyped(cFiles) /\ wMap \in MapFields /\ wStats \in StatFields
      /\ StatsInv /\ MapInv
  BY <1>1 DEF EInv, PhaseInv, ExtentsTyped, FragInv
<1>3. /\ wMap.start \in Nat \ {0} /\ wMap.info \in ExtentFields /\ wMap.blocks \in Nat
      /\ wMap.deleted \in SUBSET Seq(Flags)
  BY <1>2, Zenon DEF MapFields
<1>4. /\ DirOf[f] \notin wDirs /\ f \notin wNames /\ f \in CacheFiles
      /\ f \notin wTouched => Mapped(wMap, cFiles)
  BY <1>1, <1>2, Zenon DEF MapInv
<1>5. f \notin Counted /\ Counted \in SUBSET DOMAIN cFiles
  BY <1>1 DEF Counted
<1>6. /\ Covers(Counted, cFiles, wTouched, wStats.unwrittenBytes, wStats.maxExtents)
      /\ Counted # {} => wStats.files > 0 /\ wStats.extents > 0
      /\ wStats.maxExtents > 0 => wStats.files > 0 /\ wStats.extents > 0
      /\ wTouched = {} => wStats.extents = wStats.allocatedBytes
  BY <1>1, <1>2 DEF StatsInv
<1>7. NoMap \in MapFields /\ PhaseInv'
  BY <1>1, NoMapTyped DEF EInv, PhaseInv, MapExtents
<1>8. /\ wStats.unwrittenBytes \in Nat /\ wStats.maxExtents \in Nat /\ wStats.extents \in Nat
      /\ wStats.files \in Nat /\ wStats.allocatedBytes \in Nat
  BY <1>2 DEF StatFields
<1>9. ASSUME f \in DOMAIN cFiles \/ wMap.deleted # {}
      PROVE  e \in Seq(Flags) /\ b.mapped \in Seq(Flags) /\ b.next \in Nat \ {0} /\ info \in ExtentFields
  <2>1. e \in Seq(Flags)
    <3>1. wMap.deleted # {} => (CHOOSE x \in wMap.deleted : TRUE) \in wMap.deleted
      BY Zenon
    <3> QED BY <1>2, <1>3, <1>9, <3>1, Zenon DEF FilesTyped
  <2> HIDE DEF e
  <2>2. b.mapped \in Seq(Flags) /\ b.next \in Nat \ {0}
    BY <1>3, <2>1, FiemapMaps, Zenon
  <2> HIDE DEF b
  <2> QED BY <1>3, <2>1, <2>2, InfoTyped
<1>10. ASSUME f \notin wTouched
       PROVE  e = cFiles[f].extents /\ f \in DOMAIN cFiles
  BY <1>4, <1>10 DEF Mapped
<1> HIDE DEF e
<1>11. CASE /\ f \in DOMAIN cFiles \/ wMap.deleted # {}
            /\ b.last \/ b.mapped = <<>>
            /\ wStats' = addStats(wStats, info, wMap.blocks) /\ wPc' = "walk" /\ wMap' = NoMap
            /\ UNCHANGED wTouched
  <2>0. info \in ExtentFields /\ info.extents \in Nat /\ info.unwrittenBytes \in Nat
    BY <1>9, <1>11, Zenon DEF ExtentFields
  <2>1. /\ wStats' \in StatFields /\ wStats'.files = wStats.files + 1
        /\ wStats'.extents = wStats.extents + info.extents
        /\ wStats'.maxExtents = Max({wStats.maxExtents, info.extents})
        /\ wStats'.allocatedBytes = wStats.allocatedBytes + wMap.blocks
        /\ wStats'.unwrittenBytes = wStats.unwrittenBytes + info.unwrittenBytes
    <3> HIDE DEF info
    <3>1. wStats \in StatFields /\ info \in ExtentFields /\ wMap.blocks \in Nat
          /\ wStats' = addStats(wStats, info, wMap.blocks)
      BY <1>2, <1>3, <1>11, <2>0, Zenon
    <3> QED BY <3>1, StatsAdd
  <2>2. ExtentsTyped'
    BY <1>1, <1>7, <1>11, <2>1, Zenon DEF EInv, ExtentsTyped
  <2>3. /\ Max({wStats.maxExtents, info.extents}) \in {wStats.maxExtents, info.extents}
        /\ wStats'.maxExtents \in Nat
    <3> HIDE DEF info
    <3> QED BY <1>8, <2>0, <2>1, Greater
  <2>4. /\ wStats'.files > 0
        /\ wStats'.maxExtents > 0 => wStats'.extents > 0
        /\ Counted # {} => wStats'.extents > 0
    <3> HIDE DEF info
    <3> QED BY <1>6, <1>8, <2>0, <2>1, <2>3
  <2>5. CASE f \notin wTouched
    <3>1. Mapped(wMap, cFiles) /\ e = cFiles[f].extents /\ f \in DOMAIN cFiles
      BY <1>4, <1>10, <2>5, Zenon
    <3>2. info.extents = Len(e) /\ info.unwrittenBytes = Holes(e, Len(e))
      <4>1. b = RoundGets(wMap, cFiles) /\ info = InfoAfter(wMap, cFiles)
        BY <3>1, Zenon DEF RoundGets, InfoAfter
      <4> HIDE DEF b, info
      <4>2. /\ b.mapped # <<>> /\ info.extents = b.next - 1
            /\ info.unwrittenBytes = Holes(e, b.next - 1) /\ (b.last => b.next - 1 = Len(e))
        BY <1>2, <3>1, <4>1, RoundAdds, Zenon
      <4> QED BY <1>11, <4>2, Zenon
    <3> HIDE DEF b, info
    <3>3. Len(e) > 0 /\ Len(e) >= MinFileSize /\ wMap.blocks = Len(e) /\ Len(e) \in Nat
      BY <1>2, <3>1, HolesTyped, Zenon DEF Mapped, FilesTyped
    <3>4. Counted' = Counted \cup {f}
      <4>1. NoMap.path = "" /\ "walk" # "map"
        BY Zenon DEF NoMap
      <4> QED BY <1>1, <1>4, <1>11, <2>5, <3>1, <3>3, Zenon DEF Counted
    <3>5. Covers(Counted', cFiles, wTouched, wStats'.unwrittenBytes, wStats'.maxExtents)
      <4>1. Covers(Counted \cup {f}, cFiles, wTouched, wStats.unwrittenBytes + info.unwrittenBytes,
                   Max({wStats.maxExtents, info.extents}))
        BY <1>2, <1>5, <1>6, <1>8, <3>1, <3>2, CoversOneMore, Zenon
      <4> QED BY <2>1, <3>4, <4>1, Zenon
    <3>6. wStats'.extents > 0 /\ (wTouched = {} => wStats'.extents = wStats'.allocatedBytes)
      BY <1>6, <1>8, <2>1, <3>2, <3>3
    <3>7. StatsInv'
      BY <1>1, <1>11, <2>4, <3>5, <3>6, Zenon DEF StatsInv
    <3> QED BY <1>1, <1>7, <1>11, <2>2, <3>7, Zenon DEF EInv, FragInv, MapInv, EmittedInv
  <2>6. CASE f \in wTouched
    <3> HIDE DEF b, info
    <3>1. Counted' = Counted
      BY <1>1, <1>11, <2>6 DEF Counted
    <3>2. Covers(Counted, cFiles, wTouched, wStats'.unwrittenBytes, wStats'.maxExtents)
      <4>1. wTouched # {} /\ wStats.unwrittenBytes \in Nat /\ wStats.maxExtents \in Nat
        BY <1>8, <2>6
      <4>2. Covers(Counted, cFiles, wTouched, wStats.unwrittenBytes + info.unwrittenBytes,
                   Max({wStats.maxExtents, info.extents}))
        BY <1>2, <1>5, <1>6, <2>0, <4>1, CoversMore, Zenon
      <4> QED BY <2>1, <4>2, Zenon
    <3>3. StatsInv'
      BY <1>1, <1>11, <2>4, <2>6, <3>1, <3>2, Zenon DEF StatsInv
    <3> QED BY <1>1, <1>7, <1>11, <2>2, <3>3, Zenon DEF EInv, FragInv, MapInv, EmittedInv
  <2> QED BY <2>5, <2>6
<1>12. CASE /\ f \in DOMAIN cFiles \/ wMap.deleted # {}
            /\ ~(b.last \/ b.mapped = <<>>)
            /\ wMap' = [wMap EXCEPT !.start = b.next, !.info = info]
            /\ UNCHANGED <<wStats, wPc, wTouched>>
  <2>1. /\ wMap' \in MapFields /\ wMap'.path = f /\ wMap'.start = b.next /\ wMap'.info = info
        /\ wMap'.blocks = wMap.blocks /\ wMap'.deleted = wMap.deleted
    <3> HIDE DEF b, info
    <3> QED BY <1>2, <1>9, <1>12, Zenon DEF MapFields
  <2>2. Counted' = Counted
    BY <1>1, <1>12, <2>1 DEF Counted
  <2>3. f \notin wTouched => Mapped(wMap', cFiles)
    <3>1. SUFFICES ASSUME f \notin wTouched PROVE Mapped(wMap', cFiles)
      OBVIOUS
    <3>2. Mapped(wMap, cFiles) /\ e = cFiles[f].extents
      BY <1>4, <1>10, <3>1
    <3>3. /\ info.extents = b.next - 1 /\ info.unwrittenBytes = Holes(e, b.next - 1)
          /\ ~b.last => b.next <= Len(e)
      <4>1. b = RoundGets(wMap, cFiles) /\ info = InfoAfter(wMap, cFiles)
        BY <3>2, Zenon DEF RoundGets, InfoAfter
      <4> HIDE DEF b, info
      <4> QED BY <1>2, <3>2, <4>1, RoundAdds, Zenon
    <3> HIDE DEF b, info
    <3> QED BY <1>12, <2>1, <3>2, <3>3 DEF Mapped
  <2>4. MapInv'
    BY <1>1, <1>4, <1>12, <2>1, <2>3 DEF MapInv
  <2> QED BY <1>1, <1>2, <1>12, <2>1, <2>2, <2>4, SameCounted DEF EInv, ExtentsTyped
<1>13. CASE wPc' = "walk" /\ wMap' = NoMap /\ wTouched' = wTouched \cup {f} /\ UNCHANGED wStats
  <2>1. Counted' = Counted
    BY <1>1, <1>4, <1>13 DEF Counted
  <2>2. ExtentsTyped'
    BY <1>1, <1>4, <1>7, <1>13 DEF EInv, ExtentsTyped
  <2>3. wTouched' # {}
    BY <1>13
  <2>4. Covers(Counted, cFiles, wTouched', wStats.unwrittenBytes, wStats.maxExtents)
    BY <1>6, <2>3 DEF Covers
  <2>5. StatsInv'
    BY <1>1, <1>6, <1>13, <2>1, <2>3, <2>4 DEF StatsInv
  <2> QED BY <1>1, <1>7, <1>13, <2>2, <2>5, Zenon DEF EInv, FragInv, MapInv, EmittedInv
<1> QED BY <1>11, <1>12, <1>13, Zenon DEF MapExtents, e

\* A receiver starts.
LEMMA StartReceiverExtents ==
  ASSUME EInv, NEW r \in {"oldestfile", "fragmentation"}, StartReceiver(r)
  PROVE  EInv'
<1>1. /\ UNCHANGED <<cFiles, wPc, wDirs, wNames, wStats, wMap, wOut, wTouched>>
      /\ wReceiver = "none" /\ wReceiver' = r
  BY DEF StartReceiver, cacheVars
<1>2. wPc = "idle" /\ wOut = <<>>
  BY <1>1 DEF EInv, PhaseInv
<1>3. ExtentsTyped' /\ PhaseInv'
  BY <1>1, <1>2 DEF EInv, ExtentsTyped, PhaseInv
<1>4. FragInv'
  BY <1>1, <1>2, Zenon DEF FragInv, StatsInv, MapInv, EmittedInv
<1> QED BY <1>3, <1>4 DEF EInv

\* Time passes, or nothing happens.
LEMMA ExtentsUntouched ==
  ASSUME EInv, Advance \/ UNCHANGED cacheWalkVars
  PROVE  EInv'
<1>1. UNCHANGED <<cFiles, wReceiver, wPc, wDirs, wNames, wStats, wMap, wOut, wTouched>>
  BY DEF Advance, cacheWalkVars, cacheVars, walkVars
<1>2. FilesTyped(cFiles') /\ wMap' \in MapFields /\ wTouched' \subseteq CacheFiles
  BY <1>1 DEF EInv, ExtentsTyped
<1> QED BY <1>1, <1>2, ChangesKeep, Zenon

\* The sum of the property is the total of the proof.
LEMMA HolesAreTotal ==
  ASSUME FilesTyped(cFiles), NEW S \in SUBSET DOMAIN cFiles
  PROVE  MapThenSumSet(holesOf, S) = Total(HolesIn(cFiles), S)
<1> DEFINE g == HolesIn(cFiles)
           F == CHOOSE h : h = [s \in SUBSET S |->
                  IF s = {} THEN 0 ELSE holesOf(First(s)) + h[s \ {First(s)}]]
<1>0. IsFiniteSet(S) /\ \A x \in S : g[x] \in Int
  BY HolesTyped, FS_Subset, Zenon
<1>1. MapThenSumSet(holesOf, S) = F[S]
  BY Zenon DEF MapThenSumSet, MapThenFoldSet, First
<1>2. \A x \in S : holesOf(x) = g[x]
  <2>1. SUFFICES ASSUME NEW x \in S PROVE holesOf(x) = g[x]
    OBVIOUS
  <2> DEFINE e == cFiles[x].extents
  <2>2. e \in Seq(Flags)
    BY DEF FilesTyped
  <2>3. DOMAIN e = 1..Len(e)
    BY <2>2
  <2>4. holesOf(x) = Cardinality({i \in DOMAIN e : e[i]}) /\ g[x] = Holes(e, Len(e))
    BY HolesTyped, Zenon DEF holesOf
  <2> HIDE DEF e
  <2> QED BY <2>3, <2>4, Zenon DEF Holes
<1>3. \A s \in SUBSET S : s # {} => holesOf(First(s)) = g[First(s)]
  <2> HIDE DEF g
  <2> QED BY <1>2 DEF First
<1> HIDE DEF g
<1>4. \A h : [s \in SUBSET S |-> IF s = {} THEN 0 ELSE holesOf(First(s)) + h[s \ {First(s)}]]
               = [s \in SUBSET S |-> Added(h, g, s)]
  BY <1>3 DEF Added
<1>5. PICK h : IsSum(h, S, g)
  BY <1>0, SumExists, Zenon
<1>6. h = [s \in SUBSET S |-> IF s = {} THEN 0 ELSE holesOf(First(s)) + h[s \ {First(s)}]]
  BY <1>4, <1>5, Zenon DEF IsSum
<1>7. F = [s \in SUBSET S |-> IF s = {} THEN 0 ELSE holesOf(First(s)) + F[s \ {First(s)}]]
  BY <1>6, Zenon
<1> HIDE DEF F
<1>8. IsSum(F, S, g)
  BY <1>4, <1>7, Zenon DEF IsSum
<1>9. S \subseteq S /\ \A x \in S : g[x] = g[x]
  OBVIOUS
<1>10. Total(g, S) = F[S]
  BY <1>0, <1>8, <1>9, TotalIs, Zenon
<1> QED BY <1>1, <1>10, Zenon DEF g

\* The invariant of fragmentation holds for any files, directories, batch sizes
\* and changes.
THEOREM ExtentsInvariance == WalkSpec => []EInv
<1>1. EInv /\ [CacheWalkNext]_cacheWalkVars => EInv'
  BY WriteFileExtents, CullFileExtents, LoseCacheExtents, ListDirExtents, VisitExtents,
     AbortWalkExtents, OldestExtents, MapExtentsExtents, ScrapeFragmentationExtents,
     EmitFragmentationExtents, StartReceiverExtents, ExtentsUntouched DEF CacheWalkNext
<1> QED BY <1>1, ExtentsStart, PTL DEF WalkSpec

\* The totals that fragmentation emits have every file that was not touched,
\* each of its extents once (collect, mapExtents), for any files, extents and
\* batch sizes, whatever cachefilesd does meanwhile.
THEOREM ExtentsAreExact == WalkSpec => []ExtentsExact
<1>1. EInv => ExtentsExact
  <2>1. SUFFICES ASSUME EInv, wReceiver = "fragmentation", wPc = "idle", wOut # <<>>
                 PROVE  ExtentsExact
    BY Zenon DEF ExtentsExact
  <2> DEFINE measured == {f \in DOMAIN cFiles \ wTouched : Len(cFiles[f].extents) >= MinFileSize}
             lengths == {0} \cup {Len(cFiles[f].extents) : f \in measured}
             u == wOut.unwritten
             m == MaxOut(wOut)
  <2>2. FilesTyped(cFiles) /\ EmittedInv
    BY <2>1 DEF EInv, ExtentsTyped, FragInv
  <2>3. /\ wDirs = {} /\ wNames = {} /\ u \in Nat /\ m \in Nat
        /\ Covers(Counted, cFiles, wTouched, u, m)
        /\ wTouched = {} /\ Counted # {} => wOut.mean = 1
    BY <2>1, <2>2, Zenon DEF EmittedInv
  <2>4. Counted = measured
    BY <2>1, <2>3, Zenon DEF Counted
  <2>5. MapThenSumSet(holesOf, measured) = Total(HolesIn(cFiles), measured)
    BY <2>2, HolesAreTotal
  <2>6. lengths \in SUBSET Nat /\ lengths # {} /\ \A x \in lengths : x <= m
    <3>1. \A f \in measured : Len(cFiles[f].extents) \in Nat /\ m >= Len(cFiles[f].extents)
      BY <2>2, <2>3, <2>4, HolesTyped, Zenon DEF Covers
    <3> HIDE DEF measured, m
    <3> QED BY <2>3, <3>1
  <2>7. Max(lengths) \in Nat /\ m >= Max(lengths) /\ (m \in lengths => m = Max(lengths))
    <3> HIDE DEF lengths, m
    <3> QED BY <2>3, <2>6, GreatestNumber, Zenon
  <2>8. wTouched = {} => m \in lengths
    BY <2>3, <2>4 DEF Covers
  <2>9. /\ u >= MapThenSumSet(holesOf, measured)
        /\ wTouched = {} => u = MapThenSumSet(holesOf, measured)
    BY <2>3, <2>4, <2>5 DEF Covers
  <2> HIDE DEF measured
  <2>10. /\ u >= MapThenSumSet(holesOf, measured) /\ m >= Max(lengths)
         /\ wTouched = {} => /\ u = MapThenSumSet(holesOf, measured) /\ m = Max(lengths)
                             /\ measured # {} => wOut.mean = 1
    BY <2>3, <2>4, <2>7, <2>8, <2>9
  <2> QED BY <2>10, Zenon DEF ExtentsExact, measured, MaxOut
<1> QED BY <1>1, ExtentsInvariance, PTL
=============================================================================
