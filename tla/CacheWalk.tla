----------------------------- MODULE CacheWalk -----------------------------
(***************************************************************************)
(* The receivers oldestfile and fragmentation of knfsd-metrics-agent.      *)
(* Both walk the cache directory while cachefilesd creates, fills and      *)
(* culls files in it.                                                      *)
(*                                                                         *)
(* WalkDir lists a directory when it comes to it and looks at each entry   *)
(* later.  Names are arbitrary, so directories and entries come in any     *)
(* order.  The context is looked at after every so many entries; here it   *)
(* may end the walk at any.  A file is its modification time, which is the *)
(* time of its last change, and its extents, all of length one, of which   *)
(* some hold no data.  An entry that cannot be queried looks as if it had  *)
(* gone.                                                                   *)
(***************************************************************************)
EXTENDS Integers, Sequences, FiniteSets, FiniteSetsExt

CONSTANTS
  CacheFiles,   \* paths of files
  DirOf,        \* the directory of each
  InitialFiles, \* those in the cache at first
  MinFileSize,  \* min_file_size, in extents
  Batch,        \* fiemapExtentBatch
  MaxExtents, MaxChanges, MaxClock, MaxWalks

ASSUME CacheAssumption ==
  /\ IsFiniteSet(CacheFiles) /\ "" \notin CacheFiles /\ InitialFiles \subseteq CacheFiles
  /\ MinFileSize \in Nat /\ Batch \in Nat \ {0}

Dirs == {DirOf[f] : f \in CacheFiles}
NoFile == [path |-> "", mtime |-> 0]
NoExtents == [extents |-> 0, writtenBytes |-> 0, unwrittenBytes |-> 0]
NoMap == [path |-> "", blocks |-> 0, start |-> 1, info |-> NoExtents, deleted |-> {}]
NoStats == [files |-> 0, extents |-> 0, maxExtents |-> 0, allocatedBytes |-> 0,
            unwrittenBytes |-> 0]

VARIABLES
  cClock, cFiles,  \* the time, and the files there are
  cExists,         \* whether the cache directory does
  wReceiver,       \* the receiver that is looked at
  wPc,             \* the step of its scrape
  wDirs, wNames,   \* directories and listed entries still to come
  wFound,          \* found of findOldestFile
  wLast,           \* s.last
  wStats,          \* collected of collect
  wMap,            \* the file that mapExtents is at, the blocks it had, start and
                   \* info, and its extents if it was deleted since it was opened
  wOut,            \* what was emitted
  wBegan,          \* ghost: when the walk began that found wFound, wLast
  wTouched,        \* ghost: files changed during the walk of fragmentation
  wOldest,         \* ghost: the oldest modification time when the scrape began
  cChanges, wWalks

cacheVars == <<cClock, cFiles, cExists, cChanges>>
walkVars == <<wReceiver, wPc, wDirs, wNames, wFound, wLast, wStats, wMap, wOut, wBegan,
              wTouched, wOldest, wWalks>>
cacheWalkVars == <<cacheVars, walkVars>>

CacheWalkInit ==
  /\ cClock = 1 /\ cExists = TRUE /\ cChanges = 0
  /\ cFiles = [f \in InitialFiles |-> [mtime |-> 1, extents |-> <<TRUE, FALSE>>]]
  /\ wReceiver = "none" /\ wPc = "idle" /\ wDirs = {} /\ wNames = {} /\ wFound = NoFile
  /\ wLast = NoFile /\ wStats = NoStats /\ wOut = <<>> /\ wBegan = 0 /\ wTouched = {}
  /\ wMap = NoMap /\ wOldest = 0 /\ wWalks = 0

-----------------------------------------------------------------------------
(* cachefilesd and the file system. *)

Advance ==
  /\ cClock < MaxClock /\ cClock' = cClock + 1
  /\ UNCHANGED <<cFiles, cExists, cChanges, walkVars>>

Change(f, files) ==
  /\ cChanges < MaxChanges /\ cChanges' = cChanges + 1
  /\ cFiles' = files
  /\ wTouched' = IF wReceiver = "fragmentation" THEN wTouched \cup {f} ELSE {}
  /\ UNCHANGED <<cClock, cExists, wReceiver, wPc, wDirs, wNames, wFound, wLast, wStats,
                 wOut, wBegan, wOldest, wWalks>>

\* The file f is created with an extent, or gets one more; hole tells that it
\* holds no data.
WriteFile(f, hole) ==
  LET old == IF f \in DOMAIN cFiles THEN cFiles[f].extents ELSE <<>>
      new == [mtime |-> cClock, extents |-> Append(old, hole)]
  IN
  /\ cExists /\ Len(old) < MaxExtents
  /\ Change(f, [g \in DOMAIN cFiles \cup {f} |-> IF g = f THEN new ELSE cFiles[g]])
  /\ UNCHANGED wMap

\* A file that is open keeps its extents.
CullFile(f) ==
  /\ f \in DOMAIN cFiles
  /\ Change(f, [g \in DOMAIN cFiles \ {f} |-> cFiles[g]])
  /\ wMap' = IF wMap.path = f /\ wMap.deleted = {}
             THEN [wMap EXCEPT !.deleted = {cFiles[f].extents}] ELSE wMap

\* The file system of the cache is unmounted.
LoseCache ==
  /\ cExists /\ cExists' = FALSE /\ cFiles' = <<>>
  /\ wTouched' = IF wReceiver = "fragmentation" THEN CacheFiles ELSE {}
  /\ UNCHANGED <<cClock, cChanges, wReceiver, wPc, wDirs, wNames, wFound, wLast, wStats,
                 wMap, wOut, wBegan, wOldest, wWalks>>

-----------------------------------------------------------------------------
(* The walk. *)

StartWalk ==
  /\ wPc' = "walk" /\ wDirs' = Dirs /\ wNames' = {}
  /\ wFound' = NoFile /\ wStats' = NoStats
  /\ wBegan' = cClock /\ wTouched' = {}

ListDir(d) ==
  /\ wPc = "walk" /\ wNames = {} /\ d \in wDirs
  /\ wDirs' = wDirs \ {d}
  /\ wNames' = {f \in DOMAIN cFiles : DirOf[f] = d}
  /\ UNCHANGED <<cacheVars, wReceiver, wPc, wFound, wLast, wStats, wMap, wOut, wBegan,
                 wTouched, wOldest, wWalks>>

\* oldestfile: an older file replaces the one found.
VisitOldest(f) ==
  wFound' = IF f \in DOMAIN cFiles
               /\ (wFound = NoFile \/ cFiles[f].mtime < wFound.mtime)
            THEN [path |-> f, mtime |-> cFiles[f].mtime] ELSE wFound

Visit(f) ==
  /\ wPc = "walk" /\ f \in wNames
  /\ wNames' = wNames \ {f}
  /\ IF wReceiver = "oldestfile" THEN
       VisitOldest(f) /\ UNCHANGED <<wPc, wStats, wMap>>
     ELSE IF f \notin DOMAIN cFiles \/ Len(cFiles[f].extents) < MinFileSize THEN
       UNCHANGED <<wPc, wFound, wStats, wMap>>
     ELSE
       /\ wPc' = "map"
       /\ wMap' = [NoMap EXCEPT !.path = f, !.blocks = Len(cFiles[f].extents)]
       /\ UNCHANGED <<wFound, wStats>>
  /\ UNCHANGED <<cacheVars, wReceiver, wDirs, wLast, wOut, wBegan, wTouched, wOldest, wWalks>>

\* The context's error ends the walk.  Nothing is emitted, and oldestfile
\* forgets the file it knew.
AbortWalk ==
  /\ wPc = "walk" /\ wNames # {}
  /\ wPc' = "idle" /\ wNames' = {} /\ wDirs' = {} /\ wFound' = NoFile /\ wStats' = NoStats
  /\ wLast' = NoFile /\ wOut' = <<>>
  /\ UNCHANGED <<cacheVars, wReceiver, wMap, wBegan, wTouched, wOldest, wWalks>>

-----------------------------------------------------------------------------
(* oldestfile/scraper.go *)

\* Mutant: a file that still exists is taken for the oldest though it was
\* written to.
stillOldestByName == wLast # NoFile /\ wLast.path \in DOMAIN cFiles

\* The oldest file of the scrape before is as it was.
stillOldest ==
  wLast # NoFile /\ wLast.path \in DOMAIN cFiles /\ cFiles[wLast.path].mtime = wLast.mtime

\* findOldest reports an age, zero if there is no file.
ReportOldest(oldest) ==
  /\ wLast' = oldest /\ wPc' = "idle"
  /\ wOut' = [path |-> oldest.path, mtime |-> oldest.mtime,
              age |-> IF oldest = NoFile THEN 0 ELSE cClock - oldest.mtime]

\* Without the cache directory the process ends.
ScrapeOldest ==
  /\ wReceiver = "oldestfile" /\ wPc = "idle" /\ wWalks < MaxWalks
  /\ wWalks' = wWalks + 1
  /\ wOldest' = Min({cClock} \cup {cFiles[f].mtime : f \in DOMAIN cFiles})
  /\ IF stillOldest THEN
       ReportOldest(wLast) /\ UNCHANGED <<wDirs, wNames, wFound, wStats, wBegan, wTouched>>
     ELSE IF ~cExists THEN
       /\ wPc' = "exited" /\ wOut' = <<>>
       /\ UNCHANGED <<wDirs, wNames, wFound, wStats, wLast, wBegan, wTouched>>
     ELSE StartWalk /\ wOut' = <<>> /\ UNCHANGED wLast
  /\ UNCHANGED <<cacheVars, wReceiver, wMap>>

FoundOldest ==
  /\ wReceiver = "oldestfile" /\ wPc = "walk" /\ wDirs = {} /\ wNames = {}
  /\ ReportOldest(wFound) /\ wFound' = NoFile
  /\ UNCHANGED <<cacheVars, wReceiver, wDirs, wNames, wStats, wMap, wBegan, wTouched,
                 wOldest, wWalks>>

-----------------------------------------------------------------------------
(* fragmentation/scraper.go *)

\* Mutant: the next batch begins with the last extent of this one.
fiemapOverlapping(extents, start) ==
  LET to == Min({Len(extents), start + Batch - 1}) IN
  [mapped |-> SubSeq(extents, start, to), last |-> to = Len(extents), next |-> to]

\* An ioctl FIEMAP from offset start: up to Batch extents, and where to go on.
fiemap(extents, start) ==
  LET to == Min({Len(extents), start + Batch - 1}) IN
  [mapped |-> SubSeq(extents, start, to), last |-> to = Len(extents), next |-> to + 1]

addExtents(info, mapped) ==
  LET holes == Cardinality({i \in DOMAIN mapped : mapped[i]}) IN
  [extents |-> info.extents + Len(mapped),
   writtenBytes |-> info.writtenBytes + Len(mapped) - holes,
   unwrittenBytes |-> info.unwrittenBytes + holes]

addStats(st, info, blocks) ==
  [files |-> st.files + 1, extents |-> st.extents + info.extents,
   maxExtents |-> Max({st.maxExtents, info.extents}),
   allocatedBytes |-> st.allocatedBytes + blocks,
   unwrittenBytes |-> st.unwrittenBytes + info.unwrittenBytes]

\* One round of the loop of mapExtents.  A file that cannot be opened or mapped
\* is left out.
MapExtents ==
  LET f == wMap.path
      extents == IF wMap.deleted # {} THEN CHOOSE e \in wMap.deleted : TRUE
                 ELSE cFiles[f].extents
      b == fiemap(extents, wMap.start)
      info == addExtents(wMap.info, b.mapped)
  IN
  /\ wPc = "map"
  /\ \/ /\ f \in DOMAIN cFiles \/ wMap.deleted # {}
        /\ IF b.last \/ b.mapped = <<>>
           THEN /\ wStats' = addStats(wStats, info, wMap.blocks)
                /\ wPc' = "walk" /\ wMap' = NoMap
           ELSE /\ wMap' = [wMap EXCEPT !.start = b.next, !.info = info]
                /\ UNCHANGED <<wStats, wPc>>
        /\ UNCHANGED wTouched
     \/ /\ wPc' = "walk" /\ wMap' = NoMap /\ wTouched' = wTouched \cup {f}
        /\ UNCHANGED wStats
  /\ UNCHANGED <<cacheVars, wReceiver, wDirs, wNames, wFound, wLast, wOut, wBegan, wOldest,
                 wWalks>>

\* A cache directory that is not there emits nothing.
ScrapeFragmentation ==
  /\ wReceiver = "fragmentation" /\ wPc = "idle" /\ wWalks < MaxWalks
  /\ wWalks' = wWalks + 1 /\ wOut' = <<>>
  /\ IF cExists THEN StartWalk
     ELSE UNCHANGED <<wPc, wDirs, wNames, wFound, wStats, wBegan, wTouched>>
  /\ UNCHANGED <<cacheVars, wReceiver, wLast, wMap, wOldest>>

EmitFragmentation ==
  /\ wReceiver = "fragmentation" /\ wPc = "walk" /\ wDirs = {} /\ wNames = {}
  /\ wOut' = IF wStats.files > 0 /\ wStats.extents > 0
             THEN [unwritten |-> wStats.unwrittenBytes, max |-> wStats.maxExtents,
                   mean |-> wStats.allocatedBytes \div wStats.extents]
             ELSE [unwritten |-> wStats.unwrittenBytes]
  /\ wPc' = "idle" /\ wStats' = NoStats
  /\ UNCHANGED <<cacheVars, wReceiver, wDirs, wNames, wFound, wLast, wMap, wBegan, wTouched,
                 wOldest, wWalks>>

StartReceiver(r) ==
  /\ wReceiver = "none" /\ wReceiver' = r
  /\ UNCHANGED <<cacheVars, wPc, wDirs, wNames, wFound, wLast, wStats, wMap, wOut, wBegan,
                 wTouched, wOldest, wWalks>>

CacheWalkNext ==
  \/ \E r \in {"oldestfile", "fragmentation"} : StartReceiver(r)
  \/ \E f \in CacheFiles : Visit(f) \/ CullFile(f) \/ \E h \in BOOLEAN : WriteFile(f, h)
  \/ \E d \in Dirs : ListDir(d)
  \/ Advance \/ LoseCache \/ AbortWalk \/ ScrapeOldest \/ FoundOldest
  \/ MapExtents \/ ScrapeFragmentation \/ EmitFragmentation

-----------------------------------------------------------------------------
(* Properties. *)

\* The age that oldestfile reports is that of the oldest file, up to the length
\* of the walk that found it: it is not older than any file of the cache was when
\* the scrape began, and every file that is older was created or written after that
\* walk had begun.  The shortcut of findOldestFile keeps this from scrape to
\* scrape, whatever is created, written to or culled meanwhile.
OldestHonest ==
  wReceiver = "oldestfile" /\ wPc = "idle" /\ wOut # <<>> =>
    /\ wOut.path # "" => wOut.mtime >= wOldest
    /\ \A f \in DOMAIN cFiles :
         \/ cFiles[f].mtime >= wBegan
         \/ wOut.path # "" /\ cFiles[f].mtime >= wOut.mtime

holesOf(f) == Cardinality({i \in DOMAIN cFiles[f].extents : cFiles[f].extents[i]})

\* The totals of fragmentation have every file that was not touched during the
\* walk, each of its extents once, however they fall into batches (mapExtents); if
\* no file was, they have nothing else; and a walk that was cut short emits nothing.
ExtentsExact ==
  wReceiver = "fragmentation" /\ wPc = "idle" /\ wOut # <<>> =>
    LET measured == {f \in DOMAIN cFiles \ wTouched : Len(cFiles[f].extents) >= MinFileSize}
        most == Max({0} \cup {Len(cFiles[f].extents) : f \in measured})
        holes == MapThenSumSet(holesOf, measured)
        max == IF "max" \in DOMAIN wOut THEN wOut.max ELSE 0
    IN /\ wOut.unwritten >= holes /\ max >= most
       /\ wTouched = {} => /\ wOut.unwritten = holes /\ max = most
                           /\ measured # {} => wOut.mean = 1
=============================================================================
