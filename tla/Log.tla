--------------------------------- MODULE Log ---------------------------------
(***************************************************************************)
(* utils/log.cpp: log lines of the game thread and of worker threads go     *)
(* through the engine's LoggingSystem to a listener that mirrors them to a  *)
(* file, while the game thread toggles it, purges old files and shuts it    *)
(* down, and days pass.  The engine is external: it calls a registered      *)
(* listener on the thread that logs, with or without a lock of its own      *)
(* ("may lock around the listener", log.cpp:32).                            *)
(***************************************************************************)
EXTENDS Naturals, FiniteSets

CONSTANTS
  Workers,        \* threads that log
  Game,           \* the game thread
  NewFilePerDay,  \* Setup::newFilePerDay
  MaxDays,        \* bound: days that pass
  MaxLoads,       \* bound: Init is called so often
  Retentions      \* values of retentionDays

Nobody == 0

ASSUME LogAssumption ==
  /\ Game \notin Workers
  /\ Nobody \notin Workers \cup {Game}
  /\ NewFilePerDay \in BOOLEAN
  /\ MaxDays \in Nat \ {0} /\ MaxLoads \in Nat
  /\ Retentions \subseteq Nat

Threads == Workers \cup {Game}
Days == 1 .. MaxDays
Names == 0 .. MaxDays  \* <addon>.log, and the day's <addon>_YYYY-MM-DD.log
Closed == MaxDays + 1

VARIABLES
  serialises, \* the engine holds a lock around listeners and their list
  engineLock, \* who holds it
  fileMutex,  \* g_fileMutex
  pc,         \* where each thread is
  channel,    \* g_channel is valid
  registered, \* g_listenerRegistered, and the engine's list
  toFile,     \* g_toFile
  retention,  \* g_setup.retentionDays
  file,       \* the name of g_file, or Closed
  linked,     \* that file is still in the directory
  stamp,      \* the day each thread read for its line
  disk,       \* per name, the day of its last write, 0 when there is none
  entry,      \* PurgeOldLogs: the names to look at, the one it looks at
  loads,      \* how often Init was called
  day,
  strays,     \* observer: per file, lines of a later day
  lost        \* observer: a line is gone that should have been kept

engine == <<serialises, engineLock, registered>>
setup == <<channel, toFile, retention, loads>>
files == <<file, linked, disk>>
seen == <<strays, lost>>
vars == <<engine, fileMutex, pc, setup, files, stamp, entry, day, seen>>

NoEntry == [left |-> {}, name |-> 0]

Init ==
  /\ serialises \in BOOLEAN
  /\ engineLock = Nobody /\ fileMutex = Nobody
  /\ pc = [t \in Threads |-> IF t = Game THEN "unloaded" ELSE "idle"]
  /\ channel = FALSE /\ registered = FALSE /\ toFile = FALSE
  /\ retention = 0
  /\ file = Closed /\ linked = FALSE
  /\ stamp = [t \in Threads |-> 0]
  /\ disk = [n \in Names |-> 0]
  /\ entry = NoEntry
  /\ loads = 0
  /\ day = 1
  /\ strays = [n \in Names |-> 0]
  /\ lost = FALSE

At(t, from, to) == pc[t] = from /\ pc' = [pc EXCEPT ![t] = to]

\* Midnight.  Nobody takes a whole day from the look at the date to the write.
NextDay ==
  /\ day < MaxDays
  /\ \A t \in Threads : pc[t] \in {"open", "stamped"} /\ NewFilePerDay => file = day
  /\ day' = day + 1
  /\ UNCHANGED <<engine, fileMutex, pc, setup, files, stamp, entry, seen>>

-----------------------------------------------------------------------------
(* A log line: the macros, LoggingSystem_Log, and FileListener::Log. *)

\* Ready.  Without a lock in the engine, workers are joined before Shutdown.
Ready(t) ==
  /\ channel
  /\ serialises \/ t = Game \/ pc[Game] \notin {"unregister", "close", "invalidate"}
  /\ At(t, "idle", "log")
  /\ UNCHANGED <<engine, fileMutex, setup, files, stamp, entry, day, seen>>

\* LoggingSystem_Log(Channel(), ...), to the listeners that are registered.
Enter(t) ==
  /\ serialises => engineLock = Nobody
  /\ IF channel /\ registered
       THEN At(t, "log", "listener") /\ engineLock' = IF serialises THEN t ELSE Nobody
       ELSE At(t, "log", "idle") /\ UNCHANGED engineLock
  /\ UNCHANGED <<serialises, registered, fileMutex, setup, files, stamp, entry, day, seen>>

LeaveEngine(t) == engineLock' = IF engineLock = t THEN Nobody ELSE engineLock

\* g_channel is read without the mutex.
Test(t) ==
  /\ IF channel THEN At(t, "listener", "tested") /\ UNCHANGED engineLock
                ELSE At(t, "listener", "idle") /\ LeaveEngine(t)
  /\ UNCHANGED <<serialises, registered, fileMutex, setup, files, stamp, entry, day, seen>>

Lock(t) ==
  /\ fileMutex = Nobody
  /\ fileMutex' = t
  /\ At(t, "tested", "locked")
  /\ UNCHANGED <<engine, setup, files, stamp, entry, day, seen>>

NameNow == IF NewFilePerDay THEN day ELSE 0

\* Mutant: the file of the day before stays open.
SameFile == file /= Closed

\* An open file is used again on the day it was named after.
StillCurrent == file /= Closed /\ (NewFilePerDay => file = day)

\* Up to OpenFile, whose directory or file may fail.
Open(t) ==
  /\ pc[t] = "locked"
  /\ \E fails \in BOOLEAN :
       LET writes == toFile /\ (StillCurrent \/ ~fails)
       IN /\ pc' = [pc EXCEPT ![t] = IF writes THEN "open" ELSE "idle"]
          /\ IF writes THEN UNCHANGED <<fileMutex, engineLock>>
                       ELSE fileMutex' = Nobody /\ LeaveEngine(t)
          /\ IF ~toFile \/ StillCurrent THEN UNCHANGED files
             ELSE IF fails THEN file' = Closed /\ linked' = FALSE /\ UNCHANGED disk
             ELSE /\ file' = NameNow /\ linked' = TRUE
                  /\ disk' = [disk EXCEPT ![NameNow] = IF @ = 0 THEN day ELSE @]
  /\ UNCHANGED <<serialises, registered, setup, stamp, entry, day, seen>>

Stamp(t) ==
  /\ At(t, "open", "stamped")
  /\ stamp' = [stamp EXCEPT ![t] = day]
  /\ UNCHANGED <<engine, fileMutex, setup, files, entry, day, seen>>

Write(t) ==
  /\ At(t, "stamped", "idle")
  /\ disk' = IF linked THEN [disk EXCEPT ![file] = day] ELSE disk
  /\ lost' = (lost \/ (~linked /\ (NewFilePerDay => stamp[t] = file)))
  /\ strays' = [strays EXCEPT ![file] =
                  IF file /= 0 /\ stamp[t] > file /\ @ < 2 THEN @ + 1 ELSE @]
  /\ stamp' = [stamp EXCEPT ![t] = 0]
  /\ fileMutex' = Nobody /\ LeaveEngine(t)
  /\ UNCHANGED <<serialises, registered, setup, file, linked, entry, day>>

-----------------------------------------------------------------------------
(* Init, SetToFile and SetRetentionDays, on the game thread. *)

\* The block under the mutex, and the channel.
InitSetup ==
  /\ loads < MaxLoads
  /\ \A w \in Workers : pc[w] = "idle"
  /\ fileMutex = Nobody
  /\ At(Game, "unloaded", "register")
  /\ loads' = loads + 1
  /\ toFile' \in BOOLEAN
  /\ retention' \in Retentions
  /\ channel' = TRUE
  /\ UNCHANGED <<engine, fileMutex, files, stamp, entry, day, seen>>

\* The directory_iterator.
Listed == {n \in Names : disk[n] /= 0}

InitRegister ==
  /\ serialises => engineLock = Nobody
  /\ At(Game, "register", "purge")
  /\ registered' = TRUE
  /\ entry' = [left |-> IF retention = 0 THEN {} ELSE Listed, name |-> 0]
  /\ UNCHANGED <<serialises, engineLock, fileMutex, setup, files, stamp, day, seen>>

CloseFile == file' = Closed /\ linked' = FALSE /\ UNCHANGED disk

SetToFile(enable) ==
  /\ pc[Game] = "idle"
  /\ fileMutex = Nobody
  /\ toFile' = enable
  /\ IF enable THEN UNCHANGED files ELSE CloseFile
  /\ UNCHANGED <<engine, fileMutex, pc, channel, retention, loads, stamp, entry, day, seen>>

SetRetentionDays(days) ==
  /\ At(Game, "idle", "purge")
  /\ retention' = days
  /\ entry' = [left |-> IF days = 0 THEN {} ELSE Listed, name |-> 0]
  /\ UNCHANGED <<engine, fileMutex, channel, toFile, loads, files, stamp, day, seen>>

\* Mutant: the cutoff is a day late.
OldADayEarly(n) == disk[n] + retention <= day + 1

\* A last write on the cutoff's day is before or after it.
Old(n) == disk[n] + retention <= day

\* PurgeOldLogs, an entry at a time: its age is read, then it is removed.
PurgeLook ==
  /\ \E n \in entry.left :
       /\ entry' = [left |-> entry.left \ {n}, name |-> n]
       /\ \/ disk[n] /= 0 /\ Old(n) /\ At(Game, "purge", "remove")
          \/ (disk[n] = 0 \/ disk[n] + retention >= day) /\ At(Game, "purge", "purge")
  /\ UNCHANGED <<engine, fileMutex, setup, files, stamp, day, seen>>

\* The day of the last line of a file, not counting one that midnight overtook.
LastLine(n) == IF NewFilePerDay THEN n ELSE disk[n]

\* An open file that is unlinked can still be written.
PurgeRemove ==
  /\ At(Game, "remove", "purge")
  /\ LET n == entry.name
     IN /\ lost' = (lost \/ LastLine(n) + retention > day)
        /\ disk' = [disk EXCEPT ![n] = 0]
        /\ linked' = (linked /\ file /= n)
  /\ UNCHANGED <<engine, fileMutex, setup, file, stamp, entry, day, strays>>

PurgeEnd ==
  /\ entry.left = {}
  /\ At(Game, "purge", "idle")
  /\ entry' = NoEntry
  /\ UNCHANGED <<engine, fileMutex, setup, files, stamp, day, seen>>

-----------------------------------------------------------------------------
(* Shutdown. *)

ShutdownBegin ==
  /\ serialises \/ \A w \in Workers : pc[w] = "idle"
  /\ At(Game, "idle", "unregister")
  /\ UNCHANGED <<engine, fileMutex, setup, files, stamp, entry, day, seen>>

\* Mutant: the mutex is held across the LoggingSystem call.
UnregisterLocked ==
  \/ /\ At(Game, "unregister", "close")
     /\ engineLock = Nobody /\ fileMutex = Game
     /\ registered' = FALSE /\ fileMutex' = Nobody
     /\ UNCHANGED <<serialises, engineLock, setup, files, stamp, entry, day, seen>>
  \/ /\ pc[Game] = "unregister" /\ fileMutex = Nobody
     /\ fileMutex' = Game
     /\ UNCHANGED <<engine, pc, setup, files, stamp, entry, day, seen>>

Unregister ==
  /\ serialises => engineLock = Nobody
  /\ At(Game, "unregister", "close")
  /\ registered' = FALSE
  /\ UNCHANGED <<serialises, engineLock, fileMutex, setup, files, stamp, entry, day, seen>>

Close ==
  /\ fileMutex = Nobody
  /\ At(Game, "close", "invalidate")
  /\ CloseFile
  /\ UNCHANGED <<engine, fileMutex, setup, stamp, entry, day, seen>>

Invalidate ==
  /\ At(Game, "invalidate", "unloaded")
  /\ channel' = FALSE
  /\ UNCHANGED <<engine, fileMutex, toFile, retention, loads, files, stamp, entry, day, seen>>

-----------------------------------------------------------------------------
LogLine(t) == Ready(t) \/ Enter(t) \/ Test(t) \/ Lock(t) \/ Open(t) \/ Stamp(t) \/ Write(t)
Start == InitSetup \/ InitRegister
Purge == PurgeLook \/ PurgeRemove \/ PurgeEnd

\* Mutant: the file is closed while the listener is registered.
ClosesFirst ==
  \/ /\ fileMutex = Nobody
     /\ At(Game, "unregister", "close")
     /\ CloseFile
     /\ UNCHANGED <<engine, fileMutex, setup, stamp, entry, day, seen>>
  \/ /\ serialises => engineLock = Nobody
     /\ At(Game, "close", "invalidate")
     /\ registered' = FALSE
     /\ UNCHANGED <<serialises, engineLock, fileMutex, setup, files, stamp, entry, day, seen>>
  \/ Invalidate

Shutdown == Unregister \/ Close \/ Invalidate

Next ==
  \/ NextDay
  \/ \E t \in Threads : LogLine(t)
  \/ Start \/ Purge
  \/ \E enable \in BOOLEAN : SetToFile(enable)
  \/ \E days \in Retentions : SetRetentionDays(days)
  \/ ShutdownBegin \/ Shutdown

Spec == Init /\ [][Next]_vars

\* A thread that runs goes on, and one that waits for a lock that is released
\* again and again gets it.
FairSpec ==
  /\ Spec
  /\ \A t \in Threads : SF_vars(LogLine(t))
  /\ SF_vars(Shutdown)

-----------------------------------------------------------------------------
InListener == {"listener", "tested", "locked", "open", "stamped"}

TypeOK ==
  /\ {serialises, channel, registered, toFile, linked, lost} \subseteq BOOLEAN
  /\ {engineLock, fileMutex} \subseteq Threads \cup {Nobody}
  /\ pc \in [Threads -> InListener \cup {"unloaded", "idle", "log", "register",
               "purge", "remove", "unregister", "close", "invalidate"}]
  /\ retention \in {0} \cup Retentions
  /\ file \in Names \cup {Closed}
  /\ stamp \in [Threads -> {0} \cup Days] /\ disk \in [Names -> {0} \cup Days]
  /\ entry \in [left : SUBSET Names, name : Names]
  /\ loads \in 0 .. MaxLoads /\ day \in Days
  /\ strays \in [Names -> 0 .. 2]

\* After Shutdown the file is closed, stays closed, and no thread is in the
\* listener, although it tests g_channel without the mutex (log.cpp:146,
\* log.h:46): on an engine that locks around the listener whatever workers do,
\* on one that does not because they were joined.
QuietAfterShutdown ==
  pc[Game] = "unloaded" => file = Closed /\ \A t \in Threads : pc[t] \notin InListener

\* The file of a day has the lines of that day and at most one that midnight
\* overtook between the look at the date and the stamp (log.cpp:157-169).
OneStrayAtMidnight == \A n \in Names : strays[n] <= 1

\* No line of the day is written to a file that was removed, and none is removed
\* before retentionDays are over, although PurgeOldLogs looks and removes
\* without the mutex while workers write (log.cpp:126-133, log.h:30).  It needs
\* a file per day, and more than one day to keep.
LinesAreKept == ~lost

\* Shutdown returns: it never waits for a worker that waits for it.
ShutdownReturns == (pc[Game] = "unregister") ~> (pc[Game] = "unloaded")
=============================================================================
