------------------------------ MODULE LogProofs ------------------------------
(***************************************************************************)
(* Theorems of Log, for any workers, days, loads and retentions, on an      *)
(* engine that locks around its listeners and on one that does not.         *)
(***************************************************************************)
EXTENDS Log, TLAPS

Writing == {"locked", "open", "stamped"}
Labels == InListener \cup {"unloaded", "idle", "log", "register", "purge", "remove",
                           "unregister", "close", "invalidate"}

USE DEF Threads, Writing, Labels, InListener, Nobody

-----------------------------------------------------------------------------
(* Types. *)

LEMMA TypeInit == Init => TypeOK
<1> SUFFICES ASSUME Init PROVE TypeOK
  OBVIOUS
<1>1. day \in Days /\ loads \in 0 .. MaxLoads /\ 0 \in Names
  BY LogAssumption DEF Init, Days, Names
<1>2. pc \in [Threads -> Labels]
  BY DEF Init
<1>3. stamp \in [Threads -> {0} \cup Days] /\ disk \in [Names -> {0} \cup Days]
  BY DEF Init
<1>4. strays \in [Names -> 0 .. 2]
  BY DEF Init
<1>5. entry \in [left : SUBSET Names, name : Names]
  BY <1>1 DEF Init, NoEntry
<1> QED
  BY <1>1, <1>2, <1>3, <1>4, <1>5 DEF Init, TypeOK

\* A step of one thread keeps the type of pc.
LEMMA AtTypes ==
  ASSUME NEW t \in Threads, NEW from, NEW to \in Labels, TypeOK, At(t, from, to)
  PROVE  pc' \in [Threads -> Labels]
BY DEF At, TypeOK

LEMMA LineTypes == ASSUME TypeOK, NEW t \in Threads, LogLine(t) PROVE TypeOK'
<1>1. CASE Ready(t)
  BY <1>1, AtTypes DEF Ready, TypeOK, engine, setup, files, seen
<1>2. CASE Enter(t)
  BY <1>2, AtTypes DEF Enter, TypeOK, setup, files, seen
<1>3. CASE Test(t)
  BY <1>3, AtTypes DEF Test, LeaveEngine, TypeOK, setup, files, seen
<1>4. CASE Lock(t)
  BY <1>4, AtTypes DEF Lock, TypeOK, engine, setup, files, seen
<1>5. CASE Open(t)
  <2>1. PICK fails \in BOOLEAN :
          LET writes == toFile /\ (StillCurrent \/ ~fails)
          IN /\ pc' = [pc EXCEPT ![t] = IF writes THEN "open" ELSE "idle"]
             /\ IF writes THEN UNCHANGED <<fileMutex, engineLock>>
                          ELSE fileMutex' = Nobody /\ LeaveEngine(t)
             /\ IF ~toFile \/ StillCurrent THEN UNCHANGED files
                ELSE IF fails THEN file' = Closed /\ linked' = FALSE /\ UNCHANGED disk
                ELSE /\ file' = NameNow /\ linked' = TRUE
                     /\ disk' = [disk EXCEPT ![NameNow] = IF @ = 0 THEN day ELSE @]
    BY <1>5 DEF Open
  <2>2. NameNow \in Names
    BY LogAssumption DEF NameNow, TypeOK, Days, Names
  <2>3. file' \in Names \cup {Closed} /\ linked' \in BOOLEAN
        /\ disk' \in [Names -> {0} \cup Days]
    BY <2>1, <2>2 DEF TypeOK, files
  <2>4. pc' \in [Threads -> Labels]
    BY <2>1 DEF TypeOK
  <2>5. engineLock' \in Threads \cup {Nobody} /\ fileMutex' \in Threads \cup {Nobody}
    BY <2>1 DEF LeaveEngine, TypeOK
  <2>6. UNCHANGED <<serialises, registered, setup, stamp, entry, day, seen>>
    BY <1>5 DEF Open
  <2> QED
    BY <2>3, <2>4, <2>5, <2>6 DEF TypeOK, setup, seen
<1>6. CASE Stamp(t)
  BY <1>6, AtTypes DEF Stamp, TypeOK, engine, setup, files, seen
<1>7. CASE Write(t)
  <2>1. pc' \in [Threads -> Labels]
    BY <1>7, AtTypes DEF Write
  <2>2. disk' \in [Names -> {0} \cup Days] /\ stamp' \in [Threads -> {0} \cup Days]
    BY <1>7 DEF Write, TypeOK
  <2>3. strays' \in [Names -> 0 .. 2]
    <3>1. strays' = [strays EXCEPT ![file] =
                       IF file /= 0 /\ stamp[t] > file /\ strays[file] < 2
                         THEN strays[file] + 1 ELSE strays[file]]
      BY <1>7 DEF Write
    <3>2. file \in Names => strays[file] \in 0 .. 2
      BY DEF TypeOK
    <3>3. file \in Names => (strays[file] < 2 => strays[file] + 1 \in 0 .. 2)
      BY <3>2
    <3> QED
      BY <3>1, <3>2, <3>3 DEF TypeOK
  <2>4. engineLock' \in Threads \cup {Nobody} /\ fileMutex' = Nobody
    BY <1>7 DEF Write, LeaveEngine, TypeOK
  <2>5. lost' \in BOOLEAN
    BY <1>7 DEF Write
  <2> QED
    BY <1>7, <2>1, <2>2, <2>3, <2>4, <2>5 DEF Write, TypeOK, setup
<1> QED
  BY <1>1, <1>2, <1>3, <1>4, <1>5, <1>6, <1>7 DEF LogLine

LEMMA GameTypes ==
  ASSUME TypeOK,
         \/ Start \/ Purge \/ ShutdownBegin \/ Shutdown
         \/ \E enable \in BOOLEAN : SetToFile(enable)
         \/ \E days \in Retentions : SetRetentionDays(days)
  PROVE  TypeOK'
<1> DEFINE E == [left : SUBSET Names, name : Names]
<1>0. 0 \in Names /\ Listed \subseteq Names
  BY LogAssumption DEF Names, Listed
<1>1. CASE InitSetup
  BY <1>1, AtTypes, LogAssumption DEF InitSetup, TypeOK, engine, files, seen
<1>2. CASE InitRegister
  <2>1. entry' \in E
    BY <1>0, <1>2 DEF InitRegister
  <2> QED
    BY <1>2, <2>1, AtTypes DEF InitRegister, TypeOK, setup, files, seen
<1>3. CASE \E enable \in BOOLEAN : SetToFile(enable)
  BY <1>3 DEF SetToFile, CloseFile, TypeOK, engine, files, seen
<1>4. CASE \E days \in Retentions : SetRetentionDays(days)
  <2>1. entry' \in E
    BY <1>0, <1>4 DEF SetRetentionDays
  <2> QED
    BY <1>4, <2>1, AtTypes DEF SetRetentionDays, TypeOK, engine, files, seen
<1>5. CASE PurgeLook
  <2>1. entry' \in E
    BY <1>5 DEF PurgeLook, TypeOK
  <2>2. pc' \in [Threads -> Labels]
    BY <1>5, AtTypes DEF PurgeLook
  <2> QED
    BY <1>5, <2>1, <2>2 DEF PurgeLook, TypeOK, engine, setup, files, seen
<1>6. CASE PurgeRemove
  <2>1. disk' \in [Names -> {0} \cup Days] /\ lost' \in BOOLEAN /\ linked' \in BOOLEAN
    BY <1>6 DEF PurgeRemove, TypeOK
  <2> QED
    BY <1>6, <2>1, AtTypes DEF PurgeRemove, TypeOK, engine, setup
<1>7. CASE PurgeEnd
  BY <1>0, <1>7, AtTypes DEF PurgeEnd, NoEntry, TypeOK, engine, setup, files, seen
<1>8. CASE ShutdownBegin
  BY <1>8, AtTypes DEF ShutdownBegin, TypeOK, engine, setup, files, seen
<1>9. CASE Shutdown
  <2>1. CASE Unregister
    BY <2>1, AtTypes DEF Unregister, TypeOK, setup, files, seen
  <2>2. CASE Close
    BY <2>2, AtTypes DEF Close, CloseFile, TypeOK, engine, setup, seen
  <2>3. CASE Invalidate
    BY <2>3, AtTypes DEF Invalidate, TypeOK, engine, files, seen
  <2> QED
    BY <1>9, <2>1, <2>2, <2>3 DEF Shutdown
<1> QED
  BY <1>1, <1>2, <1>3, <1>4, <1>5, <1>6, <1>7, <1>8, <1>9 DEF Start, Purge

LEMMA TypeNext == TypeOK /\ [Next]_vars => TypeOK'
<1> SUFFICES ASSUME TypeOK, [Next]_vars PROVE TypeOK'
  OBVIOUS
<1>1. CASE NextDay
  BY <1>1, LogAssumption DEF NextDay, TypeOK, Days, engine, setup, files, seen
<1>2. ASSUME NEW t \in Threads, LogLine(t) PROVE TypeOK'
  BY <1>2, LineTypes
<1>3. CASE UNCHANGED vars
  BY <1>3 DEF vars, TypeOK, engine, setup, files, seen
<1> QED
  BY <1>1, <1>2, <1>3, GameTypes DEF Next

\* The statics of log.cpp keep their types over any number of loads.
THEOREM LogTypeCorrect == Spec => []TypeOK
BY TypeInit, TypeNext, PTL DEF Spec
-----------------------------------------------------------------------------
(* Who is in the listener. *)

\* g_fileMutex is held from the lock to the end of the line.
Exclusive == \A t \in Threads : pc[t] \in Writing => fileMutex = t

\* An engine with a lock holds it around the listener.
Serial == serialises => \A t \in Threads : pc[t] \in InListener => engineLock = t

\* On one without, workers are joined while the game thread shuts the log down.
Joined ==
  ~serialises /\ pc[Game] \in {"unregister", "close", "invalidate", "unloaded"} =>
    \A w \in Workers : pc[w] = "idle"

\* Once the listener is unregistered nobody is in it.
Unheard ==
  pc[Game] \in {"close", "invalidate", "unloaded", "register"} =>
    ~registered /\ \A t \in Threads : pc[t] \notin InListener

\* Once the file is closed it stays closed, until the next Init is through.
Shut ==
  /\ pc[Game] \in {"invalidate", "unloaded", "register"} => file = Closed
  /\ pc[Game] = "unloaded" => ~channel

QuietInv == TypeOK /\ Exclusive /\ Serial /\ Joined /\ Unheard /\ Shut
USE DEF QuietInv, Exclusive, Serial, Joined, Unheard, Shut

LEMMA QuietInit == Init => QuietInv
<1> SUFFICES ASSUME Init PROVE QuietInv
  OBVIOUS
<1>1. \A t \in Threads : pc[t] \in {"unloaded", "idle"}
  BY DEF Init
<1>2. \A w \in Workers : pc[w] = "idle"
  BY LogAssumption DEF Init
<1> QED
  BY <1>1, <1>2, TypeInit DEF Init

\* A step of one thread leaves the others where they are.
LEMMA AtOthers ==
  ASSUME NEW t \in Threads, NEW from, NEW to, TypeOK, At(t, from, to)
  PROVE  /\ pc[t] = from /\ pc'[t] = to
         /\ \A u \in Threads : u /= t => pc'[u] = pc[u]
BY DEF At, TypeOK

\* A thread that leaves the listener, or the mutex, leaves them to nobody else.
LEMMA LineQuiet == ASSUME QuietInv, NEW t \in Threads, LogLine(t) PROVE QuietInv'
<1>1. TypeOK'
  BY LineTypes
<1>2. CASE Ready(t)
  <2>1. At(t, "idle", "log") /\ UNCHANGED <<engine, fileMutex, file, channel>>
    BY <1>2 DEF Ready, setup, files
  <2>2. channel /\ (serialises \/ t = Game \/ pc[Game] \notin {"unregister", "close", "invalidate"})
    BY <1>2 DEF Ready
  <2> QED
    BY <1>1, <2>1, <2>2, AtOthers, LogAssumption DEF engine
<1>3. CASE Enter(t)
  <2>1. /\ \/ At(t, "log", "listener") /\ registered /\ (serialises => engineLock' = t)
           \/ At(t, "log", "idle") /\ UNCHANGED engineLock
        /\ serialises => engineLock = Nobody
        /\ UNCHANGED <<serialises, registered, fileMutex, file, channel>>
    BY <1>3 DEF Enter, setup, files
  <2> QED
    BY <1>1, <2>1, AtOthers, LogAssumption
<1>4. CASE Test(t)
  <2>1. /\ \/ At(t, "listener", "tested") /\ UNCHANGED engineLock
           \/ At(t, "listener", "idle") /\ LeaveEngine(t)
        /\ UNCHANGED <<serialises, registered, fileMutex, file, channel>>
    BY <1>4 DEF Test, setup, files
  <2> QED
    BY <1>1, <2>1, AtOthers, LogAssumption DEF LeaveEngine
<1>5. CASE Lock(t)
  <2>1. At(t, "tested", "locked") /\ fileMutex = Nobody /\ fileMutex' = t
        /\ UNCHANGED <<engine, file, channel>>
    BY <1>5 DEF Lock, setup, files
  <2> QED
    BY <1>1, <2>1, AtOthers, LogAssumption DEF engine
<1>6. CASE Open(t)
  <2>1. /\ pc[t] = "locked"
        /\ \/ At(t, "locked", "open") /\ UNCHANGED <<fileMutex, engineLock>>
           \/ At(t, "locked", "idle") /\ fileMutex' = Nobody /\ LeaveEngine(t)
        /\ UNCHANGED <<serialises, registered, channel>>
    BY <1>6 DEF Open, At, setup
  <2> QED
    BY <1>1, <2>1, AtOthers, LogAssumption DEF LeaveEngine
<1>7. CASE Stamp(t)
  <2>1. At(t, "open", "stamped") /\ UNCHANGED <<engine, fileMutex, file, channel>>
    BY <1>7 DEF Stamp, setup, files
  <2> QED
    BY <1>1, <2>1, AtOthers, LogAssumption DEF engine
<1>8. CASE Write(t)
  <2>1. At(t, "stamped", "idle") /\ fileMutex' = Nobody /\ LeaveEngine(t)
        /\ UNCHANGED <<serialises, registered, file, channel>>
    BY <1>8 DEF Write, setup
  <2> QED
    BY <1>1, <2>1, AtOthers, LogAssumption DEF LeaveEngine
<1> QED
  BY <1>2, <1>3, <1>4, <1>5, <1>6, <1>7, <1>8 DEF LogLine

LEMMA GameQuiet ==
  ASSUME QuietInv,
         \/ Start \/ Purge \/ ShutdownBegin \/ Shutdown
         \/ \E enable \in BOOLEAN : SetToFile(enable)
         \/ \E days \in Retentions : SetRetentionDays(days)
  PROVE  QuietInv'
<1>0. TypeOK' /\ Game \in Threads
  BY GameTypes
<1>1. CASE InitSetup
  <2>1. At(Game, "unloaded", "register") /\ UNCHANGED <<engine, fileMutex, file>>
    BY <1>1 DEF InitSetup, files
  <2> QED
    BY <1>0, <2>1, AtOthers DEF engine
<1>2. CASE InitRegister
  <2>1. At(Game, "register", "purge") /\ UNCHANGED <<serialises, engineLock, fileMutex, file>>
    BY <1>2 DEF InitRegister, files
  <2> QED
    BY <1>0, <2>1, AtOthers
<1>3. CASE \E enable \in BOOLEAN : SetToFile(enable)
  <2>1. pc[Game] = "idle" /\ UNCHANGED <<engine, fileMutex, pc, channel>>
    BY <1>3 DEF SetToFile
  <2> QED
    BY <1>0, <2>1 DEF engine
<1>4. CASE \E days \in Retentions : SetRetentionDays(days)
  <2>1. At(Game, "idle", "purge") /\ UNCHANGED <<engine, fileMutex>>
    BY <1>4 DEF SetRetentionDays
  <2> QED
    BY <1>0, <2>1, AtOthers DEF engine
<1>5. CASE Purge
  <2>1. /\ \E from \in {"purge", "remove"}, to \in {"purge", "remove", "idle"} : At(Game, from, to)
        /\ UNCHANGED <<engine, fileMutex>>
    BY <1>5 DEF Purge, PurgeLook, PurgeRemove, PurgeEnd
  <2> QED
    BY <1>0, <2>1, AtOthers DEF engine
<1>6. CASE ShutdownBegin
  <2>1. At(Game, "idle", "unregister") /\ UNCHANGED <<engine, fileMutex>>
        /\ (serialises \/ \A w \in Workers : pc[w] = "idle")
    BY <1>6 DEF ShutdownBegin
  <2> QED
    BY <1>0, <2>1, AtOthers, LogAssumption DEF engine
<1>7. CASE Unregister
  <2>1. /\ At(Game, "unregister", "close") /\ registered' = FALSE
        /\ serialises => engineLock = Nobody
        /\ UNCHANGED <<serialises, engineLock, fileMutex>>
    BY <1>7 DEF Unregister
  <2>2. \A t \in Threads : pc[t] \notin InListener
    BY <2>1, AtOthers, LogAssumption
  <2> QED
    BY <1>0, <2>1, <2>2, AtOthers, LogAssumption
<1>8. CASE Close
  <2>1. At(Game, "close", "invalidate") /\ file' = Closed /\ UNCHANGED <<engine, fileMutex>>
    BY <1>8 DEF Close, CloseFile
  <2> QED
    BY <1>0, <2>1, AtOthers, LogAssumption DEF engine
<1>9. CASE Invalidate
  <2>1. At(Game, "invalidate", "unloaded") /\ channel' = FALSE
        /\ UNCHANGED <<engine, fileMutex, file>>
    BY <1>9 DEF Invalidate, files
  <2> QED
    BY <1>0, <2>1, AtOthers, LogAssumption DEF engine
<1> QED
  BY <1>1, <1>2, <1>3, <1>4, <1>5, <1>6, <1>7, <1>8, <1>9 DEF Start, Shutdown

LEMMA QuietNext == QuietInv /\ [Next]_vars => QuietInv'
<1> SUFFICES ASSUME QuietInv, [Next]_vars PROVE QuietInv'
  OBVIOUS
<1>1. CASE NextDay \/ UNCHANGED vars
  <2>1. UNCHANGED <<engine, fileMutex, pc, setup, files>> /\ TypeOK'
    BY <1>1, TypeNext DEF NextDay, vars
  <2> QED
    BY <2>1 DEF engine, setup, files
<1>2. ASSUME NEW t \in Threads, LogLine(t) PROVE QuietInv'
  BY <1>2, LineQuiet
<1> QED
  BY <1>1, <1>2, GameQuiet DEF Next

\* After Shutdown the file is closed and no thread is in the listener, whether
\* the engine locks around listeners or the workers were joined, although the
\* listener tests g_channel without the mutex.
THEOREM QuietCorrect == Spec => []QuietAfterShutdown
<1>1. QuietInv => QuietAfterShutdown
  BY DEF QuietAfterShutdown
<1> QED
  BY <1>1, QuietInit, QuietNext, PTL DEF Spec
-----------------------------------------------------------------------------
(* Days. *)

Recording == {"open", "stamped"}

\* Nobody stamps a line before its day, and the open file is not of a later one.
Past ==
  /\ \A t \in Threads : stamp[t] <= day
  /\ file # Closed => IF NewFilePerDay THEN file \in Days /\ file <= day ELSE file = 0

\* A file with a stray is of a day that is over, and nobody writes to it.
Overtaken ==
  /\ \A n \in Names : strays[n] <= 1 /\ (strays[n] # 0 => n < day)
  /\ NewFilePerDay => \A t \in Threads : pc[t] \in Recording => file # Closed /\ strays[file] = 0

DayInv == QuietInv /\ Past /\ Overtaken
USE DEF Recording, Past, Overtaken, DayInv

LEMMA DayInit == Init => DayInv
<1> SUFFICES ASSUME Init PROVE DayInv
  OBVIOUS
<1>1. \A t \in Threads : pc[t] \notin Recording /\ stamp[t] <= day
  BY DEF Init
<1>2. \A n \in Names : strays[n] = 0
  BY DEF Init
<1> QED
  BY <1>1, <1>2, QuietInit DEF Init

\* What the types say of numbers.
LEMMA Numbers ==
  TypeOK => /\ day \in Nat /\ MaxDays \in Nat /\ Days \subseteq Names /\ Names \subseteq Nat
            /\ Closed \notin Names /\ \A n \in Names : strays[n] \in Nat
            /\ \A t \in Threads : stamp[t] \in Nat
BY LogAssumption DEF TypeOK, Days, Names, Closed

\* Of a line: the open file is today's, and the one line that midnight overtook
\* is the last of its file.
LEMMA LineDays == ASSUME DayInv, NEW t \in Threads, LogLine(t) PROVE DayInv'
<1>1. QuietInv'
  BY LineQuiet
<1>2. CASE Ready(t) \/ Enter(t) \/ Test(t) \/ Lock(t)
  <2>1. /\ UNCHANGED <<file, stamp, day, strays>>
        /\ \E from, to \in Labels \ Recording : At(t, from, to)
    BY <1>2 DEF Ready, Enter, Test, Lock, files, seen
  <2> QED
    BY <1>1, <2>1, AtOthers
<1>3. CASE Open(t)
  <2>1. UNCHANGED <<stamp, day, strays>>
    BY <1>3 DEF Open, seen
  <2>2. /\ \A u \in Threads : u # t => pc'[u] = pc[u] /\ pc[u] \notin Recording
        /\ file' \in {file, Closed, NameNow}
    BY <1>3, LogAssumption DEF Open, TypeOK, files
  <2>3. pc'[t] = "open" => file' = NameNow \/ (file' = file /\ StillCurrent)
    BY <1>3 DEF Open, TypeOK, files
  <2>4. Past'
    BY <2>1, <2>2, Numbers, LogAssumption DEF NameNow, TypeOK
  <2>5. NewFilePerDay /\ pc'[t] = "open" => file' = day
    BY <2>3 DEF NameNow, StillCurrent
  <2>6. strays[day] = 0 /\ day # Closed
    BY Numbers DEF TypeOK
  <2>7. pc'[t] \in {"open", "idle"}
    BY <1>3 DEF Open, TypeOK
  <2>8. \A u \in Threads : NewFilePerDay /\ pc'[u] \in Recording => file' = day
    BY <2>2, <2>5, <2>7
  <2>9. Overtaken'
    BY <2>1, <2>6, <2>8
  <2> QED
    BY <1>1, <2>4, <2>9
<1>4. CASE Stamp(t)
  <2>1. /\ UNCHANGED <<file, day, strays>> /\ At(t, "open", "stamped")
        /\ stamp' = [stamp EXCEPT ![t] = day]
    BY <1>4 DEF Stamp, files, seen
  <2>2. \A u \in Threads : stamp'[u] <= day
    BY <2>1, Numbers DEF TypeOK
  <2> QED
    BY <1>1, <2>1, <2>2, AtOthers
<1>5. CASE Write(t)
  <2>1. /\ UNCHANGED <<file, day>> /\ At(t, "stamped", "idle")
        /\ stamp' = [stamp EXCEPT ![t] = 0]
        /\ strays' = [strays EXCEPT ![file] =
                        IF file /= 0 /\ stamp[t] > file /\ @ < 2 THEN @ + 1 ELSE @]
    BY <1>5 DEF Write
  <2>2. \A u \in Threads : stamp'[u] <= day
    BY <2>1, Numbers DEF TypeOK
  <2>3. \A u \in Threads : pc'[u] \notin Recording
    BY <2>1, AtOthers, LogAssumption
  <2>4. ASSUME NEW n \in Names
        PROVE  strays'[n] <= 1 /\ (strays'[n] # 0 => n < day)
    <3>1. CASE n # file
      BY <2>1, <3>1 DEF TypeOK
    <3>2. CASE n = file /\ file /= 0 /\ stamp[t] > file
      <4>1. NewFilePerDay /\ strays[file] = 0
        BY <2>1, <3>2, AtOthers, Numbers
      <4>2. strays'[n] = 1
        BY <2>1, <3>2, <4>1 DEF TypeOK
      <4>3. n < day
        BY <3>2, Numbers
      <4> QED
        BY <4>2, <4>3
    <3>3. CASE n = file /\ ~(file /= 0 /\ stamp[t] > file)
      BY <2>1, <3>3 DEF TypeOK
    <3> QED
      BY <3>1, <3>2, <3>3
  <2> QED
    BY <1>1, <2>1, <2>2, <2>3, <2>4
<1> QED
  BY <1>2, <1>3, <1>4, <1>5 DEF LogLine

\* The game thread closes the file under the mutex only.
LEMMA GameDays ==
  ASSUME DayInv,
         \/ Start \/ Purge \/ ShutdownBegin \/ Shutdown
         \/ \E enable \in BOOLEAN : SetToFile(enable)
         \/ \E days \in Retentions : SetRetentionDays(days)
  PROVE  DayInv'
<1>1. QuietInv' /\ Game \in Threads
  BY GameQuiet
<1>2. UNCHANGED <<stamp, day, strays>>
  BY DEF Start, InitSetup, InitRegister, Purge, PurgeLook, PurgeRemove, PurgeEnd, ShutdownBegin,
         Shutdown, Unregister, Close, Invalidate, SetToFile, SetRetentionDays, seen
<1>3. file' = file \/ (file' = Closed /\ fileMutex = Nobody)
  BY DEF Start, InitSetup, InitRegister, Purge, PurgeLook, PurgeRemove, PurgeEnd, ShutdownBegin,
         Shutdown, Unregister, Close, Invalidate, SetToFile, SetRetentionDays, CloseFile, files
<1>4. \A t \in Threads : pc'[t] \in Recording => pc[t] \in Recording
  BY <1>1 DEF Start, InitSetup, InitRegister, Purge, PurgeLook, PurgeRemove, PurgeEnd, ShutdownBegin,
         Shutdown, Unregister, Close, Invalidate, SetToFile, SetRetentionDays, At, TypeOK
<1>5. fileMutex = Nobody => \A t \in Threads : pc[t] \notin Recording
  BY LogAssumption
<1> QED
  BY <1>1, <1>2, <1>3, <1>4, <1>5

LEMMA DayNext == DayInv /\ [Next]_vars => DayInv'
<1> SUFFICES ASSUME DayInv, [Next]_vars PROVE DayInv'
  OBVIOUS
<1>1. QuietInv'
  BY QuietNext
<1>2. CASE NextDay \/ UNCHANGED vars
  <2>1. UNCHANGED <<pc, file, stamp, strays>> /\ day' \in {day, day + 1}
    BY <1>2 DEF NextDay, vars, files, seen
  <2>2. day <= day' /\ day' \in Nat
    BY <2>1, Numbers
  <2>3. \A n \in Nat : (n <= day => n <= day') /\ (n < day => n < day')
    BY <2>1, Numbers
  <2> QED
    BY <1>1, <2>1, <2>3, Numbers
<1>3. ASSUME NEW t \in Threads, LogLine(t) PROVE DayInv'
  BY <1>3, LineDays
<1> QED
  BY <1>2, <1>3, GameDays DEF Next

\* A day's file has at most one line of a later day, however many threads log
\* while midnight passes: the file is rolled over under the mutex.
THEOREM StrayCorrect == Spec => []OneStrayAtMidnight
<1>1. DayInv => OneStrayAtMidnight
  BY DEF OneStrayAtMidnight
<1> QED
  BY <1>1, DayInit, DayNext, PTL DEF Spec
-----------------------------------------------------------------------------
(* Lines, with a file per day and more than one day to keep. *)

\* A file was last written on its day or later.
Dated == \A n \in Names : disk[n] # 0 => n <= disk[n]

\* While a line is on its way at most one midnight passes.
Timely ==
  \A t \in Threads : pc[t] \in Recording => file # Closed /\ day <= file + 1

\* The open file is removed from the directory two days later at the earliest.
Unlinked == file # Closed /\ ~linked => file + 2 <= day

\* The purge looks for files of a time that is set, and removes what it found old.
Purging ==
  /\ pc[Game] \in {"purge", "remove"} /\ entry.left # {} => retention # 0
  /\ pc[Game] = "remove" => retention # 0 /\ entry.name + retention <= day

KeptInv == DayInv /\ Dated /\ Timely /\ Unlinked /\ Purging /\ ~lost

LEMMA KeptInit == ASSUME Init PROVE KeptInv
<1>1. \A t \in Threads : pc[t] \in {"unloaded", "idle"}
  BY DEF Init
<1>2. \A n \in Names : disk[n] = 0
  BY DEF Init
<1> QED
  BY <1>1, <1>2, DayInit DEF Init, KeptInv, Dated, Timely, Unlinked, Purging

\* What the types say of the disk and the purge.
LEMMA KeptNumbers ==
  TypeOK => /\ retention \in Nat /\ entry.name \in Nat /\ entry.left \subseteq Names
            /\ \A n \in Names : disk[n] \in Nat
BY Numbers, LogAssumption DEF TypeOK, Days

\* A line goes to a file that is in the directory.
LEMMA LineKept ==
  ASSUME KeptInv, NewFilePerDay, NEW t \in Threads, LogLine(t) PROVE KeptInv'
<1>1. DayInv' /\ DayInv
  BY LineDays DEF KeptInv
<1>2. UNCHANGED <<entry, retention, day>>
  BY DEF LogLine, Ready, Enter, Test, Lock, Open, Stamp, Write, setup
<1>3. Purging'
  <2>1. \E from, to \in Labels \ {"purge", "remove"} : At(t, from, to)
    BY DEF LogLine, Ready, Enter, Test, Lock, Open, Stamp, Write, At
  <2>2. pc'[Game] \in {"purge", "remove"} => pc'[Game] = pc[Game]
    BY <1>1, <2>1, AtOthers
  <2> QED
    BY <1>2, <2>2 DEF Purging, KeptInv
<1>4. CASE Ready(t) \/ Enter(t) \/ Test(t) \/ Lock(t)
  <2>1. /\ UNCHANGED <<file, linked, disk, lost>>
        /\ \E from, to \in Labels \ Recording : At(t, from, to)
    BY <1>4 DEF Ready, Enter, Test, Lock, files, seen
  <2>2. Timely'
    BY <1>1, <1>2, <2>1, AtOthers DEF Timely, KeptInv
  <2> QED
    BY <1>1, <1>2, <1>3, <2>1, <2>2 DEF KeptInv, Dated, Unlinked
<1>5. CASE Open(t)
  <2>1. /\ UNCHANGED lost
        /\ \/ UNCHANGED files /\ (pc'[t] = "open" => file = day /\ file # Closed)
           \/ file' = Closed /\ UNCHANGED disk /\ pc'[t] # "open"
           \/ /\ file' = day /\ linked' = TRUE
              /\ disk' = [disk EXCEPT ![day] = IF @ = 0 THEN day ELSE @]
    BY <1>1, <1>5 DEF Open, StillCurrent, NameNow, TypeOK, seen
  <2>2. \A u \in Threads : pc'[u] \in Recording => u = t /\ pc'[u] = "open"
    BY <1>1, <1>5, LogAssumption DEF Open, TypeOK
  <2>3. day \in Nat /\ day \in Names /\ day # Closed /\ day <= day + 1
    BY <1>1, Numbers DEF TypeOK
  <2>4. Timely'
    BY <1>2, <2>1, <2>2, <2>3 DEF Timely, files
  <2>5. Dated'
    BY <1>1, <2>1, <2>3 DEF Dated, KeptInv, TypeOK, files
  <2>6. Unlinked'
    BY <1>2, <2>1 DEF Unlinked, KeptInv, files
  <2> QED
    BY <1>1, <1>3, <2>1, <2>4, <2>5, <2>6 DEF KeptInv
<1>6. CASE Stamp(t)
  <2>1. UNCHANGED <<file, linked, disk, lost>> /\ At(t, "open", "stamped")
    BY <1>6 DEF Stamp, files, seen
  <2>2. Timely'
    BY <1>1, <1>2, <2>1, AtOthers DEF Timely, KeptInv
  <2> QED
    BY <1>1, <1>2, <1>3, <2>1, <2>2 DEF KeptInv, Dated, Unlinked
<1>7. CASE Write(t)
  <2>1. /\ UNCHANGED <<file, linked>> /\ At(t, "stamped", "idle")
        /\ disk' = IF linked THEN [disk EXCEPT ![file] = day] ELSE disk
        /\ lost' = (lost \/ (~linked /\ (NewFilePerDay => stamp[t] = file)))
    BY <1>7 DEF Write
  <2>2. file # Closed /\ day <= file + 1
    BY <1>1, <2>1, AtOthers DEF Timely, KeptInv
  <2>3. file \in Nat /\ file \in Names /\ file <= day /\ day \in Nat
    BY <1>1, <2>2, Numbers DEF TypeOK
  <2>4. linked
    BY <1>1, <2>2, <2>3 DEF Unlinked, KeptInv, TypeOK
  <2>5. Timely'
    BY <1>1, <1>2, <2>1, AtOthers DEF Timely, KeptInv
  <2>6. Dated'
    BY <1>1, <2>1, <2>3, <2>4 DEF Dated, KeptInv, TypeOK
  <2> QED
    BY <1>1, <1>2, <1>3, <2>1, <2>4, <2>5, <2>6 DEF KeptInv, Unlinked
<1> QED
  BY <1>4, <1>5, <1>6, <1>7 DEF LogLine

\* The purge removes files whose day was over two days ago.
LEMMA GameKept ==
  ASSUME KeptInv, NewFilePerDay, 1 \notin Retentions,
         \/ Start \/ Purge \/ ShutdownBegin \/ Shutdown
         \/ \E enable \in BOOLEAN : SetToFile(enable)
         \/ \E days \in Retentions : SetRetentionDays(days)
  PROVE  KeptInv'
<1>1. DayInv' /\ DayInv /\ Game \in Threads
  BY GameDays DEF KeptInv
<1>2. UNCHANGED day
  BY DEF Start, InitSetup, InitRegister, Purge, PurgeLook, PurgeRemove, PurgeEnd, ShutdownBegin,
         Shutdown, Unregister, Close, Invalidate, SetToFile, SetRetentionDays
<1>3. file' = file \/ (file' = Closed /\ \A t \in Threads : pc[t] \notin Recording)
  <2>1. file' = file \/ (file' = Closed /\ fileMutex = Nobody)
    BY DEF Start, InitSetup, InitRegister, Purge, PurgeLook, PurgeRemove, PurgeEnd,
           ShutdownBegin, Shutdown, Unregister, Close, Invalidate, SetToFile,
           SetRetentionDays, CloseFile, files
  <2> QED
    BY <1>1, <2>1, LogAssumption
<1>4. \A t \in Threads : pc'[t] \in Recording => pc[t] \in Recording
  BY <1>1 DEF Start, InitSetup, InitRegister, Purge, PurgeLook, PurgeRemove, PurgeEnd, ShutdownBegin,
         Shutdown, Unregister, Close, Invalidate, SetToFile, SetRetentionDays, At, TypeOK
<1>5. Timely'
  BY <1>2, <1>3, <1>4 DEF Timely, KeptInv
<1>6. CASE PurgeLook
  <2>1. UNCHANGED <<file, linked, disk, lost, retention>>
    BY <1>6 DEF PurgeLook, files, seen, setup
  <2>2. PICK n \in entry.left :
          /\ entry' = [left |-> entry.left \ {n}, name |-> n]
          /\ \/ disk[n] # 0 /\ Old(n) /\ pc[Game] = "purge"
             \/ pc[Game] = "purge" /\ pc'[Game] = "purge"
    BY <1>1, <1>6 DEF PurgeLook, At, TypeOK
  <2>3. n \in Names /\ n \in Nat /\ disk[n] \in Nat /\ day \in Nat /\ retention \in Nat
    BY <1>1, <2>2, Numbers, KeptNumbers
  <2>4. Old(n) /\ disk[n] # 0 => n + retention <= day
    BY <2>3 DEF Old, Dated, KeptInv
  <2>5. retention # 0 /\ entry'.name = n
    BY <2>2 DEF Purging, KeptInv
  <2>6. Purging'
    BY <1>2, <2>1, <2>2, <2>4, <2>5 DEF Purging
  <2> QED
    BY <1>1, <1>2, <1>5, <2>1, <2>6 DEF KeptInv, Dated, Unlinked
<1>7. CASE PurgeRemove
  <2>1. /\ UNCHANGED <<file, entry, retention>> /\ At(Game, "remove", "purge")
        /\ lost' = (lost \/ LastLine(entry.name) + retention > day)
        /\ disk' = [disk EXCEPT ![entry.name] = 0]
        /\ linked' = (linked /\ file /= entry.name)
    BY <1>7 DEF PurgeRemove, setup
  <2>2. /\ retention \in Nat /\ retention >= 2 /\ entry.name + retention <= day
        /\ entry.name \in Nat /\ day \in Nat
    <3>1. pc[Game] = "remove"
      BY <2>1 DEF At
    <3>2. retention # 0 /\ entry.name + retention <= day
      BY <3>1 DEF Purging, KeptInv
    <3>3. retention \in Nat /\ retention # 1
      BY <1>1, <3>2, KeptNumbers DEF TypeOK
    <3> QED
      BY <1>1, <3>2, <3>3, KeptNumbers, Numbers
  <2>3. ~lost'
    <3>1. ~(LastLine(entry.name) + retention > day)
      BY <2>2 DEF LastLine
    <3> QED
      BY <2>1, <3>1, Zenon DEF KeptInv
  <2>4. Unlinked'
    <3>1. ~linked' => ~linked \/ file = entry.name
      BY <2>1, Zenon
    <3>2. file = entry.name => file + 2 <= day
      BY <2>2
    <3> QED
      BY <1>2, <2>1, <3>1, <3>2 DEF Unlinked, KeptInv
  <2>5. Dated'
    BY <1>1, <2>1 DEF Dated, KeptInv, TypeOK
  <2>6. Purging'
    BY <1>1, <2>1, <2>2, AtOthers DEF Purging
  <2> QED
    BY <1>1, <1>5, <2>3, <2>4, <2>5, <2>6 DEF KeptInv
<1>8. CASE InitRegister \/ \E days \in Retentions : SetRetentionDays(days)
  <2>1. UNCHANGED <<file, linked, disk, lost>> /\ pc'[Game] = "purge"
    BY <1>1, <1>8 DEF InitRegister, SetRetentionDays, files, seen, At, TypeOK
  <2>2. entry'.left # {} => retention' # 0
    BY <1>8 DEF InitRegister, SetRetentionDays, setup
  <2> QED
    BY <1>1, <1>2, <1>5, <2>1, <2>2 DEF KeptInv, Dated, Unlinked, Purging
<1>9. CASE \/ InitSetup \/ PurgeEnd \/ ShutdownBegin \/ Shutdown
           \/ \E enable \in BOOLEAN : SetToFile(enable)
  <2>1. /\ UNCHANGED <<disk, lost>>
        /\ UNCHANGED <<file, linked>> \/ file' = Closed
    BY <1>9 DEF InitSetup, PurgeEnd, ShutdownBegin, Shutdown, Unregister, Close, Invalidate,
                SetToFile, CloseFile, files, seen
  <2>2. pc'[Game] \notin {"purge", "remove"}
    BY <1>1, <1>9 DEF InitSetup, PurgeEnd, ShutdownBegin, Shutdown, Unregister, Close,
                      Invalidate, SetToFile, At, TypeOK
  <2> QED
    BY <1>1, <1>2, <1>5, <2>1, <2>2 DEF KeptInv, Dated, Unlinked, Purging
<1> QED
  BY <1>6, <1>7, <1>8, <1>9 DEF Start, Purge

LEMMA KeptNext ==
  ASSUME NewFilePerDay, 1 \notin Retentions
  PROVE  KeptInv /\ [Next]_vars => KeptInv'
<1> SUFFICES ASSUME KeptInv, [Next]_vars PROVE KeptInv'
  OBVIOUS
<1>1. DayInv' /\ DayInv
  BY DayNext DEF KeptInv
<1>2. CASE NextDay \/ UNCHANGED vars
  <2>1. /\ UNCHANGED <<pc, file, linked, disk, entry, retention, lost>>
        /\ day' \in {day, day + 1}
        /\ day' # day => \A t \in Threads : pc[t] \in Recording => file = day
    BY <1>2 DEF NextDay, vars, files, seen, setup
  <2>2. day \in Nat /\ day' \in Nat /\ day <= day'
    BY <1>1, <2>1, Numbers
  <2>3. Timely'
    BY <2>1, <2>2 DEF Timely, KeptInv
  <2>4. Unlinked'
    BY <1>1, <2>1, <2>2, Numbers DEF Unlinked, KeptInv, TypeOK
  <2>5. Purging'
    BY <1>1, <2>1, <2>2, KeptNumbers DEF Purging, KeptInv
  <2> QED
    BY <1>1, <2>1, <2>3, <2>4, <2>5 DEF KeptInv, Dated
<1>3. ASSUME NEW t \in Threads, LogLine(t) PROVE KeptInv'
  BY <1>3, LineKept
<1> QED
  BY <1>2, <1>3, GameKept DEF Next

\* With a file per day and any time to keep but one day, no line of the day is
\* written to a removed file and none is removed too early, although PurgeOldLogs
\* looks at a file and removes it without the mutex.
THEOREM KeptCorrect ==
  ASSUME NewFilePerDay, 1 \notin Retentions
  PROVE  Spec => []LinesAreKept
<1>1. KeptInv => LinesAreKept
  BY DEF KeptInv, LinesAreKept
<1>2. Init => KeptInv
  BY KeptInit
<1> QED
  BY <1>1, <1>2, KeptNext, PTL DEF Spec
=============================================================================
