---------------------------- MODULE WorkshopProofs ----------------------------
(***************************************************************************)
(* Theorems of WorkshopDownload, for every set of addons, every timeout and *)
(* any number of calls.                                                     *)
(***************************************************************************)
EXTENDS WorkshopDownload, SequenceTheorems, TLAPS

\* What is read and written by ReleaseQuery and Unregister.
held == <<phase, query, registered, queries, released, calls>>

\* SteamIsReleased, and what it rests on: no query has a number that Begin did not
\* count, and those that are still to be sent have never been released.
ReleaseInv ==
  /\ calls \in 0 .. MaxCalls /\ queries \in 0 .. calls /\ query \in 0 .. queries
  /\ released \in [1 .. MaxCalls -> Nat]
  /\ registered \in BOOLEAN
  /\ \A q \in 1 .. MaxCalls : released[q] = IF q = query \/ q > queries THEN 0 ELSE 1
  /\ query # 0 <=> phase = "querying"
  /\ registered <=> phase = "downloading"

\* It says more than SteamIsReleased does.
LEMMA ReleaseImplies == ReleaseInv => SteamIsReleased
<1> SUFFICES ASSUME ReleaseInv PROVE SteamIsReleased
  OBVIOUS
<1>1. \A q \in 1 .. queries : q \in 1 .. MaxCalls /\ ~(q > queries)
  BY WorkshopAssumption DEF ReleaseInv
<1> QED
  BY <1>1 DEF ReleaseInv, SteamIsReleased

\* Before the first call there is no query.
LEMMA ReleaseInit == Init => ReleaseInv
<1> SUFFICES ASSUME Init PROVE ReleaseInv
  OBVIOUS
<1>1. \A q \in 1 .. MaxCalls : released[q] = IF q = query \/ q > queries THEN 0 ELSE 1
  BY WorkshopAssumption DEF Init
<1>2. released \in [1 .. MaxCalls -> Nat]
  BY DEF Init
<1>3. calls \in 0 .. MaxCalls /\ queries \in 0 .. calls /\ query \in 0 .. queries
  BY WorkshopAssumption DEF Init
<1>4. registered \in BOOLEAN /\ (query # 0 <=> phase = "querying") /\ (registered <=> phase = "downloading")
  BY DEF Init
<1> QED
  BY <1>1, <1>2, <1>3, <1>4 DEF ReleaseInv

\* What leaves all of it alone, like everything that Steam and the engine do.
LEMMA ReleaseHeld == ReleaseInv /\ UNCHANGED held => ReleaseInv'
BY DEF ReleaseInv, held

\* ReleaseQuery counts the query that is open, and no other.
LEMMA QueryReleased ==
  ASSUME ReleaseInv, ReleaseQuery
  PROVE  /\ released' \in [1 .. MaxCalls -> Nat]
         /\ \A q \in 1 .. MaxCalls : released'[q] = IF q > queries THEN 0 ELSE 1
<1>1. CASE query = 0
  <2>1. released' = released
    BY <1>1 DEF ReleaseQuery
  <2>2. \A q \in 1 .. MaxCalls : q # query
    BY <1>1
  <2> QED
    BY <2>1, <2>2 DEF ReleaseInv
<1>2. CASE query # 0
  <2>1. released' = [released EXCEPT ![query] = @ + 1]
    BY <1>2 DEF ReleaseQuery
  <2>2. query \in 1 .. MaxCalls /\ ~(query > queries)
    BY <1>2, WorkshopAssumption DEF ReleaseInv
  <2> QED
    BY <2>1, <2>2, WorkshopAssumption DEF ReleaseInv
<1> QED
  BY <1>1, <1>2

\* However a wait ends: the query is released and the callback unregistered.
LEMMA ReleaseReset ==
  ASSUME ReleaseInv, ReleaseQuery, Unregister, query' = 0,
         phase' \in {"idle", "hosting"}, queries' = queries, calls' \in {calls, calls + 1},
         calls' <= MaxCalls
  PROVE  ReleaseInv'
<1>1. /\ released' \in [1 .. MaxCalls -> Nat]
      /\ \A q \in 1 .. MaxCalls : released'[q] = IF q > queries THEN 0 ELSE 1
  BY QueryReleased
<1>2. \A q \in 1 .. MaxCalls : q # query'
  OBVIOUS
<1>3. registered' = FALSE
  BY DEF Unregister, ReleaseInv
<1>4. calls' \in 0 .. MaxCalls /\ queries' \in 0 .. calls' /\ query' \in 0 .. queries'
  BY WorkshopAssumption DEF ReleaseInv
<1> QED
  BY <1>1, <1>2, <1>3, <1>4 DEF ReleaseInv

\* Begin with a question that is sent: the query before it, if one is open, is
\* released, and the new one is open.
LEMMA ReleaseBegin == ASSUME NEW a \in Addons, ReleaseInv, Begin(a) PROVE ReleaseInv'
<1>1. ReleaseQuery /\ Unregister /\ calls < MaxCalls /\ calls' = calls + 1
  BY DEF Begin
<1>2. calls \in Nat /\ calls' <= MaxCalls
  BY <1>1, WorkshopAssumption DEF ReleaseInv
<1>3. CASE phase' = "idle" /\ query' = 0 /\ queries' = queries
  BY <1>1, <1>2, <1>3, ReleaseReset
<1>4. CASE phase' = "querying" /\ queries' = queries + 1 /\ query' = queries'
  <2>1. /\ released' \in [1 .. MaxCalls -> Nat]
        /\ \A q \in 1 .. MaxCalls : released'[q] = IF q > queries THEN 0 ELSE 1
    BY <1>1, QueryReleased
  <2>2. calls' \in 0 .. MaxCalls /\ queries' \in 0 .. calls' /\ query' \in 0 .. queries'
    BY <1>1, <1>4, WorkshopAssumption DEF ReleaseInv
  <2>3. \A q \in 1 .. MaxCalls : (q > queries) <=> (q = query' \/ q > queries')
    BY <1>4 DEF ReleaseInv
  <2>4. registered' = FALSE
    BY <1>1 DEF Unregister, ReleaseInv
  <2>5. query' # 0
    BY <1>4 DEF ReleaseInv
  <2> QED
    BY <1>4, <2>1, <2>2, <2>3, <2>4, <2>5 DEF ReleaseInv
<1> QED
  BY <1>3, <1>4 DEF Begin

\* Change gives up what was waited for.
LEMMA ReleaseChange == ASSUME NEW a \in Addons, ReleaseInv, Change(a) PROVE ReleaseInv'
<1>1. /\ ReleaseQuery /\ Unregister /\ query' = 0 /\ queries' = queries
      /\ calls < MaxCalls /\ calls' = calls + 1
      /\ phase' \in {"idle", "hosting"}
  BY DEF Change
<1>2. calls' <= MaxCalls
  BY <1>1, WorkshopAssumption DEF ReleaseInv
<1> QED
  BY <1>1, <1>2, ReleaseReset

\* The ends of a wait share Clear's first half.
LEMMA ReleaseGivenUp ==
  ASSUME ReleaseInv, ResetState, queries' = queries, calls' = calls
  PROVE  ReleaseInv'
<1>1. ReleaseQuery /\ Unregister /\ query' = 0 /\ phase' = "idle"
  BY DEF ResetState
<1>2. calls' <= MaxCalls
  BY WorkshopAssumption DEF ReleaseInv
<1> QED
  BY <1>1, <1>2, ReleaseReset

\* A Poll that ends the wait, one that starts the transfer, one that waits on.
LEMMA ReleasePoll == ASSUME ReleaseInv, Poll PROVE ReleaseInv'
<1>1. CASE PollRejected \/ PollFailed \/ PollSettled \/ PollExpired
  BY <1>1, ReleaseGivenUp DEF PollRejected, PollFailed, PollSettled, PollExpired, Clear
<1>2. CASE PollConfirmed
  <2>1. CASE Clear
    BY <1>2, <2>1, ReleaseGivenUp DEF PollConfirmed, Clear
  <2>2. CASE ReleaseQuery /\ query' = 0 /\ registered' = TRUE /\ phase' = "downloading"
    <3>1. queries' = queries /\ calls' = calls
      BY <1>2 DEF PollConfirmed
    <3>2. /\ released' \in [1 .. MaxCalls -> Nat]
          /\ \A q \in 1 .. MaxCalls : released'[q] = IF q > queries THEN 0 ELSE 1
      BY <2>2, QueryReleased
    <3>3. \A q \in 1 .. MaxCalls : q # query'
      BY <2>2
    <3>4. query' \in 0 .. queries'
      BY <2>2, <3>1 DEF ReleaseInv
    <3> QED
      BY <2>2, <3>1, <3>2, <3>3, <3>4 DEF ReleaseInv
  <2> QED
    BY <1>2, <2>1, <2>2 DEF PollConfirmed
<1>3. CASE PollHosting
  BY <1>3, ReleaseHeld DEF PollHosting, held, wait, reports
<1> QED
  BY <1>1, <1>2, <1>3 DEF Poll

\* Steam leaves the plugin's side alone; so does the engine but for LevelInit.
LEMMA ReleaseOthers == ASSUME ReleaseInv, Steam \/ Engine PROVE ReleaseInv'
<1>1. CASE Steam
  <2>1. UNCHANGED held
    BY <1>1 DEF Steam, SteamAnswers, TransferBegins, TransferGoesOn, TransferSucceeds,
                TransferFails, ResultArrives, held, wait, reports
  <2> QED
    BY <2>1, ReleaseHeld
<1>2. ASSUME NEW a \in Addons \cup {None}, LevelInit(a) PROVE ReleaseInv'
  BY <1>2, ReleaseGivenUp DEF LevelInit, Clear
<1>3. CASE CleanerRuns \/ (\E elapsed \in 0 .. 1 : Frame(elapsed))
             \/ \E a \in Addons : EngineDrops(a)
  <2>1. UNCHANGED held
    BY <1>3 DEF CleanerRuns, Clean, Frame, EngineDrops, held, wait, reports
  <2> QED
    BY <2>1, ReleaseHeld
<1> QED
  BY <1>1, <1>2, <1>3 DEF Engine

LEMMA ReleaseStep == ASSUME ReleaseInv, [Next]_vars PROVE ReleaseInv'
<1>1. CASE Plugin
  BY <1>1, ReleasePoll, ReleaseBegin, ReleaseChange DEF Plugin
<1>2. CASE Steam \/ Engine
  BY <1>2, ReleaseOthers
<1>3. CASE UNCHANGED vars
  BY <1>3, ReleaseHeld DEF vars, wait, reports, held
<1> QED
  BY <1>1, <1>2, <1>3 DEF Next

\* Every query of Begin is released once, at the end of its lookup, however it
\* ends, and Steam calls back into the plugin during a download only
\* (PendingDownload::ReleaseQuery and ResetState).
THEOREM SteamCorrect == Spec => []SteamIsReleased
<1>1. Init => ReleaseInv
  BY ReleaseInit
<1>2. ReleaseInv /\ [Next]_vars => ReleaseInv'
  BY ReleaseStep
<1>3. ReleaseInv => SteamIsReleased
  BY ReleaseImplies
<1> QED
  BY <1>1, <1>2, <1>3, PTL DEF Spec

-----------------------------------------------------------------------------
(* Types *)

Commands == [op : {"add", "remove", "host"}, addon : Addons]

WaitTypes ==
  /\ phase \in {"idle", "querying", "downloading", "hosting"}
  /\ file \in Addons \cup {None} /\ (phase = "idle" <=> file = None)
  /\ excluded \in (Addons \ Owned) \cup {None} /\ (excluded # None => Cleaner)
  /\ failed \in BOOLEAN
  /\ left \in Nat /\ (left <= Timeout \/ left <= Grace)
  /\ answer \in {"none", "map", "other"}
  /\ commands \in Seq(Commands)
  /\ promised \in Addons \cup {None}

DiskTypes ==
  /\ transfers \subseteq Addons /\ results \subseteq Addons
  /\ installed \subseteq Addons /\ acf \subseteq Addons
  /\ complete \subseteq vpk /\ vpk \subseteq folders /\ folders \subseteq Addons
  /\ requests \subseteq Addons /\ loaded \subseteq Addons /\ listed \subseteq Addons

Types == WaitTypes /\ DiskTypes

\* The ACF, the history, and that no transfer loses its folder: DropStaleAddon
\* looks at every transfer that has one.
Marks == acfThere \in BOOLEAN /\ inherited \in BOOLEAN /\ torn = {}

LEMMA TypesByParts == Types /\ ReleaseInv /\ Marks => TypeOK
<1> SUFFICES ASSUME Types, ReleaseInv, Marks PROVE TypeOK
  OBVIOUS
<1>1. queries \in 0 .. MaxCalls /\ query \in 0 .. queries
  BY WorkshopAssumption DEF ReleaseInv
<1>2. released \in [1 .. MaxCalls -> Nat] /\ registered \in BOOLEAN /\ calls \in 0 .. MaxCalls
  BY DEF ReleaseInv
<1>3. commands \in Seq([op : {"add", "remove", "host"}, addon : Addons])
  BY DEF Types, WaitTypes, Commands
<1> QED
  BY <1>1, <1>2, <1>3 DEF Types, WaitTypes, DiskTypes, Marks, TypeOK

LEMMA TypesInit == Init => Types
<1> SUFFICES ASSUME Init PROVE Types
  OBVIOUS
<1>1. WaitTypes
  <2>1. commands \in Seq(Commands)
    BY DEF Init
  <2> QED
    <3>1. left \in Nat /\ (left <= Timeout \/ left <= Grace)
      BY WorkshopAssumption DEF Init
    <3>2. /\ phase \in {"idle", "querying", "downloading", "hosting"}
          /\ file \in Addons \cup {None} /\ (phase = "idle" <=> file = None)
      BY DEF Init
    <3> QED
      BY <2>1, <3>1, <3>2 DEF Init, WaitTypes
<1>2. DiskTypes
  BY WorkshopAssumption DEF Init, DiskTypes
<1> QED
  BY <1>1, <1>2 DEF Types

-----------------------------------------------------------------------------
(* Transfers keep their folders *)

LEMMA ReadyMarks ==
  ASSUME Marks, NEW a, EnsureWorkshopMapReady(a)
  PROVE  torn' = {} /\ acfThere' = acfThere
<1>1. CASE IsStale(a)
  <2>1. folders \cap transfers = {}
    BY <1>1 DEF IsStale, AnyDownloadInFlight
  <2> QED
    BY <1>1, <2>1 DEF EnsureWorkshopMapReady, DropStaleAddon, Marks
<1>2. CASE ~IsStale(a)
  BY <1>2 DEF EnsureWorkshopMapReady, Marks
<1> QED
  BY <1>1, <1>2

LEMMA MarksStep == ASSUME Marks, [Next]_vars PROVE Marks'
<1>1. CASE Poll
  <2>1. CASE PollConfirmed
    <3>1. torn' = {} /\ acfThere' = acfThere
      BY <2>1, ReadyMarks DEF PollConfirmed
    <3>2. inherited' \in BOOLEAN
      <4>1. inherited' = FALSE \/ inherited' = (file \in installed' \ complete)
        BY <2>1 DEF PollConfirmed, Clear, Unexclude
      <4>2. (file \in installed' \ complete) \in BOOLEAN
        OBVIOUS
      <4> QED
        BY <4>1, <4>2
    <3> QED
      BY <3>1, <3>2 DEF Marks
  <2>2. CASE PollRejected \/ PollFailed \/ PollExpired
    BY <2>2 DEF PollRejected, PollFailed, PollExpired, Clear, Unexclude, steam, disk, Marks
  <2>3. CASE PollSettled \/ PollHosting
    BY <2>3 DEF PollSettled, PollHosting, steam, disk, claim, Marks
  <2> QED
    BY <1>1, <2>1, <2>2, <2>3 DEF Poll
<1>2. ASSUME NEW a \in Addons, Begin(a) PROVE Marks'
  BY <1>2 DEF Begin, Unexclude, disk, Marks
<1>3. ASSUME NEW a \in Addons, Change(a) PROVE Marks'
  <2>1. torn' = {} /\ acfThere' = acfThere
    BY <1>3, ReadyMarks DEF Change
  <2> QED
    BY <1>3, <2>1 DEF Change, claim, Marks
<1>4. CASE Steam
  BY <1>4 DEF Steam, SteamAnswers, TransferBegins, TransferGoesOn, TransferSucceeds,
     TransferFails, ResultArrives, steam, disk, claim, Marks
<1>5. CASE Engine
  BY <1>5 DEF Engine, Frame, EngineDrops, LevelInit, Clear, Unexclude, CleanerRuns, Clean,
     steam, disk, claim, Marks
<1>6. CASE UNCHANGED vars
  BY <1>6 DEF vars, steam, disk, claim, Marks
<1> QED
  BY <1>1, <1>2, <1>3, <1>4, <1>5, <1>6 DEF Next, Plugin

-----------------------------------------------------------------------------
(* The exclude list *)

\* What the exclusion rests on: a question is answered when the commands of its
\* Begin have run, and neither it nor a download is asked for one that is settled.
Exclusion ==
  /\ phase \in {"querying", "downloading"} => promised = None
  /\ phase = "querying" => excluded = None
  /\ phase = "querying" /\ answer # "none" => commands = <<>>
  /\ ExclusionBalanced

\* Without commands the list stays as it is.
LEMMA ListUnchanged ==
  ASSUME Types, commands = <<>>
  PROVE  AfterCommands = listed
<1>1. \A a \in Addons : ListCommands(a) = {}
  BY DEF ListCommands
<1> QED
  BY <1>1 DEF AfterCommands, Types, DiskTypes

\* One more command is executed after the others.
LEMMA ListAppend ==
  ASSUME Types, NEW c \in Commands, commands' = Append(commands, c), listed' = listed
  PROVE  /\ c.op = "host" => AfterCommands' = AfterCommands
         /\ c.op = "add" => AfterCommands' = AfterCommands \cup {c.addon}
         /\ c.op = "remove" => AfterCommands' = AfterCommands \ {c.addon}
<1> DEFINE n == Len(commands) + 1
<1>1. /\ commands \in Seq(Commands) /\ n \in Nat /\ DOMAIN commands = 1 .. (n - 1)
      /\ DOMAIN commands' = 1 .. n /\ commands'[n] = c
      /\ \A i \in 1 .. (n - 1) : commands'[i] = commands[i]
  <2>1. commands \in Seq(Commands)
    BY DEF Types, WaitTypes
  <2> QED
    BY <2>1, LenProperties, AppendProperties
<1>2. \A a \in Addons : c.op = "host" \/ a # c.addon => ListCommands(a)' = ListCommands(a)
  BY <1>1 DEF ListCommands
<1>3. c.op # "host" => ListCommands(c.addon)' = ListCommands(c.addon) \cup {n}
  BY <1>1 DEF ListCommands
<1>4. \A a \in Addons : ListCommands(a) \subseteq 1 .. (n - 1)
  BY <1>1 DEF ListCommands
<1>5. c.addon \in Addons /\ c.op \in {"add", "remove", "host"}
  BY DEF Commands
<1>6. ASSUME NEW a \in Addons, c.op = "host" \/ a # c.addon
      PROVE  a \in AfterCommands' <=> a \in AfterCommands
  <2>1. ListCommands(a)' = ListCommands(a)
    BY <1>2, <1>6
  <2>2. \A i \in ListCommands(a) : commands'[i] = commands[i]
    BY <1>1, <1>4
  <2> QED
    BY <2>1, <2>2 DEF AfterCommands
<1>7. ASSUME c.op # "host"
      PROVE  c.addon \in AfterCommands' <=> c.op = "add"
  <2>1. n \in ListCommands(c.addon)' /\ commands'[n] = c
    BY <1>1, <1>3, <1>7
  <2>2. \A i \in ListCommands(c.addon)' : i <= n /\ (n <= i => i = n)
    BY <1>1, <1>3, <1>4, <1>5, <1>7
  <2> QED
    BY <1>5, <2>1, <2>2 DEF AfterCommands
<1>8. AfterCommands \subseteq Addons /\ AfterCommands' \subseteq Addons
  BY DEF AfterCommands
<1> QED
  BY <1>5, <1>6, <1>7, <1>8

\* What leaves the queue and the list alone leaves their outcome alone.
LEMMA ListHeld ==
  ASSUME UNCHANGED <<commands, listed>>
  PROVE  AfterCommands' = AfterCommands
BY DEF AfterCommands, ListCommands

\* Clear takes off the list what this plugin put there, and nothing else.
LEMMA TakenOff ==
  ASSUME Types, ExclusionBalanced, TakeOff, listed' = listed
  PROVE  commands' \in Seq(Commands) /\ AfterCommands' = Owned
<1>1. CASE excluded = None
  <2>1. commands' = commands
    <3>1. commands \in Seq(Commands)
      BY DEF Types, WaitTypes
    <3> QED
      BY <1>1, <3>1, ConcatEmptySeq DEF TakeOff, Removal
  <2>2. AfterCommands' = AfterCommands
    BY <2>1, ListHeld
  <2> QED
    BY <1>1, <2>1, <2>2 DEF ExclusionBalanced, Types, WaitTypes
<1>2. CASE excluded # None
  <2> DEFINE c == Command("remove", excluded)
  <2>1. c \in Commands /\ c.op = "remove" /\ c.addon = excluded /\ excluded \notin Owned
    BY <1>2 DEF Types, WaitTypes, Command, Commands
  <2>2. commands' = Append(commands, c)
    <3>1. commands \in Seq(Commands) /\ commands' = commands \o <<c>>
      BY <1>2 DEF Types, WaitTypes, TakeOff, Removal
    <3> QED
      BY <2>1, <3>1, AppendIsConcat
  <2>3. AfterCommands' = AfterCommands \ {excluded}
    BY <2>1, <2>2, ListAppend
  <2>4. AfterCommands = Owned \cup {excluded}
    BY <1>2 DEF ExclusionBalanced
  <2>5. commands' \in Seq(Commands)
    BY <2>1, <2>2, AppendProperties DEF Types, WaitTypes
  <2> QED
    BY <2>1, <2>3, <2>4, <2>5
<1> QED
  BY <1>1, <1>2

-----------------------------------------------------------------------------
(* Types and the exclusion, step by step *)

\* The wait is given up, by Poll, LevelInit or Begin: Clear.
LEMMA Cleared ==
  ASSUME Types, Exclusion, Unexclude, failed' = FALSE, listed' = listed,
         \/ phase' = "idle" /\ file' = None /\ UNCHANGED <<left, answer>>
         \/ phase' = "querying" /\ file' \in Addons /\ left' = Timeout /\ answer' = "none"
  PROVE  WaitTypes' /\ Exclusion'
<1>1. commands' \in Seq(Commands) /\ AfterCommands' = Owned
  BY TakenOff DEF Unexclude, Exclusion
<1>2. excluded' = None /\ promised' = None
  BY DEF Unexclude
<1>3. WaitTypes'
  <2>1. left' \in Nat /\ (left' <= Timeout \/ left' <= Grace)
    BY WorkshopAssumption DEF Types, WaitTypes
  <2>2. /\ phase' \in {"idle", "querying", "downloading", "hosting"}
        /\ file' \in Addons \cup {None} /\ (phase' = "idle" <=> file' = None)
        /\ answer' \in {"none", "map", "other"}
    BY WorkshopAssumption DEF Types, WaitTypes
  <2> QED
    BY <1>1, <1>2, <2>1, <2>2 DEF WaitTypes
<1>4. ExclusionBalanced'
  BY <1>1, <1>2 DEF ExclusionBalanced
<1> QED
  BY <1>2, <1>3, <1>4 DEF Exclusion

\* What EnsureWorkshopMapReady deletes has no .vpk.
LEMMA ReadyTypes ==
  ASSUME Types, NEW a \in Addons, EnsureWorkshopMapReady(a),
         transfers' \subseteq Addons, UNCHANGED <<results, requests, listed>>
  PROVE  DiskTypes'
<1>1. CASE IsStale(a)
  BY <1>1 DEF EnsureWorkshopMapReady, DropStaleAddon, IsStale, IsReady, Types, DiskTypes
<1>2. CASE ~IsStale(a)
  BY <1>2 DEF EnsureWorkshopMapReady, Types, DiskTypes
<1> QED
  BY <1>1, <1>2

\* A download begins: an addon the owner did not list is listed from the next frame.
LEMMA Started ==
  ASSUME Types, Exclusion, PollConfirmed, ExcludeFromCleaner(file),
         phase' = "downloading", UNCHANGED <<file, failed, promised>>
  PROVE  WaitTypes' /\ Exclusion' /\ (Cleaner => file \in Owned \cup {excluded'})
<1>1. /\ phase = "querying" /\ answer = "map" /\ file \in Addons
      /\ UNCHANGED <<left, answer, listed>>
  BY WorkshopAssumption DEF PollConfirmed, Types, WaitTypes
<1>2. commands = <<>> /\ excluded = None /\ promised = None
  BY <1>1 DEF Exclusion
<1>3. AfterCommands = listed /\ listed = Owned
  BY <1>2, ListUnchanged, WorkshopAssumption DEF Exclusion, ExclusionBalanced
<1>4. CASE Cleaner /\ file \notin listed
  <2> DEFINE c == Command("add", file)
  <2>1. excluded' = file /\ commands' = Append(commands, c)
    BY <1>4 DEF ExcludeFromCleaner
  <2>2. c \in Commands /\ c.op = "add" /\ c.addon = file
    BY <1>1 DEF Command, Commands
  <2>3. AfterCommands' = Owned \cup {file}
    BY <1>1, <1>3, <2>1, <2>2, ListAppend
  <2>4. commands' \in Seq(Commands)
    BY <2>1, <2>2, AppendProperties DEF Types, WaitTypes
  <2>5. WaitTypes'
    BY <1>1, <1>3, <1>4, <2>1, <2>4 DEF Types, WaitTypes
  <2>6. file # None
    BY <1>1, WorkshopAssumption
  <2>7. ExclusionBalanced'
    BY <2>1, <2>3, <2>6 DEF ExclusionBalanced
  <2> QED
    BY <1>2, <2>1, <2>5, <2>7 DEF Exclusion
<1>5. CASE ~(Cleaner /\ file \notin listed)
  <2>1. UNCHANGED <<commands, excluded>>
    BY <1>5 DEF ExcludeFromCleaner
  <2>2. WaitTypes'
    BY <1>1, <2>1 DEF Types, WaitTypes
  <2>3. AfterCommands' = AfterCommands
    BY <1>1, <2>1, ListHeld
  <2> QED
    BY <1>2, <1>3, <1>5, <2>1, <2>2, <2>3 DEF Exclusion, ExclusionBalanced
<1> QED
  BY <1>4, <1>5

\* Of steps that have nothing to do with the list.
LEMMA ExclusionHeld ==
  ASSUME Exclusion, UNCHANGED <<excluded, commands, listed>>,
         phase' \in {"querying", "downloading"} => phase' = phase /\ promised' = promised,
         phase' = "querying" => answer' = answer \/ commands = <<>>
  PROVE  Exclusion'
BY ListHeld DEF Exclusion, ExclusionBalanced

LEMMA PollKeeps == ASSUME Types, Exclusion, Poll PROVE Types' /\ Exclusion'
<1> USE WorkshopAssumption
<1>1. CASE PollRejected \/ PollFailed \/ PollExpired
  <2>1. Clear /\ UNCHANGED <<left, steam, disk, engine>>
    BY <1>1 DEF PollRejected, PollFailed, PollExpired
  <2>2. WaitTypes' /\ Exclusion'
    BY <2>1, Cleared DEF Clear, ResetState, steam, engine
  <2>3. DiskTypes'
    BY <2>1 DEF Types, DiskTypes, steam, disk, engine
  <2> QED
    BY <2>2, <2>3 DEF Types
<1>2. CASE PollConfirmed
  <2>1. phase = "querying" /\ file \in Addons
    BY <1>2 DEF PollConfirmed, Types, WaitTypes
  <2>2. /\ EnsureWorkshopMapReady(file)
        /\ UNCHANGED <<left, answer, results, requests, listed>>
    BY <1>2 DEF PollConfirmed
  <2>3. CASE Clear /\ UNCHANGED transfers
    <3>1. WaitTypes' /\ Exclusion'
      BY <2>2, <2>3, Cleared DEF Clear, ResetState
    <3>2. DiskTypes'
      BY <2>1, <2>2, <2>3, ReadyTypes DEF Types, DiskTypes
    <3> QED
      BY <3>1, <3>2 DEF Types
  <2>4. CASE /\ StartTransfer(file) /\ ExcludeFromCleaner(file)
             /\ phase' = "downloading" /\ UNCHANGED <<file, failed, promised>>
    <3>1. WaitTypes' /\ Exclusion'
      BY <1>2, <2>4, Started
    <3>2. transfers' \subseteq Addons
      BY <2>1, <2>4 DEF StartTransfer, Types, DiskTypes
    <3>3. DiskTypes'
      BY <2>1, <2>2, <3>2, ReadyTypes
    <3> QED
      BY <3>1, <3>3 DEF Types
  <2> QED
    BY <1>2, <2>3, <2>4 DEF PollConfirmed
<1>3. CASE PollSettled
  <2>1. /\ phase' = "idle" /\ file' = None /\ failed' = FALSE /\ promised' = file
        /\ UNCHANGED <<excluded, left, answer, commands, listed>>
        /\ UNCHANGED <<steam, disk, engine>>
    BY <1>3 DEF PollSettled, ResetState, steam, engine
  <2>2. Exclusion'
    BY <2>1, ExclusionHeld
  <2>3. WaitTypes'
    BY <2>1 DEF Types, WaitTypes
  <2>4. DiskTypes'
    BY <2>1 DEF Types, DiskTypes, steam, disk, engine
  <2> QED
    BY <2>2, <2>3, <2>4 DEF Types
<1>4. CASE PollHosting
  <2>1. /\ UNCHANGED <<wait, excluded, steam, disk, commands, engine, promised>>
        /\ left' = Grace
    BY <1>4 DEF PollHosting, claim
  <2>2. Exclusion'
    BY <2>1, ExclusionHeld DEF wait, steam, engine
  <2>3. WaitTypes'
    BY <2>1 DEF Types, WaitTypes, wait, steam
  <2>4. DiskTypes'
    BY <2>1 DEF Types, DiskTypes, steam, disk, engine
  <2> QED
    BY <2>2, <2>3, <2>4 DEF Types
<1> QED
  BY <1>1, <1>2, <1>3, <1>4 DEF Poll

LEMMA CallKeeps ==
  ASSUME Types, Exclusion, NEW a \in Addons, Begin(a) \/ Change(a)
  PROVE  Types' /\ Exclusion'
<1> USE WorkshopAssumption
<1>1. CASE Begin(a)
  <2>1. WaitTypes' /\ Exclusion'
    BY <1>1, Cleared DEF Begin, engine
  <2>2. DiskTypes'
    BY <1>1 DEF Begin, Types, DiskTypes, disk, engine
  <2> QED
    BY <2>1, <2>2 DEF Types
<1>2. CASE Change(a)
  <2> DEFINE c == Command("host", a)
  <2>1. /\ EnsureWorkshopMapReady(a) /\ commands' = Append(commands, c)
        /\ failed' = FALSE
        /\ \/ phase' = "hosting" /\ file' = a /\ left' = Grace
           \/ phase' = "idle" /\ file' = None /\ left' = left
        /\ UNCHANGED <<excluded, answer, transfers, results, requests, listed, promised>>
    BY <1>2 DEF Change, claim
  <2>2. c \in Commands /\ c.op = "host"
    BY DEF Command, Commands
  <2>3. commands' \in Seq(Commands)
    BY <2>1, <2>2, AppendProperties DEF Types, WaitTypes
  <2>4. AfterCommands' = AfterCommands
    BY <2>1, <2>2, ListAppend
  <2>5. Exclusion'
    BY <2>1, <2>4 DEF Exclusion, ExclusionBalanced
  <2>6. WaitTypes'
    <3>1. left' \in Nat /\ (left' <= Timeout \/ left' <= Grace)
      BY <2>1 DEF Types, WaitTypes
    <3>2. /\ phase' \in {"idle", "querying", "downloading", "hosting"}
          /\ file' \in Addons \cup {None} /\ (phase' = "idle" <=> file' = None)
      BY <2>1
    <3> QED
      BY <2>1, <2>3, <3>1, <3>2 DEF Types, WaitTypes
  <2>7. DiskTypes'
    BY <2>1, ReadyTypes DEF Types, DiskTypes
  <2> QED
    BY <2>5, <2>6, <2>7 DEF Types
<1> QED
  BY <1>1, <1>2

LEMMA SteamKeeps == ASSUME Types, Exclusion, Steam PROVE Types' /\ Exclusion'
<1>1. CASE SteamAnswers
  <2>1. /\ UNCHANGED <<phase, file, failed, excluded, left, commands, promised, listed>>
        /\ answer' \in {"map", "other"} /\ commands = <<>>
        /\ UNCHANGED <<transfers, results, installed, acf, disk, engine>>
    BY <1>1 DEF SteamAnswers, wait, engine, claim
  <2>2. Exclusion'
    BY <2>1, ExclusionHeld
  <2>3. WaitTypes' /\ DiskTypes'
    BY <2>1 DEF Types, WaitTypes, DiskTypes, disk, engine
  <2> QED
    BY <2>2, <2>3 DEF Types
<1>2. ASSUME NEW a \in Addons,
             \/ TransferBegins(a) \/ TransferGoesOn(a) \/ TransferSucceeds(a)
             \/ TransferFails(a) \/ ResultArrives(a)
      PROVE  Types' /\ Exclusion'
  <2>1. /\ UNCHANGED <<phase, file, excluded, left, answer, commands, promised>>
        /\ UNCHANGED <<requests, loaded, listed>>
    BY <1>2 DEF TransferBegins, TransferGoesOn, TransferSucceeds, TransferFails,
                ResultArrives, wait, engine, steam, claim
  <2>2. failed' \in BOOLEAN
    BY <1>2 DEF TransferBegins, TransferGoesOn, TransferSucceeds, TransferFails,
                ResultArrives, OnDownloadResult, wait, Types, WaitTypes
  <2>3. Exclusion'
    BY <2>1, ExclusionHeld
  <2>4. WaitTypes'
    BY <2>1, <2>2 DEF Types, WaitTypes
  <2>5. DiskTypes'
    <3>1. CASE TransferBegins(a)
      BY <2>1, <3>1 DEF TransferBegins, Types, DiskTypes, disk
    <3>2. CASE TransferGoesOn(a)
      BY <2>1, <3>2 DEF TransferGoesOn, Types, DiskTypes, steam
    <3>3. CASE TransferSucceeds(a)
      BY <2>1, <3>3 DEF TransferSucceeds, Types, DiskTypes
    <3>4. CASE TransferFails(a)
      BY <2>1, <3>4 DEF TransferFails, Types, DiskTypes
    <3>5. CASE ResultArrives(a)
      BY <2>1, <3>5 DEF ResultArrives, Types, DiskTypes, disk
    <3> QED
      BY <1>2, <3>1, <3>2, <3>3, <3>4, <3>5
  <2> QED
    BY <2>3, <2>4, <2>5 DEF Types
<1> QED
  BY <1>1, <1>2 DEF Steam

LEMMA EngineKeeps == ASSUME Types, Exclusion, Engine PROVE Types' /\ Exclusion'
<1> USE WorkshopAssumption
<1>1. ASSUME NEW elapsed \in 0 .. 1, Frame(elapsed) PROVE Types' /\ Exclusion'
  <2>1. /\ commands' = <<>> /\ listed' = AfterCommands
        /\ UNCHANGED <<phase, file, failed, excluded, answer, promised>>
        /\ UNCHANGED <<transfers, results, installed, acf, disk, loaded>>
        /\ left' = IF left > elapsed THEN left - elapsed ELSE 0
        /\ requests' = requests \cup {c.addon : c \in {d \in ToSet(commands) : d.op = "host"}}
    BY <1>1 DEF Frame, wait, steam, claim
  <2>2. requests' \subseteq Addons
    <3>1. commands \in Seq(Commands)
      BY DEF Types, WaitTypes
    <3>2. \A d \in ToSet(commands) : d \in Commands
      BY <3>1 DEF ToSet
    <3> QED
      BY <2>1, <3>2 DEF Commands, Types, DiskTypes
  <2>3. left' \in Nat /\ (left' <= Timeout \/ left' <= Grace)
    BY <2>1 DEF Types, WaitTypes
  <2>4. commands' \in Seq(Commands)
    BY <2>1
  <2>5. WaitTypes'
    BY <2>1, <2>3, <2>4 DEF Types, WaitTypes
  <2>6. AfterCommands \subseteq Addons
    BY DEF AfterCommands
  <2>7. DiskTypes'
    BY <2>1, <2>2, <2>6 DEF Types, DiskTypes, disk
  <2>8. AfterCommands' = listed'
    <3>1. \A a \in Addons : ListCommands(a)' = {}
      BY <2>1 DEF ListCommands
    <3> QED
      BY <2>1, <2>6, <3>1 DEF AfterCommands
  <2>9. Exclusion'
    BY <2>1, <2>8 DEF Exclusion, ExclusionBalanced
  <2> QED
    BY <2>5, <2>7, <2>9 DEF Types
<1>2. ASSUME NEW a \in Addons, EngineDrops(a) PROVE Types' /\ Exclusion'
  <2>1. /\ requests' = requests \ {a}
        /\ UNCHANGED <<wait, excluded, left, steam, disk, commands, loaded, listed, promised>>
    BY <1>2 DEF EngineDrops, claim
  <2>2. Exclusion'
    BY <2>1, ExclusionHeld DEF wait, steam
  <2>3. WaitTypes' /\ DiskTypes'
    BY <2>1 DEF Types, WaitTypes, DiskTypes, wait, steam, disk
  <2> QED
    BY <2>2, <2>3 DEF Types
<1>3. ASSUME NEW a \in Addons \cup {None}, LevelInit(a) PROVE Types' /\ Exclusion'
  <2>1. /\ Clear /\ loaded' = loaded \cup ({a} \ {None})
        /\ UNCHANGED <<left, steam, disk, requests, listed>>
    BY <1>3 DEF LevelInit
  <2>2. WaitTypes' /\ Exclusion'
    BY <2>1, Cleared DEF Clear, ResetState, steam
  <2>3. DiskTypes'
    BY <2>1 DEF Types, DiskTypes, steam, disk
  <2> QED
    BY <2>2, <2>3 DEF Types
<1>4. CASE CleanerRuns
  <2>1. /\ UNCHANGED <<wait, excluded, left, steam, commands, engine, promised>>
        /\ \E unused \in SUBSET (Addons \ listed) :
             folders' = folders \ unused /\ vpk' = vpk \ unused /\ complete' = complete \ unused
    BY <1>4 DEF CleanerRuns, Clean, claim
  <2>2. Exclusion'
    BY <2>1, ExclusionHeld DEF wait, steam, engine
  <2>3. WaitTypes' /\ DiskTypes'
    BY <2>1 DEF Types, WaitTypes, DiskTypes, wait, steam, engine
  <2> QED
    BY <2>2, <2>3 DEF Types
<1> QED
  BY <1>1, <1>2, <1>3, <1>4 DEF Engine

-----------------------------------------------------------------------------
(* What Settled promises *)

\* A .vpk without the other files is in transfer; what is waited for, or was
\* settled, is listed, so that the cleaner leaves it; and a download of what Steam
\* calls installed has its files, unless it began without them.
Delivery ==
  /\ vpk \subseteq complete \cup transfers
  /\ \A a \in Addons :
       a = promised \/ (phase = "downloading" /\ a = file) =>
         (Cleaner => a \in Owned \cup {excluded})
  /\ phase = "downloading" /\ file \in installed /\ ~inherited => file \in complete
  /\ SettledHolds

WorkshopInv == Types /\ ReleaseInv /\ Marks /\ Exclusion /\ Delivery

\* Nothing is waited for or promised any more.
LEMMA DeliveryGivenUp ==
  ASSUME WorkshopInv, promised' = None, phase' # "downloading",
         vpk' \subseteq complete' \cup transfers'
  PROVE  Delivery'
BY WorkshopAssumption DEF Delivery, SettledHolds

\* Of steps that keep what is complete, and what is waited for and promised.
LEMMA DeliveryHeld ==
  ASSUME WorkshopInv, UNCHANGED <<file, promised, inherited, excluded>>,
         phase' = "downloading" => phase = "downloading" /\ installed' \subseteq installed,
         complete \subseteq complete', vpk' \subseteq complete' \cup transfers'
  PROVE  Delivery'
BY DEF WorkshopInv, Delivery, SettledHolds

LEMMA PollDelivers == ASSUME WorkshopInv, Poll PROVE Delivery'
<1>1. CASE PollRejected \/ PollFailed \/ PollExpired
  <2>1. promised' = None /\ phase' = "idle" /\ UNCHANGED <<vpk, complete, transfers>>
    BY <1>1 DEF PollRejected, PollFailed, PollExpired, Clear, ResetState, Unexclude, steam, disk
  <2> QED
    BY <2>1, DeliveryGivenUp DEF WorkshopInv, Delivery
<1>2. CASE PollConfirmed
  <2>1. phase = "querying" /\ file \in Addons /\ promised = None
    BY <1>2 DEF PollConfirmed, WorkshopInv, Types, WaitTypes, Exclusion
  <2>2. UNCHANGED <<vpk, complete, results>>
    BY <1>2 DEF PollConfirmed, EnsureWorkshopMapReady
  <2>3. CASE Clear /\ UNCHANGED transfers
    BY <2>2, <2>3, DeliveryGivenUp DEF Clear, ResetState, Unexclude, WorkshopInv, Delivery
  <2>4. CASE /\ CanStart(file) /\ StartTransfer(file) /\ ExcludeFromCleaner(file)
             /\ phase' = "downloading" /\ UNCHANGED <<file, failed, promised>>
             /\ inherited' = (file \in installed' \ complete)
    <3>1. Cleaner => file \in Owned \cup {excluded'}
      BY <1>2, <2>4, Started DEF WorkshopInv
    <3>2. transfers \subseteq transfers'
      BY <2>4 DEF StartTransfer
    <3>3. vpk' \subseteq complete' \cup transfers'
      BY <2>2, <3>2 DEF WorkshopInv, Delivery
    <3>4. file \in installed' /\ ~inherited' => file \in complete'
      BY <2>2, <2>4
    <3>5. promised' = None /\ file' = file
      BY <2>1, <2>4
    <3> QED
      BY <2>1, <2>4, <3>1, <3>3, <3>4, <3>5, WorkshopAssumption DEF Delivery, SettledHolds
  <2> QED
    BY <1>2, <2>3, <2>4 DEF PollConfirmed
<1>3. CASE PollSettled
  <2>1. /\ phase = "downloading" /\ ~failed /\ DownloadSettled(file) /\ file \in Addons
        /\ phase' = "idle" /\ promised' = file
        /\ UNCHANGED <<excluded, inherited, vpk, complete, transfers>>
    BY <1>3 DEF PollSettled, ResetState, steam, disk, WorkshopInv, Types, WaitTypes
  <2>2. ~inherited => file \in complete
    BY <2>1 DEF DownloadSettled, IsReady, WorkshopInv, Delivery
  <2> QED
    BY <2>1, <2>2 DEF WorkshopInv, Delivery, SettledHolds
<1>4. CASE PollHosting
  BY <1>4, DeliveryHeld DEF PollHosting, wait, steam, disk, claim, WorkshopInv, Delivery
<1> QED
  BY <1>1, <1>2, <1>3, <1>4 DEF Poll

LEMMA CallDelivers ==
  ASSUME WorkshopInv, NEW a \in Addons, Begin(a) \/ Change(a)
  PROVE  Delivery'
<1>1. CASE Begin(a)
  <2>1. promised' = None /\ phase' \in {"idle", "querying"}
        /\ UNCHANGED <<vpk, complete, transfers>>
    BY <1>1 DEF Begin, Unexclude, disk
  <2> QED
    BY <2>1, DeliveryGivenUp DEF WorkshopInv, Delivery
<1>2. CASE Change(a)
  <2>1. /\ phase' \in {"idle", "hosting"}
        /\ UNCHANGED <<promised, inherited, excluded, vpk, complete, transfers>>
    BY <1>2 DEF Change, EnsureWorkshopMapReady, claim
  <2> QED
    BY <2>1 DEF WorkshopInv, Delivery, SettledHolds
<1> QED
  BY <1>1, <1>2

LEMMA SteamDelivers == ASSUME WorkshopInv, Steam PROVE Delivery'
<1>1. CASE SteamAnswers
  BY <1>1, DeliveryHeld DEF SteamAnswers, wait, disk, claim, WorkshopInv, Delivery
<1>2. ASSUME NEW a \in Addons, TransferBegins(a) PROVE Delivery'
  BY <1>2, DeliveryHeld DEF TransferBegins, wait, disk, claim, WorkshopInv, Delivery
<1>3. ASSUME NEW a \in Addons, TransferGoesOn(a) PROVE Delivery'
  BY <1>3, DeliveryHeld DEF TransferGoesOn, wait, steam, claim, WorkshopInv, Delivery
<1>4. ASSUME NEW a \in Addons, TransferSucceeds(a) PROVE Delivery'
  <2>1. /\ UNCHANGED <<phase, file, promised, inherited, excluded>>
        /\ transfers' = transfers \ {a} /\ installed' = installed \cup {a}
        /\ vpk' = vpk \cup {a} /\ complete' = complete \cup {a}
    BY <1>4 DEF TransferSucceeds, wait, claim, WorkshopInv, Marks
  <2> QED
    BY <2>1 DEF WorkshopInv, Delivery, SettledHolds
<1>5. ASSUME NEW a \in Addons, TransferFails(a) PROVE Delivery'
  <2>1. /\ UNCHANGED <<phase, file, promised, inherited, excluded, installed, complete>>
        /\ transfers' = transfers \ {a}
        /\ vpk' = vpk \ ({a} \ complete)
    BY <1>5 DEF TransferFails, wait, claim
  <2> QED
    BY <2>1 DEF WorkshopInv, Delivery, SettledHolds
<1>6. ASSUME NEW a \in Addons, ResultArrives(a) PROVE Delivery'
  BY <1>6, DeliveryHeld DEF ResultArrives, disk, claim, WorkshopInv, Delivery
<1> QED
  BY <1>1, <1>2, <1>3, <1>4, <1>5, <1>6 DEF Steam

\* The cleaner spares what is listed, and it only runs when the queue is empty.
LEMMA EngineDelivers == ASSUME WorkshopInv, Engine PROVE Delivery'
<1>1. ASSUME NEW elapsed \in 0 .. 1, Frame(elapsed) PROVE Delivery'
  BY <1>1, DeliveryHeld DEF Frame, wait, steam, disk, claim, WorkshopInv, Delivery
<1>2. ASSUME NEW a \in Addons, EngineDrops(a) PROVE Delivery'
  BY <1>2, DeliveryHeld DEF EngineDrops, wait, steam, disk, claim, WorkshopInv, Delivery
<1>3. ASSUME NEW a \in Addons \cup {None}, LevelInit(a) PROVE Delivery'
  BY <1>3, DeliveryGivenUp DEF LevelInit, Clear, ResetState, Unexclude, steam, disk,
                               WorkshopInv, Delivery
<1>4. ASSUME NEW unused \in SUBSET (Addons \ listed), Clean(unused) PROVE Delivery'
  <2>1. /\ Cleaner /\ commands = <<>>
        /\ UNCHANGED <<phase, file, promised, inherited, excluded, installed, transfers>>
        /\ vpk' = vpk \ unused /\ complete' = complete \ unused
    BY <1>4 DEF Clean, wait, steam, claim
  <2>2. listed = Owned \cup ({excluded} \ {None})
    BY <2>1, ListUnchanged DEF WorkshopInv, Exclusion, ExclusionBalanced
  <2>3. \A a \in Addons : a = promised \/ (phase = "downloading" /\ a = file) => a \notin unused
    BY <2>1, <2>2, WorkshopAssumption DEF WorkshopInv, Delivery
  <2>4. promised \in Addons \cup {None} /\ file \in Addons \cup {None}
        /\ (phase = "downloading" => file # None)
    BY DEF WorkshopInv, Types, WaitTypes
  <2> QED
    BY <2>1, <2>3, <2>4 DEF WorkshopInv, Delivery, SettledHolds
<1> QED
  BY <1>1, <1>2, <1>3, <1>4 DEF Engine, CleanerRuns

LEMMA DeliveryInit == Init => Exclusion /\ Delivery
<1> SUFFICES ASSUME Init PROVE Exclusion /\ Delivery
  OBVIOUS
<1>1. AfterCommands = listed
  BY TypesInit, ListUnchanged DEF Init
<1> QED
  BY <1>1, WorkshopAssumption DEF Init, Exclusion, ExclusionBalanced, Delivery, SettledHolds

LEMMA WorkshopInvariance == Spec => []WorkshopInv
<1>1. Init => WorkshopInv
  BY TypesInit, ReleaseInit, DeliveryInit DEF WorkshopInv, Init, Marks
<1>2. WorkshopInv /\ [Next]_vars => WorkshopInv'
  <2> SUFFICES ASSUME WorkshopInv, [Next]_vars PROVE WorkshopInv'
    OBVIOUS
  <2>1. ReleaseInv' /\ Marks'
    BY ReleaseStep, MarksStep DEF WorkshopInv
  <2>2. CASE Plugin
    BY <2>1, <2>2, PollKeeps, CallKeeps, PollDelivers, CallDelivers DEF Plugin, WorkshopInv
  <2>3. CASE Steam
    BY <2>1, <2>3, SteamKeeps, SteamDelivers DEF WorkshopInv
  <2>4. CASE Engine
    BY <2>1, <2>4, EngineKeeps, EngineDelivers DEF WorkshopInv
  <2>5. CASE UNCHANGED vars
    <3>1. Exclusion'
      BY <2>5, ExclusionHeld DEF vars, wait, steam, engine, claim, WorkshopInv
    <3>2. Delivery'
      BY <2>5, DeliveryHeld DEF vars, wait, steam, disk, claim, WorkshopInv, Delivery
    <3>3. Types'
      BY <2>5 DEF vars, wait, steam, disk, engine, claim, WorkshopInv, Types, WaitTypes, DiskTypes
    <3> QED
      BY <2>1, <3>1, <3>2, <3>3 DEF WorkshopInv
  <2> QED
    BY <2>2, <2>3, <2>4, <2>5 DEF Next
<1> QED
  BY <1>1, <1>2, PTL DEF Spec

\* Every variable has its type: there is a file exactly while one waits, and only
\* an addon the owner did not list is to be taken off the list again.
THEOREM WorkshopTypeCorrect == Spec => []TypeOK
<1>1. WorkshopInv => TypeOK
  BY TypesByParts DEF WorkshopInv
<1> QED
  BY <1>1, WorkshopInvariance, PTL

\* However waits begin, end and are given up, and whatever is queued meanwhile,
\* the owner's entries stay on wscleaner_exclude, and what the plugin added is
\* taken off once (ExcludeFromCleaner, Clear).
THEOREM ExclusionCorrect == Spec => []ExclusionBalanced
<1>1. WorkshopInv => ExclusionBalanced
  BY DEF WorkshopInv, Exclusion
<1> QED
  BY <1>1, WorkshopInvariance, PTL

\* After Settled all files of the addon are on disk until the level changes or
\* the wait is cleared, whatever the cleaner and other transfers do and whenever
\* Steam tells of a failure, if Steam did not call it installed without its files
\* when the download began (Poll, DownloadSettled).
THEOREM SettledCorrect == Spec => []SettledHolds
<1>1. WorkshopInv => SettledHolds
  BY DEF WorkshopInv, Delivery
<1> QED
  BY <1>1, WorkshopInvariance, PTL

-----------------------------------------------------------------------------
(* CleanerExclusion, when one plugin waits. *)

CONSTANT Plugins
VARIABLES at, keeps, told, onList, buffer, there, swept

CE == INSTANCE CleanerExclusion WITH
        phase <- at, excluded <- keeps, settled <- told, listed <- onList,
        commands <- buffer, onDisk <- there, cleaned <- swept

\* The addon is listed and will be: by the owner, by an "add" that was run, or by
\* one that is still to be run and that nothing takes back.
Shielded(p) == \/ onList /\ buffer = <<>>
               \/ keeps[p] /\ buffer # <<>> /\ buffer[Len(buffer)] = "add"

\* From its confirmation until the next Clear the plugin's addon is listed or will
\* be, and its next question finds what the wait before queued as run.
Alone(p) ==
  /\ at \in [{p} -> {"Idle", "Asked", "Querying", "Downloading"}]
  /\ keeps \in [{p} -> BOOLEAN] /\ told \subseteq {p}
  /\ buffer \in Seq({"add", "remove"})
  /\ at[p] \in {"Asked", "Querying"} => ~keeps[p] /\ told = {}
  /\ at[p] = "Querying" => buffer = <<>>
  /\ at[p] = "Downloading" => Shielded(p) /\ told = {}
  /\ told # {} => Shielded(p) /\ there
  /\ keeps[p] => Shielded(p)

\* Whatever Clear finds, nothing is kept or promised after it.
LEMMA AloneCleared ==
  ASSUME NEW p, Plugins = {p}, Alone(p), NEW next \in {"Idle", "Asked"}, CE!Clear({p}, next)
  PROVE  Alone(p)'
<1>1. /\ at' = [q \in {p} |-> next] /\ keeps' = [q \in {p} |-> FALSE] /\ told' = {}
  BY DEF CE!Clear, Alone
<1>2. buffer' \in Seq({"add", "remove"})
  BY DEF CE!Clear, Alone
<1> QED
  BY <1>1, <1>2 DEF Alone

LEMMA AloneSteps ==
  ASSUME NEW p, Plugins = {p}, Alone(p), [CE!Next]_(CE!vars)
  PROVE  Alone(p)'
<1>1. CASE CE!Begin(p)
  BY <1>1, AloneCleared DEF CE!Begin
<1>2. CASE CE!PollConfirmed(p)
  <2>1. buffer = <<>> /\ ~keeps[p] /\ told = {} /\ at' = [q \in {p} |-> "Downloading"]
    BY <1>2 DEF CE!PollConfirmed, Alone
  <2>2. CASE onList
    BY <1>2, <2>1, <2>2 DEF CE!PollConfirmed, Alone, Shielded
  <2>3. CASE ~onList
    <3>1. buffer' = Append(buffer, "add") /\ buffer \in Seq({"add", "remove"})
      BY <1>2, <2>3 DEF CE!PollConfirmed, Alone
    <3>2. buffer' \in Seq({"add", "remove"}) /\ Len(buffer') = 1 /\ buffer'[1] = "add" /\ buffer' # <<>>
      BY <2>1, <3>1
    <3>3. keeps' = [keeps EXCEPT ![p] = TRUE]
      BY <1>2, <2>3 DEF CE!PollConfirmed
    <3>4. keeps' \in [{p} -> BOOLEAN] /\ keeps'[p]
      BY <3>3 DEF Alone
    <3> QED
      BY <1>2, <2>1, <3>2, <3>4 DEF CE!PollConfirmed, Alone, Shielded
  <2> QED
    BY <2>2, <2>3
<1>3. CASE CE!PollSettled(p)
  <2>1. at' = [q \in {p} |-> "Idle"] /\ Shielded(p) /\ there
    BY <1>3 DEF CE!PollSettled, Alone
  <2> QED
    BY <1>3, <2>1 DEF CE!PollSettled, Alone, Shielded
<1>4. CASE CE!PollEnds(p)
  BY <1>4, AloneCleared DEF CE!PollEnds
<1>5. CASE CE!Frame
  <2>1. /\ at' = [q \in {p} |-> IF at[p] = "Asked" THEN "Querying" ELSE at[p]]
        /\ buffer' = <<>> /\ UNCHANGED <<keeps, told, there>>
    BY <1>5 DEF CE!Frame
  <2>2. ASSUME Shielded(p) PROVE onList'
    BY <1>5, <2>2 DEF CE!Frame, CE!Last, Shielded
  <2> QED
    BY <2>1, <2>2 DEF Alone, Shielded
<1>6. CASE CE!FilesArrive
  BY <1>6 DEF CE!FilesArrive, Alone, Shielded
<1>7. CASE CE!Clean
  BY <1>7 DEF CE!Clean, Alone, Shielded
<1>8. CASE CE!LevelInit
  BY <1>8, AloneCleared DEF CE!LevelInit
<1>9. CASE UNCHANGED CE!vars
  BY <1>9 DEF CE!vars, Alone, Shielded
<1> QED
  BY <1>1, <1>2, <1>3, <1>4, <1>5, <1>6, <1>7, <1>8, <1>9 DEF CE!Next

\* A plugin whose addon no other plugin waits for finds it on disk from Settled
\* until the level has changed, whatever waits it begins and gives up and whenever
\* wscleaner comes (workshop.cpp:538).  With a second plugin it may not.
THEOREM AloneCorrect ==
  ASSUME NEW CONSTANT p, Plugins = {p}
  PROVE  CE!Spec => []CE!ExclusionOutlastsTheWait
<1>1. CE!Init => Alone(p)
  BY DEF CE!Init, Alone
<1>2. Alone(p) /\ [CE!Next]_(CE!vars) => Alone(p)'
  BY AloneSteps
<1>3. Alone(p) => CE!ExclusionOutlastsTheWait
  BY DEF Alone, CE!ExclusionOutlastsTheWait
<1> QED
  BY <1>1, <1>2, <1>3, PTL DEF CE!Spec

=============================================================================
