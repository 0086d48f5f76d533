-------------------------- MODULE WorkshopDownload --------------------------
(***************************************************************************)
(* game/workshop.cpp: the PendingDownload of one plugin, polled each frame,*)
(* and the two functions that prepare and issue a map change.              *)
(*                                                                         *)
(* External: Steam, which answers a query and transfers addons, also for   *)
(* others; the engine, which executes server commands a frame after they   *)
(* were queued, fetches what host_workshop_map asks for and changes levels;*)
(* and wscleaner, which deletes unused addons once per level.              *)
(***************************************************************************)
EXTENDS Integers, Sequences, SequencesExt

CONSTANTS
  Addons,         \* workshop file ids
  None,           \* 0, no addon
  Owned,          \* addons the server's owner put on wscleaner's exclude list
  Cleaner,        \* TRUE: wscleaner is loaded
  Manager,        \* TRUE: the engine's workshop manager was found
  Timeout,        \* timeoutSecs, in ticks of the clock
  Grace,          \* kChangeGraceSecs
  MaxCalls        \* bound: calls of Begin and of ChangeToWorkshopMap

ASSUME WorkshopAssumption ==
  /\ None \notin Addons /\ Owned \subseteq Addons
  /\ Cleaner \in BOOLEAN /\ Manager \in BOOLEAN
  /\ Timeout \in Nat \ {0} /\ Grace \in Nat \ {0} /\ MaxCalls \in Nat

VARIABLES
  phase, file,       \* m_phase, m_fileId
  excluded,          \* m_cleanerExcluded
  failed,            \* m_downloadFailed
  left,              \* m_deadline - now, or 0 once it is past
  query,             \* m_hQuery: which of the queries, 0 for none
  registered,        \* m_downloadResult is registered with Steam
  queries, released, \* Steam: number of queries, how often each was released
  answer,            \* Steam: its answer to m_hCall: a map or something else
  transfers,         \* Steam: kTransferStates
  results,           \* Steam: failures that are not dispatched yet
  installed,         \* Steam: k_EItemStateInstalled
  acf, acfThere,     \* appworkshop_730.acf: its entries, and whether there is one
  folders, vpk,      \* content/730: folders, and those with a .vpk,
  complete,          \*   all of whose files are there
  torn,              \* transfers that lost their folder on the way
  commands,          \* engine: server commands queued in this frame
  requests, loaded,  \* engine: m_requestedMaps, m_mapLoadedWorkshopMaps
  listed,            \* wscleaner_exclude
  calls,             \* number of calls
  promised,          \* the addon Settled was returned for, until Clear
  inherited          \* history: the download began with Steam calling the addon
                     \*   installed although files of it were gone

reports == <<queries, released>>
wait == <<phase, file, failed, query, registered>>
steam == <<answer, transfers, results, installed, acf, acfThere>>
disk == <<folders, vpk, complete, torn>>
engine == <<requests, loaded, listed>>
claim == <<promised, inherited>>
vars == <<wait, excluded, left, reports, steam, disk, commands, engine,
          calls, claim>>

Init ==
  /\ phase = "idle" /\ file = None /\ excluded = None /\ failed = FALSE
  /\ left = 0 /\ query = 0 /\ registered = FALSE
  /\ queries = 0 /\ released = [q \in 1..MaxCalls |-> 0]
  /\ answer = "none" /\ transfers = {} /\ results = {}
  /\ installed \in SUBSET Addons /\ acf = installed
  /\ acfThere \in BOOLEAN /\ (acf # {} => acfThere)
  /\ complete \in SUBSET Addons /\ vpk = complete /\ folders = complete \cup installed
  /\ torn = {}
  /\ commands = <<>> /\ requests = {} /\ loaded = {} /\ listed = Owned
  /\ calls = 0 /\ promised = None /\ inherited = FALSE

-----------------------------------------------------------------------------
(* Giving up *)

Command(op, a) == [op |-> op, addon |-> a]

KeepQuery == UNCHANGED released    \* mutant

ReleaseQuery ==
  released' = IF query = 0 THEN released ELSE [released EXCEPT ![query] = @ + 1]

Unregister == registered' = IF phase = "downloading" THEN FALSE ELSE registered

ResetState ==
  /\ ReleaseQuery /\ query' = 0
  /\ Unregister
  /\ failed' = FALSE
  /\ phase' = "idle" /\ file' = None

\* Off wscleaner's list again.
Removal == IF excluded = None THEN <<>> ELSE <<Command("remove", excluded)>>

Forget == UNCHANGED commands    \* mutant

TakeOff == commands' = commands \o Removal

\* Clear, but for ResetState.
Unexclude ==
  /\ TakeOff
  /\ excluded' = None
  /\ promised' = None /\ inherited' = FALSE

Clear == ResetState /\ Unexclude

-----------------------------------------------------------------------------
(* EnsureWorkshopMapReady *)

IsReady(a) == a \in vpk

IsRequestPending(a) == Manager /\ a \in requests

AcfInFlight == acf \cap transfers # {}    \* mutant

AnyDownloadInFlight == (acf \cup folders) \cap transfers # {}

\* Without an ACF there is nothing to do; one without entries is one.
IsStale(a) ==
  /\ ~IsReady(a) /\ ~IsRequestPending(a)
  /\ acfThere /\ ~AnyDownloadInFlight

\* Steam may refuse to read the ACF again.  A transfer whose folder goes lacks
\* what it had written by then.
DropStaleAddon(a) ==
  /\ loaded' = IF Manager THEN loaded \ {a} ELSE loaded
  /\ folders' = folders \ {a} /\ torn' = torn \cup ({a} \cap folders \cap transfers)
  /\ acf' = acf \ {a}
  /\ installed' \in {installed} \cup (IF a \in acf THEN {acf'} ELSE {})

EnsureWorkshopMapReady(a) ==
  /\ IF IsStale(a) THEN DropStaleAddon(a) ELSE UNCHANGED <<loaded, folders, torn, acf, installed>>
  /\ UNCHANGED <<acfThere, vpk, complete>>

-----------------------------------------------------------------------------
(* PendingDownload *)

\* With a timeout.  What is under way is cleared even if the question cannot be
\* sent; a query that was created for it is released at once.
Begin(a) ==
  /\ calls < MaxCalls /\ calls' = calls + 1
  /\ Unexclude /\ failed' = FALSE /\ Unregister /\ ReleaseQuery
  /\ \/ /\ phase' = "idle" /\ file' = None /\ query' = 0
        /\ UNCHANGED <<queries, left, answer>>
     \/ /\ phase' = "querying" /\ file' = a
        /\ queries' = queries + 1 /\ query' = queries'
        /\ left' = Timeout
        /\ answer' = "none"
  /\ UNCHANGED <<transfers, results, installed, acf, acfThere, disk, engine>>

\* What can be downloaded: not what Steam calls installed without its files.
CanStart(a) == a \in installed' /\ a \notin transfers => IsReady(a)

\* DownloadItem: what is there already may need no transfer.
StartTransfer(a) ==
  transfers' \in {transfers \cup {a}} \cup (IF a \in installed' THEN {transfers} ELSE {})

\* One that is listed is left alone: the owner listed it.
ExcludeFromCleaner(a) ==
  IF Cleaner /\ a \notin listed
    THEN /\ commands' = Append(commands, Command("add", a))
         /\ excluded' = a
    ELSE UNCHANGED <<commands, excluded>>

\* Rejected.
PollRejected ==
  /\ phase = "querying" /\ answer = "other"
  /\ Clear
  /\ UNCHANGED <<left, queries, steam, disk, engine, calls>>

\* Started or StartFailed: Steam may refuse, too.
PollConfirmed ==
  /\ phase = "querying" /\ answer = "map"
  /\ EnsureWorkshopMapReady(file)
  /\ \/ /\ CanStart(file)
        /\ StartTransfer(file)
        /\ ReleaseQuery /\ query' = 0
        /\ ExcludeFromCleaner(file)
        /\ registered' = TRUE
        /\ phase' = "downloading"
        /\ inherited' = (file \in installed' \ complete)
        /\ UNCHANGED <<file, failed, promised>>
     \/ Clear /\ UNCHANGED transfers
  /\ UNCHANGED <<left, queries, answer, results, requests, listed, calls>>

\* DownloadFailed.
PollFailed ==
  /\ phase = "downloading" /\ failed
  /\ Clear
  /\ UNCHANGED <<left, queries, steam, disk, engine, calls>>

SettledEarly(a) == IsReady(a) \/ a \in installed    \* mutant

DownloadSettled(a) == a \notin transfers /\ (IsReady(a) \/ a \in installed)

\* Settled: the exclusion has to outlast the caller's host_workshop_map.
PollSettled ==
  /\ phase = "downloading" /\ ~failed /\ DownloadSettled(file)
  /\ ResetState
  /\ promised' = file
  /\ UNCHANGED <<excluded, left, queries, steam, disk, commands, engine, calls, inherited>>

KeepWatching ==    \* mutant
  /\ phase = "hosting"
  /\ left' = Grace
  /\ UNCHANGED <<wait, excluded, reports, steam, disk, commands, engine, calls, claim>>

\* The verdict keeps moving out while it is the engine's turn.
PollHosting ==
  /\ phase = "hosting" /\ IsRequestPending(file)
  /\ left' = Grace
  /\ UNCHANGED <<wait, excluded, reports, steam, disk, commands, engine, calls,
                 claim>>

\* Nothing has come of the wait in this frame.
NoNews ==
  \/ phase = "querying" /\ answer = "none"
  \/ phase = "downloading" /\ ~failed /\ ~DownloadSettled(file)
  \/ phase = "hosting" /\ ~IsRequestPending(file)

\* TimedOut, or ChangeFailed.
PollExpired ==
  /\ NoNews /\ left = 0
  /\ Clear
  /\ UNCHANGED <<left, queries, steam, disk, engine, calls>>

\* Otherwise Poll returns Waiting or Announce and only moves the next
\* announcement, which nothing here depends on.
Poll ==
  \/ PollRejected \/ PollConfirmed \/ PollFailed \/ PollSettled
  \/ PollHosting \/ PollExpired

\* ChangeToWorkshopMap, and the caller's WatchEngine right after it.
Change(a) ==
  /\ calls < MaxCalls /\ calls' = calls + 1
  /\ EnsureWorkshopMapReady(a)
  /\ commands' = Append(commands, Command("host", a))
  /\ ReleaseQuery /\ query' = 0 /\ Unregister /\ failed' = FALSE
  /\ IF Manager
       THEN phase' = "hosting" /\ file' = a /\ left' = Grace
       ELSE phase' = "idle" /\ file' = None /\ UNCHANGED left
  /\ UNCHANGED <<excluded, queries, answer, transfers, results, requests, listed,
                 claim>>

-----------------------------------------------------------------------------
(* Steam *)

\* In a later frame than the question.
SteamAnswers ==
  /\ phase = "querying" /\ answer = "none" /\ commands = <<>>
  /\ answer' \in {"map", "other"}
  /\ UNCHANGED <<wait, excluded, left, reports, transfers, results, installed, acf, acfThere,
                 disk, commands, engine, calls, claim>>

\* A transfer begins for another plugin, or Steam updates an addon.
TransferBegins(a) ==
  /\ a \notin transfers
  /\ transfers' = transfers \cup {a}
  /\ UNCHANGED <<wait, excluded, left, reports, answer, results, installed, acf, acfThere,
                 disk, commands, engine, calls, claim>>

\* Some of the files are on disk, the .vpk among them.
TransferGoesOn(a) ==
  /\ a \in transfers
  /\ folders' = folders \cup {a} /\ vpk' = vpk \cup {a}
  /\ UNCHANGED <<wait, excluded, left, reports, steam, complete, torn, commands, engine,
                 calls, claim>>

\* A job that is done writes Steam's own list over the ACF.
TransferSucceeds(a) ==
  /\ a \in transfers
  /\ transfers' = transfers \ {a}
  /\ installed' = installed \cup {a} /\ acf' = installed' /\ acfThere' = TRUE
  /\ folders' = folders \cup {a} /\ vpk' = vpk \cup {a}
  /\ complete' = complete \cup ({a} \ torn) /\ torn' = torn \ {a}
  /\ UNCHANGED <<wait, excluded, left, reports, answer, results, commands, engine, calls, claim>>

OnDownloadResult(a) ==
  failed' = (failed \/ (registered /\ phase = "downloading" /\ file = a))

\* Steam removes what it had of an addon that is not complete.  A failure that
\* will be dispatched to nobody is not kept.
TransferFails(a) ==
  /\ a \in transfers
  /\ transfers' = transfers \ {a}
  /\ vpk' = vpk \ ({a} \ complete) /\ torn' = torn \ {a}
  /\ results' = IF a = file THEN results \cup {a} ELSE results
  /\ UNCHANGED <<wait, excluded, left, reports, answer, installed, acf, acfThere, folders,
                 complete, commands, engine, calls, claim>>

ResultArrives(a) ==
  /\ a \in results
  /\ results' = results \ {a}
  /\ OnDownloadResult(a)
  /\ UNCHANGED <<phase, file, query, registered, excluded, left, reports, answer,
                 transfers, installed, acf, acfThere, disk, commands, engine, calls,
                 claim>>

-----------------------------------------------------------------------------
(* The engine and wscleaner *)

\* The commands of the queue that change whether an addon is listed.
ListCommands(a) == {i \in DOMAIN commands : commands[i].addon = a /\ commands[i].op # "host"}

\* The list when the queue has been executed in its order: for each addon the
\* last command about it tells.
AfterCommands ==
  {a \in Addons :
     \/ a \in listed /\ ListCommands(a) = {}
     \/ \E i \in ListCommands(a) :
          commands[i].op = "add" /\ \A j \in ListCommands(a) : j <= i}

\* The next frame begins: time has passed and the queued commands run.
Frame(elapsed) ==
  /\ left' = IF left > elapsed THEN left - elapsed ELSE 0
  /\ listed' = AfterCommands
  /\ requests' = requests \cup {c.addon : c \in {d \in ToSet(commands) : d.op = "host"}}
  /\ commands' = <<>>
  /\ UNCHANGED <<wait, excluded, reports, steam, disk, loaded, calls,
                 claim>>

\* Fetched, or given up.
EngineDrops(a) ==
  /\ a \in requests
  /\ requests' = requests \ {a}
  /\ UNCHANGED <<wait, excluded, left, reports, steam, disk, commands, loaded, listed,
                 calls, claim>>

\* A level begins, for which the caller clears: that of an addon, or another.
LevelInit(a) ==
  /\ a = None \/ a \in complete
  /\ Clear
  /\ loaded' = loaded \cup ({a} \ {None})
  /\ UNCHANGED <<left, queries, steam, disk, requests, listed, calls>>

\* Takes what it finds unused, but not between a command and its execution.
Clean(unused) ==
  /\ Cleaner /\ commands = <<>>
  /\ folders' = folders \ unused /\ vpk' = vpk \ unused /\ complete' = complete \ unused
  /\ UNCHANGED <<wait, excluded, left, reports, steam, torn, commands, engine, calls, claim>>

CleanerRuns == \E unused \in SUBSET (Addons \ listed) : Clean(unused)

-----------------------------------------------------------------------------
Plugin == Poll \/ \E a \in Addons : Begin(a) \/ Change(a)

Steam ==
  \/ SteamAnswers
  \/ \E a \in Addons :
       \/ TransferBegins(a) \/ TransferGoesOn(a) \/ TransferSucceeds(a)
       \/ TransferFails(a) \/ ResultArrives(a)

Engine ==
  \/ \E elapsed \in 0..1 : Frame(elapsed)
  \/ \E a \in Addons : EngineDrops(a)
  \/ \E a \in Addons \cup {None} : LevelInit(a)
  \/ CleanerRuns

Next == Plugin \/ Steam \/ Engine

Spec == Init /\ [][Next]_vars

\* Each frame polls, time goes on, and the engine drops a request in the end,
\* fetched or not.  Steam need not do anything.
FairSpec ==
  /\ Spec
  /\ WF_vars(Poll) /\ WF_vars(Frame(1))
  /\ WF_vars(\E a \in Addons : EngineDrops(a))

-----------------------------------------------------------------------------
(* Properties *)

\* Types.
TypeOK ==
  /\ phase \in {"idle", "querying", "downloading", "hosting"}
  /\ file \in Addons \cup {None} /\ (phase = "idle" <=> file = None)
  /\ excluded \in (Addons \ Owned) \cup {None} /\ (excluded # None => Cleaner)
  /\ failed \in BOOLEAN /\ registered \in BOOLEAN
  /\ left \in Nat /\ (left <= Timeout \/ left <= Grace)
  /\ queries \in 0..MaxCalls /\ query \in 0..queries
  /\ released \in [1..MaxCalls -> Nat]
  /\ answer \in {"none", "map", "other"}
  /\ transfers \subseteq Addons /\ results \subseteq Addons
  /\ installed \subseteq Addons /\ acf \subseteq Addons /\ acfThere \in BOOLEAN
  /\ complete \subseteq vpk /\ vpk \subseteq folders /\ folders \subseteq Addons
  /\ torn \subseteq transfers
  /\ commands \in Seq([op : {"add", "remove", "host"}, addon : Addons])
  /\ requests \subseteq Addons /\ loaded \subseteq Addons
  /\ listed \subseteq Addons
  /\ calls \in 0..MaxCalls /\ promised \in Addons \cup {None}
  /\ inherited \in BOOLEAN

\* A query that was sent is released once, at the end of its lookup, however
\* the lookup ends (ReleaseQuery), and Steam calls back only during a download.
SteamIsReleased ==
  /\ \A q \in 1..queries : released[q] = IF q = query THEN 0 ELSE 1
  /\ query # 0 <=> phase = "querying"
  /\ registered <=> phase = "downloading"

\* When the queued commands have run, the exclude list is the owner's and what
\* this plugin has to take off again ("taking it back out would drop theirs").
ExclusionBalanced == AfterCommands = Owned \cup ({excluded} \ {None})

\* Settled says "downloaded, change map now": all files are there, and neither
\* the cleaner nor anything else takes them before the level changes, nor has
\* DropStaleAddon taken some while they were fetched.  But not if the download
\* began with a record that outlived the files.
SettledHolds == promised # None /\ ~inherited => promised \in complete

\* A wait comes to an end, whatever Steam does, and so does one for the engine.
WaitEnds == phase # "idle" ~> phase = "idle"
=============================================================================
