--------------------------- MODULE CleanerExclusion ---------------------------
(***************************************************************************)
(* PendingDownload (game/workshop.cpp) in several plugins of one server     *)
(* that wait for the same addon, over the one list wscleaner_exclude.  Each *)
(* plugin has its own PendingDownload.  WorkshopDownload has a single wait  *)
(* in full; here a wait is what it does to the list.                        *)
(***************************************************************************)
EXTENDS Naturals, Sequences, SequencesExt

CONSTANT Plugins

VARIABLES
  phase,     \* of each plugin: m_phase; "Asked" until the frame of the answer
  excluded,  \* m_cleanerExcluded is the addon, for each plugin
  settled,   \* the plugins told Settled, until the level init that follows
  listed,    \* the addon is on wscleaner_exclude
  commands,  \* of the engine's buffer, run by the next frame
  onDisk,    \* the addon's files are there
  cleaned    \* wscleaner has cleaned in this level

vars == <<phase, excluded, settled, listed, commands, onDisk, cleaned>>

Init ==
  /\ phase = [p \in Plugins |-> "Idle"]
  /\ excluded = [p \in Plugins |-> FALSE]
  /\ settled = {}
  /\ listed \in BOOLEAN  \* by the server's owner
  /\ commands = <<>>
  /\ onDisk \in BOOLEAN
  /\ cleaned \in BOOLEAN

\* Clear.
Clear(P, next) ==
  /\ phase' = [p \in Plugins |-> IF p \in P THEN next ELSE phase[p]]
  /\ excluded' = [p \in Plugins |-> excluded[p] /\ p \notin P]
  /\ settled' = settled \ P
  /\ commands' = IF \E p \in P : excluded[p] THEN Append(commands, "remove") ELSE commands

Begin(p) ==
  /\ Clear({p}, "Asked")
  /\ UNCHANGED <<listed, onDisk, cleaned>>

\* Poll, in Querying.
PollConfirmed(p) ==
  /\ phase[p] = "Querying"
  /\ phase' = [phase EXCEPT ![p] = "Downloading"]
  /\ IF listed
     THEN UNCHANGED <<excluded, commands>>
     ELSE /\ excluded' = [excluded EXCEPT ![p] = TRUE]
          /\ commands' = Append(commands, "add")
  /\ UNCHANGED <<settled, listed, onDisk, cleaned>>

\* Poll, in Downloading: ResetState keeps the exclusion.
PollSettled(p) ==
  /\ phase[p] = "Downloading" /\ onDisk
  /\ phase' = [phase EXCEPT ![p] = "Idle"]
  /\ settled' = settled \cup {p}
  /\ UNCHANGED <<excluded, listed, commands, onDisk, cleaned>>

\* Poll: the addon was refused, the transfer failed, or the deadline passed.
PollEnds(p) ==
  /\ phase[p] \in {"Querying", "Downloading"}
  /\ Clear({p}, "Idle")
  /\ UNCHANGED <<listed, onDisk, cleaned>>

-----------------------------------------------------------------------------
(* The engine, Steam and wscleaner are external. *)
Frame ==
  /\ listed' = IF commands = <<>> THEN listed ELSE Last(commands) = "add"
  /\ commands' = <<>>
  /\ phase' = [p \in Plugins |-> IF phase[p] = "Asked" THEN "Querying" ELSE phase[p]]
  /\ UNCHANGED <<excluded, settled, onDisk, cleaned>>

FilesArrive ==
  /\ \E p \in Plugins : phase[p] = "Downloading"
  /\ onDisk' = TRUE
  /\ UNCHANGED <<phase, excluded, settled, listed, commands, cleaned>>

\* Once per level, what is neither listed nor in use.
Clean ==
  /\ ~cleaned /\ commands = <<>>
  /\ cleaned' = TRUE
  /\ onDisk' = (onDisk /\ listed)
  /\ UNCHANGED <<phase, excluded, settled, listed, commands>>

\* The next level, which may be the addon's: plugins call Clear (workshop.h:105).
LevelInit ==
  /\ Clear(Plugins, "Idle")
  /\ cleaned' = FALSE
  /\ UNCHANGED <<listed, onDisk>>

Next ==
  \/ \E p \in Plugins : Begin(p) \/ PollConfirmed(p) \/ PollSettled(p) \/ PollEnds(p)
  \/ Frame \/ FilesArrive \/ Clean \/ LevelInit

Spec == Init /\ [][Next]_vars

-----------------------------------------------------------------------------
\* A plugin that was told Settled finds the addon on disk until the level has
\* changed: the exclusion outlasts the caller's host_workshop_map
\* (workshop.cpp:538), whatever other plugins wait for.
ExclusionOutlastsTheWait == settled = {} \/ onDisk
=============================================================================
