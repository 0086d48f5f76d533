# A verification project for mm-utils

mm-utils is the C++ library that a family of Counter-Strike 2 server plugins
(Metamod:Source plugins) is compiled with. It has no program of its own: each
plugin links these sources, calls them from its `Load`, `Unload`, `GameFrame`
and client hooks, and gives them callbacks. This directory holds TLA+ modules
that model its components, TLC configurations that check them, and proofs that
TLAPS checks.

## 1. The system

Everything but the HTTP workers and the writers of the log runs on the game
thread, so most interleavings are not of threads but of *callbacks*: engine
hooks, answers of Steam, of the database or of a client, other plugins being
loaded and unloaded, and a plugin's own code called back in the middle of a
loop of the library.

| component | state it keeps | operations | who it talks to |
|---|---|---|---|
| HTTP client (`utils/http_client`) | queue of requests, worker threads, flags, handles in flight, queue of closures | `Get`, `Post`, `PostForm`, `Shutdown`, `ResetShutdownLatch`, `QueueMainThread`, `DrainMainThread`, `ClearMainQueue` | WinHTTP or libcurl; callbacks on the workers; closures on the game thread |
| SQL connection (`utils/sql`) | connection, interface of sql_mm, retry time, connect callback, table of pending queries | `Init`, `Connect`, `RunFrame`, `Refresh`, `Shutdown`, `Query`, answers | sql_mm, a plugin that may be unloaded and loaded again at any time |
| Workshop download (`game/workshop`) | one `PendingDownload`: status, deadline, UGC query, entry in `wscleaner_exclude` | `Begin`, `Poll`, `Clear`, Steam's callbacks | engine addon queue, Steam UGC, MultiAddonManager, server commands |
| Client cvar queries (`game/cvarquery`) | pending callbacks by slot and cookie | `Query`, `OnRespondCvarValue`, connect and disconnect | the client's network channel, a hook on its answer |
| Player table (`game/players`, `player_table.h`) | per slot: connected, in game, authenticated | client hooks, `OnLateLoad`, `RunFrame` | Steam's confirmation, the plugin's `onAuthenticated` |
| Forward lists (`interfaces/forward_list.h`, cs2admin and cs2rockthevote `forwards.h`) | subscribers with an id and an owner, depth of firing | `Add`, `Remove`, `Drop`, `Clear`, `Fire` | other plugins, which may subscribe or leave inside a call |
| Interface bridge and menus client (`interface_bridge.h`, `menus_client.h`, `admin_access.h`) | pointer to another plugin's interface, menu handles | `Refresh`, `Revalidate`, `Present`, `Shutdown` | the other plugin, which may come, go or be replaced |
| Log (`utils/log`) | open file, its day, listener | `Init`, `Log`, `SetToFile`, `Shutdown` | any thread that logs |
| Text algorithms (`kv_parser.h`, `command_args.h`, `steamid.h`, `translations`, `json.h`, ...) | none, or a loaded table | parse, convert, look up | |
| Targets, chat, printing (`target.h`, `say.h`, `print`, `voice_block`) | little | `FindTargets`, messages | engine |
| SDK access (`sdk/`) | schema cache, addresses | look up offsets, search signatures | engine memory |
| Discord (`discord.h`) | none | `SendPayload` | HTTP client |

Vendored code (`thirdparty/nlohmann`), the interface declarations of other
plugins, the build scripts and the entity accessors are not modelled.

### What is hard

* **HTTP client.** Four workers, the game thread and callbacks share two
  flags, a queue and one handle per worker. Shutdown runs on the game thread
  while transfers are in flight, and both sides close WinHTTP handles. The plugin
  may be loaded again, with the same statics. *Correct* means: each accepted
  request is performed once in the order sent, and is answered once or dropped by
  Shutdown; Shutdown returns and leaves nothing behind; callbacks run
  one at a time; no closure outlives the plugin.
* **SQL connection.** sql_mm may vanish with a connect or queries outstanding,
  and come back in a later frame. *Correct*: the consumer hears once whether its
  connect failed, every query's callback runs once, nothing of a lost sql_mm is
  used, and the connection comes back with it.
* **Workshop download.** A poll per frame races Steam's late answers, a deadline,
  map changes and other plugins on one server-wide console variable. *Correct*:
  a result is reported once, the query handle and the Steam callback are released,
  and what was excluded from the cleaner is included again.
* **Cvar queries and players.** A slot is reused by another client while an
  answer is on its way. *Correct*: an answer reaches the query it belongs to, at
  most once, and only the confirmed occupant of a slot is authenticated.
* **Forward lists, bridge, menus.** Re-entrancy: a subscriber adds, removes or
  drops others while the list is fired; a menu's end shows the next one.
* **Log.** A worker may log while or after the game thread closes the file.

`PROJECT.json` lists these hazards at the lines where they bite.

## 2. Modules

In the order in which they were written, most important first:

| modules | of | theorems |
|---|---|---|
| `RequestLedger`, `HttpClient`, `MCHttpClient` | HTTP client | `HttpClientProofs` |
| `QueryLedger`, `SqlConnection` | SQL connection | `SqlConnectionProofs` |
| `WorkshopDownload`, `CleanerExclusion` | Workshop download, alone and in several plugins | `WorkshopProofs` |
| `CvarQuery`, `Players`, composed by `ClientSlots`, `MCClientSlots` | client cvar queries, player table | `ClientSlotsProofs` |
| `Firing`, `ForwardList`, composed by `Forwards`, `MCForwards` | forward lists and the hosts that have them | `ForwardsProofs` |
| `MenusClient` | menus client over the interface bridge | `MenusClientProofs` |
| `Log` | log | `LogProofs` |
| `KeyValues`, `JsonText`, `MapList`, `ConfigBlocks`, `GameData`, `ChatCommands`, `CommandArgs`, `Targets`, `SteamIds`, `Phrases`, `SigScan`, `Schema`, `ChatPrinter`, `ChatColors`, `VoiceBlock`, `SqlText`, instantiated by `Lookups`, `MCLookups`, `MCText` | text, targets, SDK lookups, printing | `TextProofs` |

`RequestLedger`, `QueryLedger` and `Firing` are abstract specifications: what the
headers promise, without threads, connections or snapshots. Their detailed modules
are shown to implement them, by TLC and by proof.

Modules that carry theorems, and those they use, hold no RECURSIVE operator. What is
only model-checked, and why, is at the end of section 9.

## 3. HTTP client

### `RequestLedger`
What the header promises its caller, with no threads in it: a request is
accepted at the end of `waiting`; the oldest one is started (`active`); an active
one is answered; when none is active the waiting ones may be discarded.

### `HttpClient`
`pc[t]` says where thread `t` is in the source; a step is what a thread does
between two accesses to state that another one may change meanwhile. The other
variables are the statics of `http_client.cpp` under their own names, plus four
that only observe: `answered`, `dropped`, `closes`/`opened` (what happened to each
WinHTTP handle) and `base`, which separates the requests of one plugin load from
those before.

| source | actions |
|---|---|
| `Enqueue`, `EnsureStarted` on the game thread | `Enqueue`, `Push`, `NotifyOne` |
| `WorkerThread` | `TestRunning`, `Take`, `FindEmpty`, `Block`, `WakeSpuriously`, `StartCallback`, `SkipCallback`, `EndCallback` |
| `PerformRequest` (both platforms) | `FailEarly`, `BeginTransfer`, `EndTransfer`, `Release` |
| `Enqueue`, `EnsureStarted` called by a callback, on a worker | `CallbackEnqueue`, `EnsureNotShutdown`, `EnsureRunning`, `Push`, `NotifyOne` |
| `Shutdown` | `BeginShutdown`, `StopRunning`, `NotifyAll`, `CloseCurrent` or `CancelInFlight`, `Join` |
| main-thread queue, load cycle | `DrainMainThread`, `RunClosure`, `ClearMainQueue`, `ResetShutdownLatch` |

`s_mutex` is held across steps only by a worker that evaluated the predicate of
its wait and has not blocked yet (`"parking"`); that is the window in which
notifications that do not take the mutex are lost. `s_callbackMutex` is held by the
worker inside a callback. URL, body and outcome of a request are abstracted to
its number: no property tells them apart.

A callback may queue a closure for the game thread, and a closure may queue
itself again, as callbacks of the plugins do to poll.

### Runs
| run | instance | shows |
|---|---|---|
| `http_linux` | 3 workers, 4 requests, 2 loads, callbacks that send, symmetry | with libcurl the pool implements `RequestLedger`, and Shutdown leaves nothing behind |
| `http_windows` | 2 workers, 3 requests, 2 loads, fairness | handles are closed once; requests settle; Shutdown returns unless it falls in the window |
| `http_restart` | 2 workers, 2 requests, callbacks that send | the pool can be started again over running threads: against "Never restart after Shutdown() has been called." (`http_client.cpp:332`) |
| `http_prompt` | 2 workers, 2 requests, WinHTTP | a transfer published after the sweep of the handles is joined without having been aborted: against "so that Shutdown() can abort a blocking I/O call, instead of waiting for the full HTTP timeout" (`http_client.cpp:55-57`) |

The bounds: `MaxRequests` and `MaxLoads` cap the two counters. Two workers are
enough for every conflict the code has (both pop, both call back, one holds the
mutex while the other runs); the third lets one be in a callback, one be in
transfer and one be parking at once. Two loads let something of the first survive
into the second. One request in `Silent` has no callback. A system that has no call
left to make stops, hence `CHECK_DEADLOCK FALSE`.

**Fairness** (`FairSpec`): the operating system schedules every thread that
can run, and a thread that waits for a mutex which others keep releasing gets it:
strong fairness of each worker's steps and of what the game thread does inside a
call it has begun. Transfers end because both platforms bound them in time. No
fairness is assumed of the plugin's calls or of spurious wake-ups.

`ShutdownReturnsUnlessParking` excepts one window: a worker that has evaluated the
predicate of its wait and not blocked yet misses the notification of Shutdown, which
does not take `s_mutex`. It shows that a hang has no other cause.

## 4. SQL connection

### `QueryLedger`
What `sql.h` promises for the callbacks of accepted queries: each is called once,
in order, unless the connection it waits on is given up, which forgets all that
wait.

### `SqlConnection`
One `Connection` and, as external actions, sql_mm. All of it runs on the game
thread, so an action is a call of the connection from its entry to the first
callback that may call it again. Two loops call such callbacks and go on after
them: `Answer`, whose position is `answering`, and the one in `Refresh`,
whose copy of the table is `orphans`. While either is under way, `Connect`, `Query`
and `Shutdown` may come (from the callback), and other events may not (`Idle`). The
callbacks of a connect are the last thing their function does, so what they call
comes right after.

| source | definitions |
|---|---|
| `Init` | `InitConnection`, `Acquire` |
| `Connect`, `Open` | `Connect`, `Open`, `Ignore`, `OpenFails`, `OpenBegins`, `Abandon` |
| the lambda `Open` gives sql_mm | `ConnectSucceeds`, `ConnectFails`, `EndConnect`, `Announce` |
| `RunFrame` | `RunFrame`, `Due`, `Timer` |
| `Query`, `Answer` | `Query`, `Send`, `SqlAnswers`, `SqlAnswersLate`, `NextRound`, `AnswerRound` |
| `Refresh` | `Refresh`, `Recover` (sql_mm came back), `Lose` (it went), `TellOrphan` |
| `Shutdown`, destructor | `Shutdown` |

Pointers into sql_mm (`m_sql`, the client, `m_conn`) are the number of the load
of sql_mm they point into, so that one into an earlier load can be told from one
into the present. The time of the next retry is kept as a distance, `retryIn`, that
`RunFrame` counts down: only differences of times are compared. `-1` stands for the
`0` of the code that means "none", and `started` says whether the clock is past 0, for
the line that avoids it. A query is its id. `sent` and `late` are sql_mm's: what
it may still answer. It answers in order and drops the callback of a query that
failed; that is what `Answer` is written for.

`connects`, `fails`, `succeeded`, `told` and `forgotten` only observe.

What is assumed of the caller: `Init` is called at most until it succeeded and not
while sql_mm is lost, `Refresh` is called with each (un)load before anything
else, and the schema hook of a connect only sends queries.

### Runs
| run | instance | shows |
|---|---|---|
| `sql` | 2 Connects, 4 queries, 3 loads, fairness | no dangling pointer, nothing after Shutdown, an answer finds its callback; implements `QueryLedger`; only the consumer makes callbacks be forgotten; every Connect is heard of, its failure once; a retry only follows a failure that was announced; the connection comes back with sql_mm |

**Bounds.** `MaxConnects`, `MaxQueries` and `MaxLoads` cap the counters, and a
Connect whose setup queries would not fit is not answered well. Two Connects let one
meet the other's attempt, retry or queries; four queries let some wait on two
connections with one being answered between them; three loads are a loss, a return
and a second loss. `RetrySeconds` is 2, so that a retry can be waited for,
reached in one step or overshot. The system stops when the consumer has shut down,
hence `CHECK_DEADLOCK FALSE`.

The repository does not hold sql_mm, so it does the most it could do, in every history: it
may have no client of the type, give no connection object, answer after a Destroy, and be
unloaded and loaded again between any two events. Under that, some promises of `sql.h` do
not hold (section 11). Each such property names the exception in itself, and three
variables record when it applies:

| variable | a Connect is in it when | excepted from |
|---|---|---|
| `cut` | sql_mm was unloaded during its own attempt (`sql.cpp:257`) | `RetryWasAnnounced`, `ConnectHeard` |
| `balked` | a retry of it found no client or got no connection object (`sql.cpp:119-123`, `:162-169`) | `FailsOnce`, `Reconnects` |
| `missed` | it was due again when sql_mm was unloaded once more (`sql.cpp:257`) | `Reconnects` |

`NothingDangles` is about every pointer: `m_conn`, the client, and `m_sql`, which an Init that
finds no client keeps over an unload, with `m_lost` set, until the next load
replaces it. An answer that comes after Shutdown (`sql.cpp:176`) still sets `m_connected` and
calls the consumer; `StaysShut` says that nothing is opened, waited for or sent by it.

**Fairness.** Loops run on, `RunFrame` is called with a clock that goes on (the
`GameFrame` hook), and an attempt in flight is answered while sql_mm is loaded. Nothing
is assumed of queries, loads or the consumer.

## 5. Workshop download

### `WorkshopDownload`
The `PendingDownload` of one plugin, with the state of Steam, the engine, the disk and
wscleaner as external actions. All of the plugin's code runs on the game thread, so
each call is one action; what makes the component hard is what the others do between
two polls.

| source | definitions |
|---|---|
| `Begin` | `Begin` |
| `Poll` | `Poll`: one disjunct for each way it can end |
| `ReleaseQuery`, `ResetState`, `Clear` | the same, with `Unexclude` for the rest of `Clear` |
| `EnsureWorkshopMapReady`, `DropStaleAddon` | `EnsureWorkshopMapReady`, `IsStale`, `DropStaleAddon` |
| `StartDownload`, `DownloadSettled`, `ExcludeFromCleaner` | `CanStart`, `StartTransfer`, `DownloadSettled`, `ExcludeFromCleaner` |
| `OnDownloadResult` | `ResultArrives` |
| `ChangeToWorkshopMap` and then `WatchEngine` | `Change` |
| level init, for which the caller clears | `LevelInit` |

An addon is a model value. `folders`, `vpk` and `complete` say what is on disk, from a
folder to all the files; `installed` and `acf` what Steam believes and what its file
says. `m_deadline` is kept as the time `left`. A server command waits in `commands`
until the next `Frame`. Announcements and the title are left out: they change
nothing else. `torn` has the transfers of which
`DropStaleAddon` removed the folder: what they fetched before is gone. `promised` and
`inherited` observe: the addon of a `Settled` until the next `Clear`, and whether its download began with
Steam calling it installed although files of it were gone.

### Runs
| run | instance | shows |
|---|---|---|
| `workshop` | 2 addons, one the owner's, 2 calls, fairness | the query and the callback are given back, the exclude list is the owner's in the end, `Settled` holds until the level changes, a wait ends |

**Bounds.** Two addons let another transfer interfere, and one be listed by the
owner. Two calls let a `Begin` meet an earlier wait, a change under way or an exclusion
that was left. Timeouts are one tick: only their order against other events matters.

**Assumed of the environment**, none of which the repository holds: Steam stays up,
answers a query in a later frame than it was sent, writes its own list over the ACF
when a transfer succeeds, and removes the files of a failed one but keeps the
addon's Installed flag; it tells of a failure at any time, before or after the `Poll` that sees
the transfer gone; wscleaner deletes what it finds unused, at any time except
between a queued command and its execution. Of the caller: `Clear` at level init, as the
header asks, and `WatchEngine` right after `ChangeToWorkshopMap`.

`SettledHolds` excepts one case, which `inherited` records. `DropStaleAddon`
skips the prune while any download runs or there is no ACF; Steam then still calls the addon
installed, from before its files were deleted. When the transfer fails and `Poll` sees it gone before the failure is
dispatched, `DownloadSettled` trusts that flag, against "The ACF was pruned and Steam re-asked,
so its answer is fresh rather than inherited" (`workshop.cpp:371-372`). Without
`~inherited` TLC finds that; with it, nothing else makes `Settled` wrong.

An ACF that was read and has no entry is not one that is missing (`acfThere`): with the first the folder is
dropped, with the second it is kept. The look at Steam's transfers and the removal of the folder are one step; a
transfer that Steam begins between the two is not modelled.

**Fairness.** `Poll` is called each frame, so a frame in which it has something to do
comes again and again: weak fairness is enough. The clock goes on, and the engine ends a request
in some way. Steam need not answer or finish anything.

### `CleanerExclusion`
`wscleaner_exclude` is the server's, and each plugin takes off it, in `Clear`, what it
put there. The module has the waits of several plugins for one addon, reduced to what
they do to the list, which the console runs commands on a frame later. Run
`cleaner_shared` (2 plugins) finds that `ExclusionOutlastsTheWait` is violated: the plugin whose wait fails or times
out takes the addon off the list under the other, which was told Settled. For a
plugin whose addon no other one waits for the property is a theorem (`AloneCorrect`). `WorkshopDownload` has one plugin, and an owner's entry.

## 6. Client slots

### `CvarQuery`, `Players`
The two components a plugin calls from its client hooks. Each module holds its own
variables (`s_clients`, `s_counter`, ...; `m_players`) and one operator per operation,
under the name it has in the code. Convars, names and addresses are abstracted: a
callback is the number of its query, a value is who gave it. The counter wraps at
`kOperatingSystemCounter`, which is 3 instead of 65534, so that it does wrap.

### `ClientSlots`
Instantiates both, adds the engine (who is in a slot, put in the server,
confirmed by Steam; the questions each client has still to answer) and the life of the
plugin: loaded, unloaded, unmapped, loaded again.

| source | definitions |
|---|---|
| plugin's `Load`: `cvarquery::Init`, `OnLateLoad`, `ReadLateLoad` | `Load` |
| plugin's `Unload`: `cvarquery::Shutdown`; the library is unmapped | `Unload`, `Unmap` |
| `Query`, `SendQuery` | `SendQuery` |
| `OnRespondCvarValue` | `Respond` |
| `Players::RunFrame` | `RunFrame`, one step to each callback, and `EndFrame` |
| `OnClientConnected`, `OnClientPutInServer`, `OnClientDisconnect` of both | `Connect`, `ConnectBot`, `PutInServer`, `Disconnect`, `Reconnect` |

While a callback of `RunFrame` runs (`at # 0`) it may send queries, kick anybody and fill a
slot with a bot; other events wait. `sent` numbers the queries; `current` has those whose client and
plugin are still there and whose cookie was not given to a later question to that client; `told` counts the calls of `onAuthenticated`. The engine
answers a client's questions over the channel of the client, in order: it goes with the
client, but a level change keeps it (`Reconnect`), so answers do come to
a slot that has been cleared meanwhile.

### Runs
| run | instance | shows |
|---|---|---|
| `slots` | 2 slots (two people and bots in the first, one person in the second), 2 queries, 2 loads, fairness | answers reach their own query and no other, nothing is left to a slot's next client, only the confirmed are authenticated and told of, once, and all of them are |

**Bounds.** `Seats` says who may take which slot: the first changes hands among people
and bots, the second makes `RunFrame`'s loop go on after a callback. `MaxWire` keeps
the plugin's own queries to the first slot, two at a time beside those of the connect.
A query to an empty slot uses up a counter as well, so two queries are enough for the
counter to lap.

With two queries a counter does meet a callback that still waits (`cvarquery.cpp:193` overwrites
it), and a plugin that is loaded again may have the tag it had, with answers of the load before on their
way. `AnswersReachTheirCallback` excepts what follows from these two: the answer may run the callback of
a later question to the same client under the same cookie, and no other.

**Assumed:** no client is joining while the plugin is loaded (`JoinersAtLoad`), because
`ReadLateLoad` sets `inGame` for everyone it finds, "ClientPutInServer
fired before the plugin was there to see it" (`players.cpp:22`), also for a client for
whom it has not: with `JoinersAtLoad = TRUE` `SlotsAreTheOccupants` fails at its conjunct
on `inGame`.

**Fairness.** `RunFrame` is called each frame. Nothing is assumed of clients.

## 7. Forward lists, menus, log

### `Firing`, `ForwardList`, `Forwards`
`ForwardList` has the list of `forward_list.h`: ids, owners, `Add`, `Erase`, and
`Leaked`, the callbacks of a plugin that is out of memory and may not be destroyed.
`Forwards` is a host's set of lists (`cs2admin/forwards.h`, `cs2rockthevote/forwards.h`)
with the plugins Metamod loads and unloads around it. A call of `Fire` is a frame of
`stack`: the snapshot of ids it has still to visit, the entry it calls, and the copy of
that entry's callback. While a callback runs, anything may be called: subscribe,
unsubscribe, fire again, unload somebody else.

| source | definitions |
|---|---|
| `Add`, `Remove`, `Drop`, `Clear` | `RegisterOn`, `UnregisterOn`, `UnloadAnnounced`, `Shutdown` |
| `meta clear`, by the contract of `forwards.h:58-59` | `UnloadSilently`: the plugin has unregistered in its Unload |
| `Fire`, called by the `FireOn...` of the hosts | `FireOn`, `CallNext`, `Return`, `EndFire` |

`ruined` observes the plugins of which code (a call, a copy, a destructor) was run
after they were unmapped. `Firing` is the promise: who is a member when a firing begins
is owed one call, in order, until they leave.

Run `forwards`: 2 interchangeable plugins, 2 lists of which one may block, 3
registrations per list, firings two deep. Two plugins are one that fires and one that is
unloaded under it; three entries let the loop be at the first, lose the second and go
on to the third. The wrap of ids at 2^32 is not modelled. *Assumed:* a plugin is not
unloaded while it is on the call stack; Metamod gives every load a new id.

### `MenusClient`
`InterfaceBridge` (`iface`) and `MenusClient` (`live`) against mm-cs2menus, external,
by the contract of `ics2menus.h`: `valid` are the menus it still knows, `history` what
a slot shows and goes back to. `calls` is the stack: a call of the host that still has
end callbacks to run, or an `onEnd` in which the consumer may show the next menu.

| source | definitions |
|---|---|
| `Refresh` in `OnPluginLoad`, `OnPluginUnload` | `MenusLoad`, `MenusUnload` |
| `Present` in its three ways (`Show`), and its refusal | `Present`, `PresentRefused`, `Displayed` |
| the end callback that `Present` sets, `Forget` | `End`, `Ended`, `Return` |
| `ShowNotice`, `HideNotice` | `ShowNotice`, `NoticeEnds` |
| `Shutdown`, `Revalidate` | `ShutdownBegin`, `ShutdownCancel`, `ShutdownCopy`, `ShutdownDestroy`, `ShutdownNext` |

Run `menus`: 2 slots, 2 loads of mm-cs2menus, 5 menus in each, 6 calls deep. Two loads let
a handle outlive its instance; five menus and six calls let an end present a menu whose
display ends another, in two slots at once, and Shutdown meet what is left. *Simplified:*
a menu is presented once, to one slot; which menu of the history is shown does not
matter to the client; the host ignores a `DestroyMenu` of a menu that is destroyed.
*Assumed:* an `onEnd` run by Shutdown shows at most the next menu of its own slot, and none
when the reason is Destroyed (`ChainsAtUnload`).

### `Log`
`log.cpp` with several threads, midnight, purges and loads. `pc[t]` is where a thread is
in the macros, in the engine's `LoggingSystem_Log` and in `FileListener::Log`; the game
thread is also in `Init`, `PurgeOldLogs` or `Shutdown`. A file is the day it is named
after, `disk` has the day of its last write, `linked` says that the open file
is still in the directory. `strays` and `lost` observe.

Run `log`: 2 workers, 3 days, 2 loads, a retention of 2 days or none; both kinds of
engine (`serialises`): one that locks around listeners, which `log.cpp:32` allows for, and
one that does not, where the plugin joins its workers before Shutdown. Two workers are one that
holds the mutex and one that waits; three days let a line of the first be written on
the second and purged on the third. *Assumed:* nobody takes a whole day from the look
at the date to the write. *Fairness:* a thread that runs goes on, one that waits for a lock
that is released again and again gets it. `LinesAreKept` needs a file per day and more
than one day to keep: with `NewFilePerDay = FALSE` a purge may unlink the file that is
open, and with one day the line that midnight overtakes.

## 8. Text

The pure algorithms are operators, each against a reference definition in its own module
(what was written, what a word is, who is meant). A behaviour is the choice of one input, on
which the algorithm and its reference are evaluated. There are two modules of inputs:

* `Lookups`, for what finds one among many. The sets of inputs are its CONSTANTS, so that the
  properties are theorems about any servers, memories and sequences of calls. What is assumed of
  them is named there, and is what the callers in `src/` give: addresses are not null and the writable
  sections of a module do not overlap (`MemoryAssumption`), the text of a SteamID begins with none of
  the marks `@ $ # &` (`TargetAssumption`), the engine has at most `MAXPLAYERS` clients and
  languages are kept for slots (`GameAssumption`), an account ID has at least two values and
  the upper half of a SteamID64 is not 0 (`AccountAssumption`), a phrase is a text that printf can format, and a line of it
  is one, or holds a conversion that printf does not have (`PhraseAssumption`). Not covered is a text that only has the parts of a
  conversion in an order that printf does not know (`%5-d`): `FormatArgs` takes its flag characters in any order, so the code keeps
  such a line. The other assumptions say of what kind an input is.
* `MCText`, which EXTENDS `MCLookups` (the instance of `Lookups`) by the inputs of the parsers,
  enumerated from short texts. Run `text` checks both.

| invariant | inputs from | modules | what is compared |
|---|---|---|---|
| `TargetsAreMeant` | `Lookups` | `Targets`, `SteamIds` | a pattern finds only who it names; immunity is an order; the forms of a SteamID agree on the account |
| `LookupsAreUnique` | `Lookups` | `SigScan`, `Schema` | a signature or an object is found when there is exactly one, a vtable is of the class that was named; caches never keep a miss |
| `LinesReachTheirReaders` | `Lookups` | `ChatPrinter`, `VoiceBlock` | a line reaches whom it is for, in their language; the voice hook is set as often as it is removed and drops those who were named last |
| `PhrasesFit` | `Lookups` | `Phrases` | `FormatArgs` finds what printf takes; whatever the files say, a client gets the last text in its language that takes the arguments of its phrase, else that of the default language, else the phrase |
| `FilesAreRead` | `MCText` | `KeyValues`, `JsonText`, `MapList`, `ConfigBlocks`, `GameData`, `SqlText`, `ChatColors` | a tree that is written out is read back by `LoadTree` and by `Load`; a reply's string is found; map names are ordered strictly; the last line of a setting counts, old default paths are kept or moved; an escaped text is read back from its literal by either backend, and the LIKE of an auth ID matches its player's rows and no others; every colour tag is resolved, whatever the order of the colours |
| `CommandsAreRead` | `MCText` | `ChatCommands`, `CommandArgs` | tokens are the words; pairs are read as they were written, in every quoting style, and reading twice changes nothing |

**Bounds.** Values of up to 3 characters from the 2 to 7 that the code tells apart, lines of
up to 6, trees of two roots, 2 slots on a server, 8 accounts (`W`) instead of 2^32,
5 to 8 words of memory, 5 schema events (`Half = 4` instead of 2^15), up to 3 clients, 3 config lines,
4 calls of the voice hook. A parser's state is a position, a mode and at most one pending character,
so every transition is reached with such inputs. `TextProofs` needs no bound.

## 9. Proofs

`HttpClientProofs` proves, for every set of workers, bound and platform, under
`HttpAssumption` (a finite non-empty set of workers, the game thread not among
them):

* `TypeCorrect`, `QuiescesCorrect`: by induction with `TypeOK /\ LifeCycle`.
  `LifeCycle` says which flags are up and which threads exist at each point of the
  game thread's calls. It is needed because what Shutdown leaves follows from the
  join, and the join's threads from the flag that started them.
* `FreshCorrect`: `NothingOutlivesUnload` with `LifeCycle`: the queues are empty
  when the next load raises `base`.
* `ExclusiveCorrect`: `CallbacksExclusive` is inductive given the types.
* `LedgerCorrect`: every step is a step of the ledger or a stutter. It needs
  `Numbering`: requests are queued in increasing order and each is held by one worker
  at most, so that an answered request leaves `active`.
* `HandlesCorrect`: with `Publishing`, that a slot holds its own worker's handle,
  which is open.

* `NoticedCorrect`: `PushesAreNoticed` (defined with the proof) is the safety part of `RequestsSettle`: it counts the
  requests in the queue against the threads that are on their way to take one or to
  wake a sleeper. It is inductive with `ParkedOnEmpty`, that a worker between the test of its
  predicate and its sleep holds `s_mutex` over an empty queue.

Only model-checked: the liveness properties.

`SqlConnectionProofs` proves, for every bound, retry time and environment, under
`SqlAssumption` (bounds are natural numbers, there is a retry time and a setup query):

* `SqlTypeCorrect`, `DanglesCorrect`, `StaysShutCorrect`, `ConnectingCorrect`, `RetryCorrect`: from
  `LinkInv`, which adds to the properties that a connection given up has no
  client either (`Gone`), that a request under way is the connection's own and it
  is not connected meanwhile (`Attempt`), that queries wait only on a live connection and
  orphans exist only without one (`Online`), and that there is someone to tell
  (`Named`). `RetryOnlyOffline` is not inductive without them: that a good answer finds
  no retry due follows from `Attempt`.
* `SentCorrect`: with `Order`. sql_mm's answers come with increasing ids, those of
  older connections first; so `Answer(id)`, which tells everything up to `id`, cannot
  reach a query that is still to be answered.
* `QueryLedgerCorrect`: the refinement of `QueryLedger` with `orphans \o pending` as
  what waits. By `Online` one of the two is always empty.
* `ForgetsCorrect`: a retry that is due finds nothing waiting, by `RetryOnlyOffline`
  and `Online`.

* `AnnouncedCorrect`: with `Announced`, that the current Connect is on its first attempt, was heard
  of, will not be tried again, or is in `cut`.
* `FailsOnceCorrect`: with `Counted`, that a first attempt has told nobody yet; only a Connect in
  `balked` has told more than once. Neither has a hypothesis on sql_mm.

Only model-checked: `ConnectHeard`, `Reconnects`. Liveness is out of TLAPS' reach.

`ClientSlotsProofs` proves, for every set of slots and people, counter, bound and
environment, under `SlotsAssumption`:

* `SlotTypeCorrect`, `TrustCorrect`, `ToldCorrect`, and, without clients joining at a load,
  `OccupantsCorrect`: from `SlotInv`, which says of each slot that its row and its data fit
  the present client (`Fits`), that a slot nobody has is neither in game nor confirmed
  (`Seated`), and that a library just mapped knows nobody (`Blank`). `ToldOnce` needs `Seated`:
  who connects is told of anew because nobody was authenticated in the empty slot.
  The engine's hooks share one lemma, `HooksOnSlot`.

* `AnswersCorrect`, an action property: from `SlotInv` and `WireInv`. The
  latter says of each question under way that its callback waits under its cookie while the query is
  current (`Tracked`), of each callback that waits that its question is under way to that client (`Held`), and
  that a query is asked once (`Numbered`). So an answer to a question that is not current can only find the callback of
  another question on the same channel with the same cookie. `UnderIs` says which those are.

Only model-checked: `ConfirmedAreTold`, a liveness property.

`WorkshopProofs` proves, for every set of addons, timeouts and bounds:

* `SteamCorrect`: with `ReleaseInv`: the queries made, released and held add up, and
  no number is held that was not made.
* `WorkshopTypeCorrect`.
* `ExclusionCorrect`: with `Exclusion`, that a question is not answered before the commands of its
  Begin have run, and that nothing is excluded while it is asked. What the queued commands will do is
  stated without a fold (`AfterCommands`): of each addon the last command about it tells.
* `SettledCorrect`: with `Delivery`. A .vpk without the other files is in transfer; what is waited
  for, or was settled, is on the exclude list, so the cleaner leaves it; a download of an
  addon that Steam calls installed has its files, is in transfer, or began with what it inherited.
* `AloneCorrect`, about `CleanerExclusion` with one plugin: from `Alone`: what it waits for since the confirmation, or was told
  of, is on the list with no command queued, or the last queued command puts it there (`Shielded`); its next
  question finds what the wait before has queued as run.

Only model-checked: `WaitEnds`, a liveness property.

`ForwardsProofs` proves, for every set of plugins and lists, any number of
registrations and depth:

* `ForwardsTypeCorrect`, `UnmappedCorrect`: with the invariant that every callback in a list or in a
  frame is of a plugin that is mapped or was replaced by `Empty`, and that whoever is on the
  call stack is mapped.
* `RefinesCorrect`: each step is a step of `Firing` or a stutter. What a frame still owes is its
  snapshot intersected with the list (`Found`), which a leave shrinks and an add, whose id is
  above all of the snapshot, does not grow.

`LogProofs` proves, for every set of workers, days, loads and retentions:

* `LogTypeCorrect`, `QuietCorrect`: from `QuietInv`: the mutex is held from the lock to the end of a line
  (`Exclusive`), an engine with a lock holds it around the listener (`Serial`), on the other
  kind workers are idle during Shutdown (`Joined`); so once the listener is unregistered nobody
  is in it (`Unheard`) and the file stays closed (`Shut`).
* `StrayCorrect`: from `DayInv`, which adds that a file with a stray is of a day that is over
  and nobody is writing to it (`Overtaken`).
* `KeptCorrect`, for `NewFilePerDay` and no retention of one day: from `KeptInv`, which adds that at most one
  midnight passes while a line is on its way (`Timely`) and the open file is removed two
  days after its own at the earliest (`Unlinked`).

Only model-checked: `ShutdownReturns`, a liveness property.

`MenusClientProofs` proves, for every number of slots, loads, menus and nested calls, under
`MenusAssumption`:

* `MenusTypeCorrect`, `HostCorrect`: from `Link`: where the plugin stands to the host
  (`LoadCycle`: `m_iface` is the present instance except while Metamod tells of an unload, and there
  are no handles without it) and that every handle kept anywhere is one of this instance (`Ours`).
* `OwnsCorrect`: with `Booked`. Between two calls the property is plain, but inside the calls
  `m_live` is neither what is shown nor what is known to the host: a menu in it is in its slot's history, or one
  call of the stack has its end to tell, or one call will show it (`Placed`), and no two slots and no two
  calls have the same (`Apart`, `Once`). `Booked` is stated for any stack, so the proof goes by what one
  call adds to it (`StackOnTop`).
* `LeftCorrect`, for `"Destroyed" \notin ChainsAtUnload`: with `Cleaned`, that the slots that Shutdown's loop has
  passed are empty and that of the one it is at all menus are in the copy it destroys. An `onEnd` that shows a
  menu when its own was destroyed breaks it (section 11).

`TextProofs` proves the four invariants of `Lookups` for every value of its constants, that is for
inputs of any size, under its named assumptions:

* `TargetsFound`, `LookupsFound`, `PhrasesFound`, `ReadersReached`: from `InputFits`, the inductive invariant, which says that an
  input is one of those that are given. What is said of the input then is a theorem about the algorithm.

For `TargetsFound`:

* `AccountsCorrect`: for every width `W` of an account ID and every universe, the forms of a SteamID
  are read as one account. It rests on `ReadAs`, what each form is read as, and `PlayerOf64`, that a
  SteamID64 is a player's when its upper half is `Upper`.
* `TargetsCorrect`: `FindTargets` for any finite set of players, any pattern and any SteamIDs. `Proper` says what
  holds of every result, `Fits` what a number or a name adds; each lookup is a lemma. That the digits
  of a number add up to a natural number is `NumeralsCount`.
* `ImmunityCorrect`: who may act on whom, for any admins.

For `LookupsFound`:

* `SignaturesCorrect`: the two scans of `FindUniqueBytes` for any memory, section and signature. The second one
  begins after the first match (`FirstAddress`), so it finds something exactly if there are two places.
* `ObjectsCorrect`: for any number of writable sections. What has been swept so far has shown nothing,
  one address, or two that differ (`Sighted`), and with two the object is refused whatever follows.
* `TablesCorrect`: for any memory, the vtable that `FindVirtualTable` returns is behind the typeinfo of the
  name, with no offset to its top.
* `FieldsCorrect`: for any sequence of plugin calls before and after the schema system is there. The caches hold only what a
  ready system declares, and a positive offset in them is the field's (`SchemaStates`); the answers
  given so far are those of a look without caches (`Replied`).

For `PhrasesFound`:

* `FormatsCorrect`: of any text that printf can format `FormatArgs` lists what it takes. Flags, width and precision are one
  run of flag characters to the code: where printf reads a conversion, the code reads the same one and goes on at the
  same place (`ReadingIsConversion`), and so the arguments from any place on agree, from the end of the text back to its start.
* `TranslationsCorrect`: the table holds of each language the last line that it keeps (`LastIsKept`), and a line is kept
  exactly if printf takes from it what it takes from the phrase (`KeptIfTheSame`): a conversion that printf does not have
  is a `?`, which no phrase that can be formatted has.

For `ReadersReached`:

* `LinesCorrect`: `ChatPrinter`, for any number of slots and any game. A method and its translated variant are
  compared by what one line, one line each (`EachReads`) and one line to all (`FilterReaders`) reach.
* `VoiceCorrect`: for any sequence of `Init` and `Shutdown`: there is one hook from the Init that returned true to
  the Shutdown and none after it (`Balanced`).

`MapOrderCorrect` is a part of `FilesAreRead`: `MapNameLess` is an order for `std::sort`, for names of any length over
any alphabet that has codes. The order of texts is by the first place where they differ (`Before`, `LeastOf`); what is
equal but for case has the same prefix (`EqualKeys`), so the order by key, then by name, is one.

The voice hook, the sweep of sections, the schema caches, the table of a phrase and the digits of a number are folds (`FoldLeft`) over a sequence. What a fold
computes is an induction over data, for which the library's theorems would need an operator as their parameter. The proofs
go another way. The fold is a recursion over *sets of positions*; `Prefixes` says that on `1 .. k` it takes the last one off (`Top`).
`Iterates`, proved from nothing else, takes the place of a recursion theorem: for step *functions* from a set of states to
itself there is a function that the recursion describes. Each algorithm has its own set of states, closed under its steps
(`HookSteps`, `ScanSteps`, `SchemaSteps`, `HandlerSteps`, `DigitCounts`), and then an invariant of the prefixes (`Balanced`, `Sighted`, `Replied`, `Keeps`)
follows by `Induct`, an induction over a *set* of numbers. The loop of `FormatArgs`, which goes on by as much as it has read, is
a recursive function over the places of a text; `Descends` does for it what `Iterates` does for folds.

### Only model-checked
* Liveness: `RequestsSettle`, `ShutdownReturnsUnlessParking`, `ConnectHeard`, `Reconnects`, `WaitEnds`, `ConfirmedAreTold`,
  `ShutdownReturns`. TLAPS has no rules for fairness here.
* `FilesAreRead` (but for the order of map names), `CommandsAreRead`: parsers, escapes and tag scanners. They are
  RECURSIVE operators over texts, whose state grows with what was read; TLC evaluates them, the provers do not see through them.

## 10. Hazards and properties

`PROJECT.json` lists the hazards with the lines where they bite and the properties that
cover them. Each property of a passing run has a mutant: a definition of the code changed
as a plausible bug would (a lock not taken, a snapshot that is not one, a cutoff a day late),
under which TLC finds the property violated.

## 11. Disagreements found

Three are runs that must fail, `http_restart` and `http_prompt` (section 3) and `cleaner_shared` (section 5).
The others were met while modelling; how to see them is said of each.

* A transfer published between Shutdown's loop over the handles and the worker's look at
  `s_running` is not aborted, and Shutdown waits for its timeout (`http_client.cpp:142`): `http_prompt`.
* Shutdown stores `s_running` and notifies without `s_mutex`; a worker between predicate and block
  misses it, and the join hangs, against `http_client.h:33`: `FairSpec` with `ShutdownReturns` (`:402`).
* `m_reconnect` is recomputed at each loss of sql_mm from a connection that the loss before has
  cleared: a second loss before the next frame makes it stay away, against `sql.h:72-73`:
  `Reconnects` without `missed` (`sql.cpp:257`).
* An attempt that `Refresh` drops is repeated as a retry, whose failure is not announced since "the
  consumer already heard that it failed" (`sql.cpp:204`), which it has not: `RetryWasAnnounced` without `cut`.
* A Connect whose retry finds no client or gets no connection object has its callback called with false
  a second time, against "A connect that fails fires cb(false) once" (`sql.h:63`), and is not tried again: `FailsOnce`
  without `balked` (`sql.cpp:119-123`, `:162-169`). An answer that comes after Shutdown arms such a retry, too (`:202`).
* `Settled` may rest on a flag inherited from before the files were deleted (section 5): `SettledHolds`
  without `~inherited` (`workshop.cpp:382`).
* Cookie tag and counter start over with each load of the library, and the counter wraps, so an answer to an
  older question may run another callback: `AnswersReachTheirCallback` without its exception (`cvarquery.cpp:155`, `:193`).
* An `onEnd` that shows a menu when Shutdown destroys one leaves it at the host, against
  `menus_client.h:13`: `NothingLeftAtTheHost` with `ChainsAtUnload = {"Cancelled", "Destroyed"}`. And the
  menu is destroyed before `onEnd`, not after it as `menus_client.h:85` says.
* `LoadTree` accepts a file whose last block is not closed, against "False if missing or malformed" (`kv_parser.h:345`).
* Numerals of 2^32 and more wrap: `#4294967297` names slot 1 (`target.h:83-89`), and the Steam2 form of an account
  reads as another player's; `$-1` wraps in `strtoull`. The SteamID64 of account 0 is accepted, its Steam2 form is refused.
* `GetOffset` cuts offsets to 16 bits. `ChatToPredTV` adds the prefix, `ChatToPredV` does not.
* `Escape` writes `\b` and `\f`, which `GetString` reads as letters; `GetString` finds a quoted key at the end of a value
  before it ("a scan, not a parser").

The passing properties except these by name, where they can occur, and the proofs hold with the exceptions; two
(`JoinersAtLoad`, `ChainsAtUnload`) and those of the text modules are excepted by a constant or the inputs.

## 12. Not modelled

* `thirdparty/nlohmann/json.hpp`, which is 25 526 of the repository's 36 378 lines, and `json_doc.h` over it.
* The declarations of other plugins' interfaces (`ics2menus.h`, `ics2admin.h`, `ics2rtv.h`, cs2kz, sql_mm,
  multiaddonmanager, ...): they hold no code; what they promise is modelled where a component relies on it.
* Entity and pawn accessors of `sdk/`, which read engine memory at an offset and keep no state; the Windows form of
  the vtable lookup, which differs in the tables it walks.
* String building: Discord payloads, `QueryFmt`, URL and header formatting, the bytes of engine
  messages, `say.h`.
* `ParseInt`, `ParseNumber` and the raw spec of `command_args.h`, `GetCollectionManipulator`, the general block of
  `config_blocks.h`; the lookups `InstalledMapIds`, `LoadedMapName` and `DownloadProgress` of the workshop code.
* Build files and continuous integration.
