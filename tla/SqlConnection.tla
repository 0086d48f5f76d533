--------------------------- MODULE SqlConnection ---------------------------
(***************************************************************************)
(* utils/sql.cpp, class Connection: the life cycle of a connection over    *)
(* sql_mm, a plugin that may be unloaded and loaded again at any time, and *)
(* the table of queries that wait for an answer.                           *)
(*                                                                         *)
(* Everything runs on the game thread, but two loops call callbacks of the *)
(* consumer, which may call the connection again before the loop goes on:  *)
(* Answer and Refresh.  answering and orphans say where they are.  sql_mm  *)
(* itself is external: it answers later, at the top of the stack, perhaps  *)
(* for a connection that was destroyed; it may have no client of the type  *)
(* and refuse a connection object; and it is unloaded at any time.         *)
(***************************************************************************)
EXTENDS Integers, Sequences

CONSTANTS
  RetrySeconds,  \* kRetrySeconds, in ticks of the clock
  Setup,         \* queries sent on connect: pragmas and the schema hook's
  MaxConnects,   \* bound: calls of Connect
  MaxQueries,    \* bound: queries accepted
  MaxLoads       \* bound: loads of sql_mm

ASSUME SqlAssumption ==
  /\ RetrySeconds \in Nat \ {0} /\ Setup \in Nat \ {0}
  /\ MaxConnects \in Nat /\ MaxQueries \in Nat /\ MaxLoads \in Nat

VARIABLES
  sql, client,       \* m_sql, and m_sqlite or m_mysql: the load of sql_mm they
  conn,              \*   and m_conn are pointers into, 0 for null
  connected, connecting, shuttingDown, lost, reconnect,
  connectCb,         \* m_connectCb: the Connect whose callback it is
  retryIn,           \* m_retryAt - m_frameTime, or NoRetry
  started,           \* m_frameTime > 0
  lastId, pending,   \* m_lastQueryId, m_pending
  answering,         \* the query whose Answer loop is in a callback, or 0
  orphans,           \* what Refresh's loop has still to call
  sqlmm, loads,      \* sql_mm: the load that is there, or 0, and their number
  request,           \* sql_mm: the Connect it has to answer
  sent, late,        \* sql_mm: the queries it may answer, of m_conn and of others
  connects,          \* number of calls of Connect
  fails, succeeded,  \* how often each heard false (capped), which heard true
  told, forgotten,   \* queries whose callback was called, and never will be
  cut,               \* Connects whose own attempt an unload of sql_mm ended
  balked,            \* Connects a retry of which found no client or got no connection
  missed             \* Connects due again when sql_mm was unloaded once more

iface == <<sql, client>>
link == <<conn, connected, connecting>>
flags == <<shuttingDown, lost, reconnect>>
timer == <<retryIn, started>>
table == <<lastId, pending, forgotten>>
loops == <<answering, orphans>>
self == <<iface, link, flags, connectCb, timer>>
plugin == <<sqlmm, loads>>
wire == <<sent, late>>
heard == <<fails, succeeded>>
excuses == <<cut, balked, missed>>
history == <<connects, heard, told, excuses>>
vars == <<self, table, loops, plugin, request, wire, history>>

NoRetry == -1

Elems(s) == {s[i] : i \in DOMAIN s}

\* No loop is in a callback: the next event can come.
Idle == answering = 0 /\ orphans = <<>>

Init ==
  /\ sql = 0 /\ client = 0
  /\ conn = 0 /\ connected = FALSE /\ connecting = FALSE
  /\ shuttingDown = FALSE /\ lost = FALSE /\ reconnect = FALSE
  /\ connectCb = 0 /\ retryIn = NoRetry /\ started = FALSE
  /\ lastId = 0 /\ pending = <<>> /\ answering = 0 /\ orphans = <<>>
  /\ sqlmm = 0 /\ loads = 0 /\ request = <<>> /\ sent = <<>> /\ late = {}
  /\ connects = 0 /\ fails = [c \in 1..MaxConnects |-> 0] /\ succeeded = {}
  /\ told = <<>> /\ forgotten = {}
  /\ cut = {} /\ balked = {} /\ missed = {}

-----------------------------------------------------------------------------
(* The callback of a Connect *)

HearSuccess(c) == succeeded' = succeeded \cup {c} /\ UNCHANGED fails

HearFailure(c) ==
  /\ fails' = [fails EXCEPT ![c] = IF @ < 2 THEN @ + 1 ELSE @]
  /\ UNCHANGED succeeded

\* m_conn->Destroy() and m_pending.clear().
Abandon ==
  /\ forgotten' = forgotten \cup Elems(pending)
  /\ pending' = <<>>
  /\ sent' = <<>>
  /\ late' = late \cup Elems(sent)

-----------------------------------------------------------------------------
(* Init, Connect and RunFrame *)

\* sql_mm is there: Init fails only if it has no client of the type, and
\* keeps the interface all the same.
Acquire(given) ==
  /\ sql' = sqlmm'
  /\ client' = IF given THEN sqlmm' ELSE 0

\* Once, in AllPluginsLoaded or later.  Without sql_mm nothing changes.
InitConnection ==
  /\ Idle /\ ~shuttingDown /\ ~lost /\ sql = 0 /\ sqlmm # 0
  /\ UNCHANGED plugin
  /\ \E given \in BOOLEAN : Acquire(given)
  /\ UNCHANGED <<link, flags, connectCb, timer, table, loops, request, wire, history>>

TellNobody(c) == UNCHANGED heard    \* mutant

\* A second Connect while one is in flight.
Ignore(c) == HearFailure(c)

StopRetry == retryIn' = NoRetry

\* No client, no host, or no connection object.
OpenFails(c, retry) ==
  /\ conn' = 0 /\ connected' = (connected /\ conn = 0)
  /\ UNCHANGED <<connecting, request>>
  /\ HearFailure(c)
  /\ balked' = IF retry THEN balked \cup {c} ELSE balked

OpenBegins(c, retry) ==
  /\ client # 0
  /\ conn' = client /\ connected' = (connected /\ conn = 0)
  /\ connecting' = TRUE
  /\ request' = <<[cb |-> c, retry |-> retry]>>
  /\ UNCHANGED <<heard, balked>>

\* Unless one is in flight.  An old connection is destroyed, and its queries
\* with it.
Open(c, retry) ==
  /\ UNCHANGED <<iface, flags, lastId, loops, plugin, told, cut, missed>>
  /\ IF connecting
       THEN /\ Ignore(c)
            /\ UNCHANGED <<link, connectCb, retryIn, forgotten, pending, request,
                           wire, balked>>
       ELSE /\ StopRetry
            /\ connectCb' = c
            /\ IF conn # 0 THEN Abandon ELSE UNCHANGED <<forgotten, pending, wire>>
            /\ OpenFails(c, retry) \/ OpenBegins(c, retry)

Connect ==
  /\ connects < MaxConnects
  /\ connects' = connects + 1
  /\ Open(connects', FALSE)
  /\ UNCHANGED started

Timer(elapsed) == retryIn' = IF retryIn = NoRetry THEN NoRetry ELSE retryIn - elapsed

Due(elapsed) == retryIn # NoRetry /\ elapsed >= retryIn

\* RunFrame(now), a time after the last one.
RunFrame(elapsed) ==
  /\ Idle
  /\ started' = (started \/ elapsed > 0)
  /\ UNCHANGED connects
  /\ IF Due(elapsed)
       THEN Open(connectCb, TRUE)
       ELSE /\ Timer(elapsed)
            /\ UNCHANGED <<iface, link, flags, connectCb, table, loops, plugin,
                           request, wire, heard, told, excuses>>

-----------------------------------------------------------------------------
(* Query and Answer *)

Send(n) ==
  LET ids == [i \in 1..n |-> lastId + i]
  IN  /\ lastId' = lastId + n
      /\ pending' = pending \o ids
      /\ sent' = sent \o ids

\* A refused query only calls its callback, and one without a callback is not
\* entered in the table: neither changes anything.
Query ==
  /\ ~shuttingDown /\ conn # 0 /\ connected
  /\ lastId < MaxQueries
  /\ Send(1)
  /\ UNCHANGED <<self, forgotten, loops, plugin, request, late, history>>

AnyIsAnswered(id) == pending # <<>>    \* mutant

IsAnswered(id) == pending # <<>> /\ Head(pending) <= id

TellAndKeep == told' = Append(told, Head(pending)) /\ UNCHANGED pending    \* mutant

TellFirst == told' = Append(told, Head(pending)) /\ pending' = Tail(pending)

\* One round of the loop: the callback of the front, or the end.
AnswerRound(id) ==
  /\ \/ IsAnswered(id) /\ TellFirst /\ answering' = id
     \/ ~IsAnswered(id) /\ answering' = 0 /\ UNCHANGED <<told, pending>>
  /\ UNCHANGED <<self, lastId, forgotten, orphans, plugin, request, connects, heard,
                 excuses>>

\* sql_mm answers in order and says nothing of a query that failed.
SqlAnswers ==
  /\ Idle
  /\ \E i \in DOMAIN sent : /\ sent' = SubSeq(sent, i + 1, Len(sent))
                            /\ AnswerRound(sent[i])
  /\ UNCHANGED late

SqlAnswersLate ==
  /\ Idle
  /\ \E id \in late : late' = late \ {id} /\ AnswerRound(id)
  /\ UNCHANGED sent

NextRound ==
  /\ answering # 0
  /\ AnswerRound(answering)
  /\ UNCHANGED wire

-----------------------------------------------------------------------------
(* The answer to a connect *)

EndConnect(success) ==
  /\ Idle /\ request # <<>>
  /\ connecting' = FALSE /\ connected' = success
  /\ request' = <<>>
  /\ UNCHANGED <<iface, conn, flags, connectCb, started, forgotten, loops, plugin, late,
                 connects, told, excuses>>

\* Query refuses what is sent after Shutdown.  The schema hook only sends
\* queries; what the callback calls comes right after.
ConnectSucceeds ==
  /\ EndConnect(TRUE)
  /\ IF shuttingDown \/ conn = 0
       THEN UNCHANGED <<lastId, pending, sent>>
       ELSE lastId + Setup <= MaxQueries /\ Send(Setup)
  /\ HearSuccess(Head(request).cb)
  /\ UNCHANGED retryIn

AnnounceAlways(r) == HearFailure(r.cb)    \* mutant

AnnounceNever(r) == UNCHANGED heard    \* mutant

\* The consumer hears of its own attempt only.
Announce(r) == IF r.retry THEN UNCHANGED heard ELSE HearFailure(r.cb)

ConnectFails ==
  /\ EndConnect(FALSE)
  /\ retryIn' = RetrySeconds
  /\ Announce(Head(request))
  /\ UNCHANGED <<lastId, pending, sent>>

-----------------------------------------------------------------------------
(* Shutdown, also from the destructor *)

Shutdown ==
  /\ shuttingDown' = TRUE
  /\ sql' = 0 /\ client' = 0
  /\ conn' = 0 /\ connected' = FALSE /\ connecting' = FALSE
  /\ StopRetry
  /\ Abandon
  /\ UNCHANGED <<lost, reconnect, connectCb, started, lastId, loops, plugin, request,
                 history>>

-----------------------------------------------------------------------------
(* sql_mm comes and goes: Refresh is called at once *)

RetryNow == retryIn' = IF started THEN 0 ELSE NoRetry    \* mutant

\* At max(m_frameTime, 1e-9): 0 would mean that no retry is due.
RetryAtNextFrame == retryIn' = IF started THEN 0 ELSE 1

Recover ==
  \E given \in BOOLEAN :
    /\ Acquire(given)
    /\ lost' = ~given
    /\ IF given /\ reconnect THEN RetryAtNextFrame ELSE UNCHANGED retryIn

RefreshAlways ==    \* mutant
  /\ IF lost THEN Recover ELSE UNCHANGED <<iface, lost, retryIn>>
  /\ UNCHANGED <<link, shuttingDown, reconnect, connectCb, started, table, loops,
                 request, wire, history>>

Refresh ==
  /\ IF lost /\ ~shuttingDown THEN Recover ELSE UNCHANGED <<iface, lost, retryIn>>
  /\ UNCHANGED <<link, shuttingDown, reconnect, connectCb, started, table, loops,
                 request, wire, history>>

LoadSqlmm ==
  /\ Idle /\ sqlmm = 0 /\ loads < MaxLoads
  /\ sqlmm' = loads + 1 /\ loads' = loads + 1
  /\ Refresh

\* Another plugin is loaded or unloaded: matters if Init failed the last time.
LoadOther ==
  /\ Idle /\ sqlmm # 0
  /\ UNCHANGED plugin
  /\ Refresh

KeepClient == conn' = 0 /\ UNCHANGED client    \* mutant

DropPointers == conn' = 0 /\ client' = 0

GoOffline == connected' = FALSE /\ connecting' = FALSE

ClearPending == forgotten' = forgotten \cup Elems(pending) /\ UNCHANGED orphans    \* mutant

OrphanPending == orphans' = pending /\ UNCHANGED forgotten

\* Who will not hear of it, and who will not be tried again.
NoteTheLoss ==
  /\ cut' = IF connecting /\ ~Head(request).retry THEN cut \cup {connectCb} ELSE cut
  /\ missed' = IF retryIn # NoRetry /\ conn = 0 THEN missed \cup {connectCb} ELSE missed

Lose ==
  /\ lost' = TRUE
  /\ reconnect' = (conn # 0 \/ connecting)
  /\ sql' = 0 /\ DropPointers /\ GoOffline
  /\ StopRetry
  /\ OrphanPending /\ pending' = <<>>
  /\ NoteTheLoss

\* sql_mm takes what it has not answered with it.
UnloadSqlmm ==
  /\ Idle /\ sqlmm # 0
  /\ sqlmm' = 0
  /\ request' = <<>> /\ sent' = <<>> /\ late' = {}
  /\ IF lost \/ shuttingDown \/ sql = 0
       THEN UNCHANGED <<iface, link, lost, reconnect, retryIn, pending, orphans,
                        forgotten, cut, missed>>
       ELSE Lose
  /\ UNCHANGED <<shuttingDown, connectCb, started, lastId, answering, loads,
                 connects, heard, told, balked>>

\* query.cb(nullptr), one after the other.
TellOrphan ==
  /\ orphans # <<>>
  /\ told' = Append(told, Head(orphans))
  /\ orphans' = Tail(orphans)
  /\ UNCHANGED <<self, table, answering, plugin, request, wire, connects, heard,
                 excuses>>

-----------------------------------------------------------------------------
Consumer == InitConnection \/ Connect \/ Query \/ Shutdown

Sqlmm ==
  \/ SqlAnswers \/ SqlAnswersLate \/ ConnectSucceeds \/ ConnectFails
  \/ LoadSqlmm \/ LoadOther \/ UnloadSqlmm

Frame == \E elapsed \in 0..RetrySeconds : RunFrame(elapsed)

Next == Consumer \/ Sqlmm \/ Frame \/ NextRound \/ TellOrphan

Spec == Init /\ [][Next]_vars

(***************************************************************************)
(* The loops run on, the consumer calls RunFrame every frame with a clock  *)
(* that goes on, and sql_mm answers every connect, well or badly, while it *)
(* is loaded.  Nothing is assumed of queries or of loads.                  *)
(***************************************************************************)
FairSpec ==
  /\ Spec
  /\ WF_vars(NextRound) /\ WF_vars(TellOrphan)
  /\ WF_vars(\E elapsed \in 1..RetrySeconds : RunFrame(elapsed))
  /\ WF_vars(ConnectSucceeds \/ ConnectFails)

-----------------------------------------------------------------------------
(* Properties *)

LinkTypes ==
  /\ sql \in 0..MaxLoads /\ client \in 0..MaxLoads /\ conn \in 0..MaxLoads
  /\ connected \in BOOLEAN /\ connecting \in BOOLEAN /\ shuttingDown \in BOOLEAN
  /\ lost \in BOOLEAN /\ reconnect \in BOOLEAN /\ started \in BOOLEAN
  /\ connectCb \in 0..MaxConnects /\ connects \in 0..MaxConnects
  /\ retryIn \in NoRetry..RetrySeconds /\ (retryIn # NoRetry => connectCb # 0)
  /\ sqlmm \in 0..MaxLoads /\ loads \in 0..MaxLoads
  /\ request \in Seq([cb : 1..MaxConnects, retry : BOOLEAN])
  /\ fails \in [1..MaxConnects -> 0..2] /\ succeeded \subseteq 1..MaxConnects
  /\ cut \cup balked \cup missed \subseteq 1..MaxConnects

Ids == 1..MaxQueries

TableTypes ==
  /\ lastId \in 0..MaxQueries /\ answering \in 0..MaxQueries
  /\ pending \in Seq(Ids) /\ orphans \in Seq(Ids)
  /\ sent \in Seq(Ids) /\ late \subseteq Ids
  /\ told \in Seq(Ids) /\ forgotten \subseteq Ids

\* Types, and that whoever is to be told of a retry is known.
TypeOK == LinkTypes /\ TableTypes

\* No pointer into an sql_mm that was unloaded is called through ("nothing calls
\* into it", Refresh).  Only the interface that an Init has kept that found no
\* client outlives it, while m_lost is set: Refresh takes another before it is used.
NothingDangles ==
  /\ conn # 0 => conn = sqlmm
  /\ client # 0 => client = sqlmm
  /\ sql # 0 /\ ~lost => sql = sqlmm

\* Nothing is opened, waited for or sent after Shutdown, whatever answers come
\* late, retries they arm and returns of sql_mm ("latch shutdown so in-flight
\* callbacks bail").
StaysShut ==
  shuttingDown => conn = 0 /\ ~connecting /\ pending = <<>> /\ sent = <<>>

\* What sql_mm will still answer has its callback waiting, so an answer is
\* never taken for the failure of another query (Answer).
SentAreWaiting == Elems(sent) \subseteq Elems(pending)

\* m_connecting is only set while an answer is on its way that clears it:
\* otherwise every later Connect would be refused (Open).
ConnectingEnds == connecting => request # <<>> /\ conn # 0

\* A retry is never due while there is a connection or an attempt: it would
\* destroy it, and the queries on it.
RetryOnlyOffline == retryIn # NoRetry => ~connecting /\ (connected => conn = 0)

\* Callbacks are forgotten by the consumer's own Connect or Shutdown, and never
\* by a retry or the loss of sql_mm ("waiting queries get cb(nullptr)").
ForgetsOnlyWhenAsked ==
  [][forgotten' # forgotten => connects' # connects \/ shuttingDown']_vars

Ledger == INSTANCE QueryLedger WITH accepted <- lastId, waiting <- orphans \o pending

\* Each callback is called once, in the order the queries were sent, whatever
\* the callbacks themselves call (Answer, Refresh).
RefinesQueryLedger == Ledger!QSpec

\* "A connect that fails fires cb(false) once", however often it is retried: a
\* second time only where a retry finds no client or gets no connection object (Open).
FailsOnce == \A c \in 1..MaxConnects : fails[c] > 1 => c \in balked

Heard(c) == fails[c] > 0 \/ c \in succeeded

\* A retry that fails is not announced, because "the consumer already heard that
\* it failed" (Open): its Connect was answered before, unless an unload of sql_mm
\* ended the attempt it would have heard of.
RetryWasAnnounced ==
  request # <<>> /\ Head(request).retry =>
    LET c == Head(request).cb IN Heard(c) \/ c \in cut

\* Every Connect is heard of (Connect's header comment), with the same exception.
ConnectHeard ==
  \A c \in 1..MaxConnects :
    connects >= c ~> Heard(c) \/ shuttingDown \/ c \in cut

\* An Init of the sql_mm that is there has found no client in it.
WithoutClient == lost /\ sqlmm # 0 /\ sql = sqlmm

\* "Once it is back RunFrame connects again" (Refresh's header comment), unless
\* the consumer connects anew, sql_mm has no client or gives no connection, or it
\* was unloaded again before the attempt.
Reconnects ==
  <>[](sqlmm # 0) =>
    \A c \in 1..MaxConnects :
      lost /\ reconnect /\ connectCb = c ~>
        \/ conn # 0 \/ shuttingDown \/ connectCb # c
        \/ WithoutClient \/ c \in balked \cup missed
=============================================================================
