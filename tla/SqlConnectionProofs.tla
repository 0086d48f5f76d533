------------------------ MODULE SqlConnectionProofs ------------------------
(***************************************************************************)
(* Theorems about SqlConnection, for any bounds, whatever sql_mm does.     *)
(***************************************************************************)
EXTENDS SqlConnection, SequenceTheorems, TLAPS

(***************************************************************************)
(* What makes the properties inductive.                                    *)
(***************************************************************************)
\* Without sql_mm, or after Shutdown, there is no client and no connection.
Gone ==
  /\ lost \/ shuttingDown \/ sql = 0 => client = 0 /\ conn = 0
  /\ shuttingDown => sql = 0

\* A connect under way is the connection's own and has not succeeded yet.
Attempt ==
  /\ request # <<>> => connecting \/ shuttingDown
  /\ connecting => ~connected

\* Queries wait only on a connection that is up, and are orphaned only when
\* there is none.
Online ==
  /\ connected => conn # 0 \/ shuttingDown
  /\ pending # <<>> => connected /\ conn # 0
  /\ orphans # <<>> => conn = 0 /\ client = 0

\* There is a callback to tell wherever one may be told.
Named == conn # 0 \/ request # <<>> \/ reconnect => connectCb # 0

LinkInv == Gone /\ Attempt /\ Online /\ Named
             /\ NothingDangles /\ ConnectingEnds /\ RetryOnlyOffline

\* sql_mm answers in the order of the ids: those of older connections first,
\* and what it may still answer comes after the query being answered.
Order ==
  /\ \A i, j \in 1..Len(sent) : i < j => sent[i] < sent[j]
  /\ \A x \in Elems(sent) : answering < x /\ x <= lastId /\ \A id \in late : id < x
  /\ answering <= lastId /\ \A id \in late : id <= lastId

TableInv == TableTypes /\ Order /\ SentAreWaiting

\* The abbreviations the actions are written with are expanded everywhere.
USE DEF iface, link, flags, timer, table, loops, self, plugin, wire, heard, excuses, history,
  Abandon, Acquire, Ignore, StopRetry, Timer, Due, TellFirst,
  EndConnect, Announce, RetryAtNextFrame, Recover, Refresh, DropPointers, GoOffline,
  OrphanPending, NoteTheLoss, Lose, Idle, NoRetry

-----------------------------------------------------------------------------
(* Types *)

\* Hearing of a failure keeps the counts typed.
LEMMA HearFailureTypes ==
  ASSUME fails \in [1..MaxConnects -> 0..2], NEW c \in 1..MaxConnects, HearFailure(c)
  PROVE  fails' \in [1..MaxConnects -> 0..2] /\ succeeded' = succeeded
  BY DEF HearFailure

LEMMA HearSuccessTypes ==
  ASSUME succeeded \subseteq 1..MaxConnects, NEW c \in 1..MaxConnects, HearSuccess(c)
  PROVE  succeeded' \subseteq 1..MaxConnects /\ fails' = fails
  BY DEF HearSuccess

\* A connect under way is that of a known Connect.
LEMMA RequestTypes ==
  ASSUME LinkTypes, request # <<>>
  PROVE  Head(request) \in [cb : 1..MaxConnects, retry : BOOLEAN]
  BY HeadTailProperties DEF LinkTypes

LEMMA LinkTypesInit == Init => LinkTypes
<1> SUFFICES ASSUME Init PROVE LinkTypes
  OBVIOUS
<1>1. fails \in [1..MaxConnects -> 0..2]
  BY DEF Init
<1>2. request \in Seq([cb : 1..MaxConnects, retry : BOOLEAN])
  BY DEF Init
<1>3. sql \in 0..MaxLoads /\ client \in 0..MaxLoads /\ conn \in 0..MaxLoads
      /\ sqlmm \in 0..MaxLoads /\ loads \in 0..MaxLoads
      /\ connectCb \in 0..MaxConnects /\ connects \in 0..MaxConnects
      /\ retryIn \in NoRetry..RetrySeconds /\ (retryIn # NoRetry => connectCb # 0)
  BY SqlAssumption DEF Init
<1>4. QED
  BY <1>1, <1>2, <1>3 DEF Init, LinkTypes

LEMMA LinkInvInit == Init => LinkInv
  BY DEF Init, LinkInv, Gone, Attempt, Online, Named,
     NothingDangles, ConnectingEnds, RetryOnlyOffline

\* What a call of Open does, by the consumer or by RunFrame.
LEMMA OpenTypes ==
  ASSUME LinkTypes, LinkInv, NEW c \in 1..MaxConnects, NEW retry \in BOOLEAN,
         Open(c, retry), connects' \in 0..MaxConnects, started' \in BOOLEAN
  PROVE  LinkTypes'
<1> USE SqlAssumption DEF LinkTypes, LinkInv, Named, RetryOnlyOffline
<1>1. CASE connecting
  <2>1. fails' \in [1..MaxConnects -> 0..2] /\ succeeded' \subseteq 1..MaxConnects
    BY <1>1, HearFailureTypes DEF Open
  <2>2. QED
    BY <1>1, <2>1 DEF Open
<1>2. CASE ~connecting /\ OpenFails(c, retry)
  <2>1. fails' \in [1..MaxConnects -> 0..2] /\ succeeded' \subseteq 1..MaxConnects
    BY <1>2, HearFailureTypes DEF OpenFails
  <2>2. QED
    BY <1>2, <2>1 DEF Open, OpenFails
<1>3. CASE ~connecting /\ OpenBegins(c, retry)
  <2>1. request' \in Seq([cb : 1..MaxConnects, retry : BOOLEAN])
    BY <1>3 DEF OpenBegins
  <2>2. QED
    BY <1>3, <2>1 DEF Open, OpenBegins
<1>4. QED
  BY <1>1, <1>2, <1>3 DEF Open

\* The invariant of the flags is kept by Open.
LEMMA OpenKeeps ==
  ASSUME LinkTypes, LinkInv, NEW c \in 1..MaxConnects, NEW retry \in BOOLEAN,
         Open(c, retry)
  PROVE  LinkInv'
<1> USE SqlAssumption DEF LinkTypes, LinkInv, Gone, Attempt, Online, Named,
     NothingDangles, ConnectingEnds, RetryOnlyOffline
<1>1. CASE connecting
  BY <1>1 DEF Open
<1>2. CASE ~connecting /\ OpenFails(c, retry)
  <2>1. pending' = <<>> /\ (request = <<>> \/ shuttingDown)
    BY <1>2 DEF Open
  <2>2. QED
    BY <1>2, <2>1 DEF Open, OpenFails
<1>3. CASE ~connecting /\ OpenBegins(c, retry)
  BY <1>3 DEF Open, OpenBegins
<1>4. QED
  BY <1>1, <1>2, <1>3 DEF Open

LEMMA LinkTypesStep ==
  ASSUME LinkTypes, LinkInv, [Next]_vars
  PROVE  LinkTypes'
<1> USE SqlAssumption DEF LinkTypes, LinkInv, Named
<1>1. CASE InitConnection
  BY <1>1 DEF InitConnection
<1>2. CASE Connect
  <2>1. connects' \in 1..MaxConnects /\ connects' \in 0..MaxConnects
    BY <1>2 DEF Connect
  <2>2. started' \in BOOLEAN
    BY <1>2 DEF Connect
  <2>3. Open(connects', FALSE)
    BY <1>2, Zenon DEF Connect
  <2>4. QED
    BY <2>1, <2>2, <2>3, OpenTypes
<1>3. CASE Query
  BY <1>3 DEF Query
<1>4. CASE Shutdown
  <2>1. request' \in Seq([cb : 1..MaxConnects, retry : BOOLEAN])
    BY <1>4 DEF Shutdown
  <2>2. retryIn' = NoRetry /\ retryIn' \in NoRetry..RetrySeconds
    BY <1>4 DEF Shutdown
  <2>3. /\ sql' = 0 /\ client' = 0 /\ conn' = 0 /\ shuttingDown' = TRUE
        /\ connected' = FALSE /\ connecting' = FALSE
        /\ UNCHANGED <<lost, reconnect, connectCb, started, plugin, connects, heard,
                       excuses>>
    BY <1>4 DEF Shutdown
  <2>4. sql' \in 0..MaxLoads /\ client' \in 0..MaxLoads /\ conn' \in 0..MaxLoads
    BY <2>3
  <2>5. connected' \in BOOLEAN /\ connecting' \in BOOLEAN /\ shuttingDown' \in BOOLEAN
    BY <2>3
  <2>6. QED
    BY <2>1, <2>2, <2>3, <2>4, <2>5
<1>5. CASE SqlAnswers \/ SqlAnswersLate \/ NextRound
  BY <1>5 DEF SqlAnswers, SqlAnswersLate, NextRound, AnswerRound
<1>6. CASE ConnectSucceeds
  <2>1. Head(request).cb \in 1..MaxConnects
    BY <1>6, RequestTypes DEF ConnectSucceeds
  <2>2. fails' \in [1..MaxConnects -> 0..2] /\ succeeded' \subseteq 1..MaxConnects
    BY <1>6, <2>1, HearSuccessTypes DEF ConnectSucceeds
  <2>3. request' \in Seq([cb : 1..MaxConnects, retry : BOOLEAN])
    BY <1>6 DEF ConnectSucceeds
  <2>4. QED
    BY <1>6, <2>2, <2>3 DEF ConnectSucceeds
<1>7. CASE ConnectFails
  <2>1. Head(request).cb \in 1..MaxConnects
    BY <1>7, RequestTypes DEF ConnectFails
  <2>2. fails' \in [1..MaxConnects -> 0..2] /\ succeeded' \subseteq 1..MaxConnects
    BY <1>7, <2>1, HearFailureTypes DEF ConnectFails
  <2>3. request' \in Seq([cb : 1..MaxConnects, retry : BOOLEAN])
    BY <1>7 DEF ConnectFails
  <2>4. connectCb # 0 /\ retryIn' \in NoRetry..RetrySeconds
    BY <1>7 DEF ConnectFails
  <2>5. QED
    BY <1>7, <2>2, <2>3, <2>4 DEF ConnectFails
<1>8. CASE LoadSqlmm
  <2>1. loads' \in 0..MaxLoads /\ sqlmm' \in 0..MaxLoads
    BY <1>8 DEF LoadSqlmm
  <2>2. QED
    BY <1>8, <2>1 DEF LoadSqlmm
<1>9. CASE LoadOther
  BY <1>9 DEF LoadOther
<1>10. CASE UnloadSqlmm
  <2>1. request' \in Seq([cb : 1..MaxConnects, retry : BOOLEAN])
    BY <1>10 DEF UnloadSqlmm
  <2>2. /\ sqlmm' = 0
        /\ UNCHANGED <<shuttingDown, connectCb, started, loads, connects, heard>>
    BY <1>10 DEF UnloadSqlmm
  <2>3. \/ UNCHANGED <<iface, link, lost, reconnect, retryIn>>
        \/ Lose
    BY <1>10 DEF UnloadSqlmm
  <2>4. /\ cut' = cut \/ (connecting /\ cut' = cut \cup {connectCb})
        /\ missed' = missed \/ (retryIn # NoRetry /\ missed' = missed \cup {connectCb})
        /\ balked' = balked
    BY <1>10 DEF UnloadSqlmm
  <2>5. connecting => connectCb # 0
    BY DEF ConnectingEnds
  <2>6. cut' \cup balked' \cup missed' \subseteq 1..MaxConnects
    BY <2>4, <2>5
  <2>7. CASE UNCHANGED <<iface, link, lost, reconnect, retryIn>>
    BY <2>1, <2>2, <2>7, <2>6
  <2>8. CASE Lose
    <3>1. retryIn' = NoRetry /\ retryIn' \in NoRetry..RetrySeconds
      BY <2>8
    <3>2. reconnect' \in BOOLEAN
      BY <2>8
    <3>3. sql' \in 0..MaxLoads /\ client' \in 0..MaxLoads /\ conn' \in 0..MaxLoads
      BY <2>8
    <3>4. connected' \in BOOLEAN /\ connecting' \in BOOLEAN /\ lost' \in BOOLEAN
      BY <2>8
    <3>5. QED
      BY <2>1, <2>2, <2>6, <3>1, <3>2, <3>3, <3>4
  <2>9. QED
    BY <2>3, <2>7, <2>8
<1>11. CASE TellOrphan
  BY <1>11 DEF TellOrphan
<1>12. ASSUME NEW elapsed \in 0..RetrySeconds, RunFrame(elapsed)
       PROVE  LinkTypes'
  <2>1. started' \in BOOLEAN
    BY <1>12 DEF RunFrame
  <2>2. CASE Due(elapsed)
    <3>1. connectCb \in 1..MaxConnects
      BY <2>2
    <3>2. connects' \in 0..MaxConnects
      BY <1>12 DEF RunFrame
    <3>3. Open(connectCb, TRUE)
      BY <1>12, <2>2, Zenon DEF RunFrame
    <3>4. QED
      BY <2>1, <3>1, <3>2, <3>3, OpenTypes
  <2>3. CASE ~Due(elapsed)
    <3>1. Timer(elapsed)
      BY <1>12, <2>3 DEF RunFrame
    <3>2. retryIn' \in NoRetry..RetrySeconds /\ (retryIn' # NoRetry => connectCb # 0)
      BY <2>3, <3>1
    <3>3. QED
      BY <1>12, <2>1, <2>3, <3>2 DEF RunFrame
  <2>4. QED
    BY <2>2, <2>3
<1>13. CASE UNCHANGED vars
  BY <1>13 DEF vars
<1>14. QED
  BY <1>1, <1>2, <1>3, <1>4, <1>5, <1>6, <1>7, <1>8, <1>9, <1>10, <1>11, <1>12, <1>13
     DEF Next, Consumer, Sqlmm, Frame

LEMMA LinkInvStep ==
  ASSUME LinkTypes, LinkInv, [Next]_vars
  PROVE  LinkInv'
<1> USE SqlAssumption DEF LinkTypes, LinkInv, Gone, Attempt, Online, Named,
     NothingDangles, ConnectingEnds, RetryOnlyOffline
<1>1. CASE InitConnection
  BY <1>1 DEF InitConnection
<1>2. CASE Connect
  <2>1. connects' \in 1..MaxConnects
    BY <1>2 DEF Connect
  <2>2. Open(connects', FALSE)
    BY <1>2, Zenon DEF Connect
  <2>3. QED
    BY <2>1, <2>2, OpenKeeps
<1>3. CASE Query
  BY <1>3 DEF Query
<1>4. CASE Shutdown
  BY <1>4 DEF Shutdown
<1>5. CASE SqlAnswers \/ SqlAnswersLate \/ NextRound
  <2>1. UNCHANGED <<self, orphans, plugin, request>>
    BY <1>5 DEF SqlAnswers, SqlAnswersLate, NextRound, AnswerRound
  <2>2. pending' # <<>> => pending # <<>>
    BY <1>5 DEF SqlAnswers, SqlAnswersLate, NextRound, AnswerRound, IsAnswered
  <2>3. QED
    BY <2>1, <2>2
<1>6. CASE ConnectSucceeds
  BY <1>6 DEF ConnectSucceeds
<1>7. CASE ConnectFails
  BY <1>7 DEF ConnectFails
<1>8. CASE LoadSqlmm
  BY <1>8 DEF LoadSqlmm
<1>9. CASE LoadOther
  BY <1>9 DEF LoadOther
<1>10. CASE UnloadSqlmm
  BY <1>10 DEF UnloadSqlmm
<1>11. CASE TellOrphan
  BY <1>11 DEF TellOrphan
<1>12. ASSUME NEW elapsed \in 0..RetrySeconds, RunFrame(elapsed)
       PROVE  LinkInv'
  <2>1. CASE Due(elapsed)
    <3>1. connectCb \in 1..MaxConnects
      BY <2>1
    <3>2. Open(connectCb, TRUE)
      BY <1>12, <2>1, Zenon DEF RunFrame
    <3>3. QED
      BY <3>1, <3>2, OpenKeeps
  <2>2. CASE ~Due(elapsed)
    BY <1>12, <2>2 DEF RunFrame
  <2>3. QED
    BY <2>1, <2>2
<1>13. CASE UNCHANGED vars
  BY <1>13 DEF vars
<1>14. QED
  BY <1>1, <1>2, <1>3, <1>4, <1>5, <1>6, <1>7, <1>8, <1>9, <1>10, <1>11, <1>12, <1>13
     DEF Next, Consumer, Sqlmm, Frame

LEMMA LinkInvariance == Spec => [](LinkTypes /\ LinkInv)
<1>1. Init => LinkTypes /\ LinkInv
  BY LinkTypesInit, LinkInvInit
<1>2. LinkTypes /\ LinkInv /\ [Next]_vars => LinkTypes' /\ LinkInv'
  BY LinkTypesStep, LinkInvStep
<1>3. QED
  BY <1>1, <1>2, PTL DEF Spec

-----------------------------------------------------------------------------
(* Lemmas about sequences, as the sets of their elements *)

LEMMA ElemsTypes ==
  ASSUME NEW S, NEW s \in Seq(S)
  PROVE  Elems(s) \subseteq S
  BY LenProperties DEF Elems

LEMMA ElemsEmpty == Elems(<<>>) = {}
  BY DEF Elems

\* A sequence that is not empty has its head and the elements of its tail.
LEMMA ElemsTail ==
  ASSUME NEW S, NEW s \in Seq(S), s # <<>>
  PROVE  Elems(s) = {Head(s)} \cup Elems(Tail(s))
<1>1. DOMAIN s = 1..Len(s) /\ DOMAIN Tail(s) = 1..(Len(s) - 1) /\ Len(s) \in Nat \ {0}
  BY HeadTailProperties, LenProperties, EmptySeq
<1>2. \A i \in 1..(Len(s) - 1) : Tail(s)[i] = s[i + 1]
  BY HeadTailProperties
<1>3. Head(s) = s[1]
  OBVIOUS
<1>4. ASSUME NEW x \in Elems(s) PROVE x \in {Head(s)} \cup Elems(Tail(s))
  <2>1. PICK i \in 1..Len(s) : x = s[i]
    BY <1>1 DEF Elems
  <2>2. CASE i = 1
    BY <2>1, <2>2, <1>3
  <2>3. CASE i # 1
    <3>1. i - 1 \in 1..(Len(s) - 1) /\ (i - 1) + 1 = i
      BY <1>1, <2>3
    <3>2. Tail(s)[i - 1] = x
      BY <3>1, <1>2, <2>1
    <3>3. QED
      BY <1>1, <3>1, <3>2 DEF Elems
  <2>4. QED
    BY <2>2, <2>3
<1>5. ASSUME NEW x \in Elems(Tail(s)) PROVE x \in Elems(s)
  <2>1. PICK i \in 1..(Len(s) - 1) : x = Tail(s)[i]
    BY <1>1 DEF Elems
  <2>2. i + 1 \in 1..Len(s) /\ x = s[i + 1]
    BY <1>1, <1>2, <2>1
  <2>3. QED
    BY <1>1, <2>2 DEF Elems
<1>6. Head(s) \in Elems(s)
  BY <1>1, <1>3 DEF Elems
<1>7. QED
  BY <1>4, <1>5, <1>6

LEMMA ElemsConcat ==
  ASSUME NEW S, NEW s \in Seq(S), NEW t \in Seq(S)
  PROVE  Elems(s \o t) = Elems(s) \cup Elems(t)
<1>1. DOMAIN s = 1..Len(s) /\ DOMAIN t = 1..Len(t) /\ Len(s) \in Nat /\ Len(t) \in Nat
  BY LenProperties
<1>2. DOMAIN (s \o t) = 1..(Len(s) + Len(t))
  BY LenProperties, ConcatProperties
<1>3. \A i \in 1..(Len(s) + Len(t)) :
        (s \o t)[i] = IF i <= Len(s) THEN s[i] ELSE t[i - Len(s)]
  BY ConcatProperties
<1>4. ASSUME NEW x \in Elems(s \o t) PROVE x \in Elems(s) \cup Elems(t)
  <2>1. PICK i \in 1..(Len(s) + Len(t)) : x = (s \o t)[i]
    BY <1>2 DEF Elems
  <2>2. CASE i <= Len(s)
    BY <1>1, <1>3, <2>1, <2>2 DEF Elems
  <2>3. CASE ~(i <= Len(s))
    <3>1. i - Len(s) \in 1..Len(t) /\ x = t[i - Len(s)]
      BY <1>1, <1>3, <2>1, <2>3
    <3>2. QED
      BY <1>1, <3>1 DEF Elems
  <2>4. QED
    BY <2>2, <2>3
<1>5. ASSUME NEW x \in Elems(s) PROVE x \in Elems(s \o t)
  <2>1. PICK i \in 1..Len(s) : x = s[i]
    BY <1>1 DEF Elems
  <2>2. i \in 1..(Len(s) + Len(t)) /\ x = (s \o t)[i]
    BY <1>1, <1>3, <2>1
  <2>3. QED
    BY <1>2, <2>2 DEF Elems
<1>6. ASSUME NEW x \in Elems(t) PROVE x \in Elems(s \o t)
  <2>1. PICK i \in 1..Len(t) : x = t[i]
    BY <1>1 DEF Elems
  <2>2. Len(s) + i \in 1..(Len(s) + Len(t)) /\ (Len(s) + i) - Len(s) = i
        /\ ~(Len(s) + i <= Len(s))
    BY <1>1
  <2>3. x = (s \o t)[Len(s) + i]
    BY <1>3, <2>1, <2>2
  <2>4. QED
    BY <1>2, <2>2, <2>3 DEF Elems
<1>7. QED
  BY <1>4, <1>5, <1>6

-----------------------------------------------------------------------------
(* The table of queries: types, the order of the answers, who waits. *)

LEMMA TableInit == Init => TableInv
<1> SUFFICES ASSUME Init PROVE TableInv
  OBVIOUS
<1>1. Elems(sent) = {} /\ Len(sent) = 0
  BY ElemsEmpty DEF Init
<1>2. TableTypes
  BY SqlAssumption DEF Init, TableTypes
<1>3. Order
  BY <1>1 DEF Init, Order
<1>4. QED
  BY <1>1, <1>2, <1>3 DEF TableInv, SentAreWaiting

\* The queries that are sent get the ids after the last.
LEMMA NewIds ==
  ASSUME NEW last \in Nat, NEW n \in Nat, last + n <= MaxQueries
  PROVE  LET ids == [i \in 1..n |-> last + i]
         IN  /\ ids \in Seq(Ids) /\ Len(ids) = n
             /\ \A i \in 1..n : ids[i] = last + i
             /\ \A x \in Elems(ids) : last < x /\ x <= last + n
<1> DEFINE ids == [i \in 1..n |-> last + i]
<1>1. \A i \in 1..n : ids[i] = last + i /\ ids[i] \in Ids
  BY SqlAssumption DEF Ids
<1>2. ids \in [1..n -> Ids]
  BY <1>1
<1>3. ids \in Seq(Ids)
  BY <1>2, SeqDef
<1>4. DOMAIN ids = 1..n
  OBVIOUS
<1>5. Len(ids) = n
  BY <1>3, <1>4, LenProperties
<1>6. \A x \in Elems(ids) : last < x /\ x <= last + n
  <2> HIDE DEF ids
  <2>1. ASSUME NEW x \in Elems(ids) PROVE last < x /\ x <= last + n
    <3>1. PICK i \in 1..n : x = ids[i]
      BY <1>4 DEF Elems
    <3>2. QED
      BY <1>1, <3>1
  <2>2. QED
    BY <2>1
<1>7. QED
  BY <1>1, <1>3, <1>5, <1>6

LEMMA SendTable ==
  ASSUME TableInv, NEW n \in Nat, lastId + n <= MaxQueries, Send(n),
         UNCHANGED <<answering, orphans, late, told, forgotten>>
  PROVE  TableInv'
<1> DEFINE ids == [i \in 1..n |-> lastId + i]
<1>1. lastId \in Nat /\ lastId' = lastId + n /\ lastId' \in 0..MaxQueries
  BY SqlAssumption DEF TableInv, TableTypes, Send
<1>2. /\ ids \in Seq(Ids) /\ Len(ids) = n
      /\ \A i \in 1..n : ids[i] = lastId + i
      /\ \A x \in Elems(ids) : lastId < x /\ x <= lastId + n
  BY <1>1, NewIds
<1>3. pending' = pending \o ids /\ sent' = sent \o ids
  BY DEF Send
<1>4. pending \in Seq(Ids) /\ sent \in Seq(Ids)
  BY DEF TableInv, TableTypes
<1> HIDE DEF ids
<1>5. TableTypes'
  BY <1>1, <1>2, <1>3, <1>4, ConcatProperties DEF TableInv, TableTypes
<1>6. Elems(sent') = Elems(sent) \cup Elems(ids)
      /\ Elems(pending') = Elems(pending) \cup Elems(ids)
  BY <1>2, <1>3, <1>4, ElemsConcat
<1>7. Elems(sent) \subseteq Ids /\ late \subseteq Ids /\ answering \in Nat
  BY <1>4, ElemsTypes DEF TableInv, TableTypes
<1>8. \A x \in Elems(sent') : answering < x /\ x <= lastId' /\ \A id \in late : id < x
  <2>1. ASSUME NEW x \in Elems(sent)
        PROVE  answering < x /\ x <= lastId' /\ \A id \in late : id < x
    BY <1>1, <1>7, <2>1 DEF TableInv, Order, Ids
  <2>2. ASSUME NEW x \in Elems(ids)
        PROVE  answering < x /\ x <= lastId' /\ \A id \in late : id < x
    <3>1. lastId < x /\ x <= lastId' /\ x \in Ids
      BY <1>1, <1>2, <2>2, ElemsTypes
    <3>2. answering <= lastId /\ \A id \in late : id <= lastId
      BY DEF TableInv, Order
    <3>3. QED
      BY <1>1, <1>7, <3>1, <3>2 DEF Ids
  <2>3. QED
    BY <1>6, <2>1, <2>2
<1>9. \A i, j \in 1..Len(sent') : i < j => sent'[i] < sent'[j]
  <2>1. Len(sent) \in Nat /\ Len(sent') = Len(sent) + n
    BY <1>2, <1>3, <1>4, LenProperties, ConcatProperties
  <2>2. \A i \in 1..Len(sent') :
          sent'[i] = IF i <= Len(sent) THEN sent[i] ELSE ids[i - Len(sent)]
    BY <1>2, <1>3, <1>4, <2>1, ConcatProperties
  <2>3. ASSUME NEW i \in 1..Len(sent'), NEW j \in 1..Len(sent'), i < j
        PROVE  sent'[i] < sent'[j]
    <3>1. CASE j <= Len(sent)
      <4>1. i \in 1..Len(sent) /\ j \in 1..Len(sent)
        BY <2>1, <2>3, <3>1
      <4>2. sent'[i] = sent[i] /\ sent'[j] = sent[j]
        BY <2>2, <4>1
      <4>3. QED
        BY <2>3, <4>1, <4>2 DEF TableInv, Order
    <3>2. CASE ~(j <= Len(sent)) /\ i <= Len(sent)
      <4>1. i \in 1..Len(sent) /\ j - Len(sent) \in 1..n
        BY <2>1, <3>2
      <4>2. sent'[i] = sent[i] /\ sent'[j] = lastId + (j - Len(sent))
        BY <1>2, <2>2, <3>2, <4>1
      <4>3. sent[i] \in Elems(sent) /\ sent[i] \in Nat
        <5>1. DOMAIN sent = 1..Len(sent)
          BY <1>4, LenProperties
        <5>2. sent[i] \in Elems(sent)
          BY <4>1, <5>1 DEF Elems
        <5>3. QED
          BY <1>7, <5>2 DEF Ids
      <4>4. sent[i] <= lastId
        BY <4>3 DEF TableInv, Order
      <4>5. QED
        BY <1>1, <2>1, <4>1, <4>2, <4>3, <4>4
    <3>3. CASE ~(j <= Len(sent)) /\ ~(i <= Len(sent))
      <4>1. i - Len(sent) \in 1..n /\ j - Len(sent) \in 1..n
        BY <2>1, <3>3
      <4>2. sent'[i] = lastId + (i - Len(sent)) /\ sent'[j] = lastId + (j - Len(sent))
        BY <1>2, <2>2, <3>3, <4>1
      <4>3. QED
        BY <1>1, <2>1, <2>3, <4>2
    <3>4. QED
      BY <3>1, <3>2, <3>3
  <2>4. QED
    BY <2>3
<1>10. answering <= lastId' /\ \A id \in late : id <= lastId'
  BY <1>1, <1>7 DEF TableInv, Order, Ids
<1>11. Order'
  BY <1>8, <1>9, <1>10 DEF Order
<1>12. SentAreWaiting'
  BY <1>6 DEF TableInv, SentAreWaiting
<1>13. QED
  BY <1>5, <1>11, <1>12 DEF TableInv

\* Giving up a connection, with or without the callbacks of its queries.
LEMMA DropTable ==
  ASSUME TableInv, sent' = <<>>, pending' = <<>>,
         late' \subseteq late \cup Elems(sent), orphans' \in {orphans, pending},
         forgotten' \subseteq forgotten \cup Elems(pending),
         UNCHANGED <<lastId, answering, told>>
  PROVE  TableInv'
<1>1. Elems(sent') = {} /\ Elems(pending') = {} /\ Len(sent') = 0
  BY ElemsEmpty
<1>2. Elems(sent) \subseteq Ids /\ Elems(pending) \subseteq Ids
  BY ElemsTypes DEF TableInv, TableTypes
<1>3. TableTypes'
  BY <1>2 DEF TableInv, TableTypes
<1>4. Order'
  BY <1>1 DEF TableInv, Order
<1>5. SentAreWaiting'
  BY <1>1 DEF SentAreWaiting
<1>6. QED
  BY <1>3, <1>4, <1>5 DEF TableInv

\* One round of Answer, for an id that comes before what is still to be answered.
LEMMA RoundTable ==
  ASSUME TableInv, NEW id \in Ids, AnswerRound(id), id <= lastId,
         sent' \in Seq(Ids), late' \subseteq late,
         Elems(sent') \subseteq Elems(sent), \A x \in Elems(sent') : id < x,
         \A i, j \in 1..Len(sent') : i < j => sent'[i] < sent'[j]
  PROVE  TableInv'
<1> USE DEF TableInv, AnswerRound
<1>1. answering' \in {0, id} /\ answering' \in 0..MaxQueries
  BY SqlAssumption DEF Ids
<1>2. Elems(sent') \subseteq Elems(pending')
  <2>1. CASE IsAnswered(id) /\ TellFirst
    <3>1. Elems(pending) = {Head(pending)} \cup Elems(pending') /\ Head(pending) \in Ids
      BY <2>1, ElemsTail, HeadTailProperties DEF IsAnswered, TableTypes
    <3>2. Head(pending) \notin Elems(sent')
      BY <2>1, <3>1 DEF IsAnswered, Ids
    <3>3. QED
      BY <3>1, <3>2 DEF SentAreWaiting
  <2>2. CASE UNCHANGED pending
    BY <2>2 DEF SentAreWaiting
  <2>3. QED
    BY <2>1, <2>2
<1>3. pending' \in Seq(Ids) /\ told' \in Seq(Ids)
  <2>1. CASE IsAnswered(id) /\ TellFirst
    BY <2>1, HeadTailProperties, AppendProperties DEF IsAnswered, TableTypes
  <2>2. CASE UNCHANGED <<told, pending>>
    BY <2>2 DEF TableTypes
  <2>3. QED
    BY <2>1, <2>2
<1>4. TableTypes'
  BY <1>1, <1>3 DEF TableTypes
<1>5. \A x \in Elems(sent') : answering' < x
  <2>1. Elems(sent') \subseteq Ids
    BY ElemsTypes
  <2>2. QED
    BY <1>1, <2>1 DEF Ids
<1>6. answering' <= lastId
  BY <1>1, SqlAssumption DEF TableTypes
<1>7. Order'
  BY <1>5, <1>6 DEF Order
<1>8. QED
  BY <1>2, <1>4, <1>7 DEF SentAreWaiting

LEMMA OpenTable ==
  ASSUME TableInv, NEW c, NEW retry, Open(c, retry)
  PROVE  TableInv'
<1>1. UNCHANGED <<lastId, answering, orphans, told>>
  BY DEF Open
<1>2. CASE UNCHANGED <<forgotten, pending, wire>>
  BY <1>1, <1>2 DEF TableInv, TableTypes, Order, SentAreWaiting
<1>3. CASE Abandon
  BY <1>1, <1>3, DropTable
<1>4. QED
  BY <1>2, <1>3 DEF Open

LEMMA TableStep ==
  ASSUME LinkTypes, LinkInv, TableInv, [Next]_vars
  PROVE  TableInv'
<1>0. UNCHANGED <<table, loops, wire, told>> => TableInv'
  BY DEF TableInv, TableTypes, Order, SentAreWaiting
<1>1. CASE InitConnection
  BY <1>0, <1>1 DEF InitConnection
<1>2. CASE Connect
  BY <1>2, OpenTable DEF Connect
<1>3. CASE Query
  <2>1. lastId + 1 <= MaxQueries
    BY <1>3, SqlAssumption DEF Query, TableInv, TableTypes
  <2>2. Send(1) /\ UNCHANGED <<answering, orphans, late, told, forgotten>>
    BY <1>3 DEF Query
  <2>3. QED
    BY <2>1, <2>2, SendTable
<1>4. CASE Shutdown
  BY <1>4, DropTable DEF Shutdown
<1>5. CASE SqlAnswers
  <2>1. PICK i \in DOMAIN sent : /\ sent' = SubSeq(sent, i + 1, Len(sent))
                                 /\ AnswerRound(sent[i])
    BY <1>5 DEF SqlAnswers
  <2>2. sent \in Seq(Ids) /\ Len(sent) \in Nat /\ DOMAIN sent = 1..Len(sent)
        /\ \A k \in 1..Len(sent) : sent[k] \in Ids
    BY LenProperties DEF TableInv, TableTypes
  <2>3. i \in 1..Len(sent) /\ i + 1 \in Int
    BY <2>1, <2>2
  <2>4. \A k \in (i + 1)..Len(sent) : sent[k] \in Ids
    BY <2>2, <2>3
  <2>5. /\ sent' \in Seq(Ids)
        /\ Len(sent') = Len(sent) - i
        /\ \A k \in 1..(Len(sent) - i) : sent'[k] = sent[i + k]
    <3>1. /\ SubSeq(sent, i + 1, Len(sent)) \in Seq(Ids)
          /\ Len(SubSeq(sent, i + 1, Len(sent)))
               = IF i + 1 <= Len(sent) THEN Len(sent) - (i + 1) + 1 ELSE 0
          /\ \A k \in 1..(Len(sent) - (i + 1) + 1) :
               SubSeq(sent, i + 1, Len(sent))[k] = sent[(i + 1) + k - 1]
      BY <2>2, <2>3, <2>4, SubSeqProperties
    <3>2. /\ Len(sent) - (i + 1) + 1 = Len(sent) - i
          /\ ~(i + 1 <= Len(sent)) => Len(sent) - i = 0
          /\ \A k \in 1..(Len(sent) - i) : (i + 1) + k - 1 = i + k
      BY <2>2, <2>3
    <3>3. QED
      BY <2>1, <3>1, <3>2
  <2>6. \A k \in 1..Len(sent') : i + k \in 1..Len(sent) /\ i < i + k
    BY <2>2, <2>3, <2>5
  <2>7. \A x \in Elems(sent') : x \in Elems(sent) /\ sent[i] < x
    <3>1. DOMAIN sent' = 1..Len(sent')
      BY <2>5, LenProperties
    <3>2. ASSUME NEW x \in Elems(sent') PROVE x \in Elems(sent) /\ sent[i] < x
      <4>1. PICK k \in 1..Len(sent') : x = sent'[k]
        BY <3>1, <3>2 DEF Elems
      <4>2. x = sent[i + k] /\ i + k \in 1..Len(sent) /\ i < i + k
        BY <2>5, <2>6, <4>1
      <4>3. sent[i] < x
        BY <2>3, <4>2 DEF TableInv, Order
      <4>4. x \in Elems(sent)
        BY <2>2, <4>2 DEF Elems
      <4>5. QED
        BY <4>3, <4>4
    <3>3. QED
      BY <3>2
  <2>8. \A k, l \in 1..Len(sent') : k < l => sent'[k] < sent'[l]
    <3>1. ASSUME NEW k \in 1..Len(sent'), NEW l \in 1..Len(sent'), k < l
          PROVE  sent'[k] < sent'[l]
      <4>1. sent'[k] = sent[i + k] /\ sent'[l] = sent[i + l]
        BY <2>5
      <4>2. i + k \in 1..Len(sent) /\ i + l \in 1..Len(sent) /\ i + k < i + l
        BY <2>3, <2>5, <2>6, <3>1
      <4>3. QED
        BY <4>1, <4>2 DEF TableInv, Order
    <3>2. QED
      BY <3>1
  <2>9. sent[i] \in Ids /\ sent[i] <= lastId
    BY <2>2, <2>3 DEF TableInv, Order, Elems
  <2>10. late' = late
    BY <1>5 DEF SqlAnswers
  <2>11. Elems(sent') \subseteq Elems(sent)
    BY <2>7
  <2>12. QED
    BY <2>1, <2>5, <2>7, <2>8, <2>9, <2>10, <2>11, RoundTable
<1>6. CASE SqlAnswersLate
  <2>1. PICK id \in late : late' = late \ {id} /\ AnswerRound(id) /\ sent' = sent
    BY <1>6 DEF SqlAnswersLate
  <2>2. id \in Ids /\ id <= lastId /\ sent \in Seq(Ids)
    BY <2>1 DEF TableInv, TableTypes, Order
  <2>3. \A x \in Elems(sent) : id < x
    BY <2>1 DEF TableInv, Order
  <2>4. \A i, j \in 1..Len(sent) : i < j => sent[i] < sent[j]
    BY DEF TableInv, Order
  <2>5. QED
    BY <2>1, <2>2, <2>3, <2>4, RoundTable
<1>7. CASE NextRound
  <2>1. answering # 0 /\ AnswerRound(answering) /\ sent' = sent /\ late' = late
    BY <1>7 DEF NextRound
  <2>2. answering \in Ids /\ answering <= lastId /\ sent \in Seq(Ids)
    BY <2>1, SqlAssumption DEF TableInv, TableTypes, Order, Ids
  <2>3. \A x \in Elems(sent) : answering < x
    BY DEF TableInv, Order
  <2>4. \A i, j \in 1..Len(sent) : i < j => sent[i] < sent[j]
    BY DEF TableInv, Order
  <2>5. QED
    BY <2>1, <2>2, <2>3, <2>4, RoundTable
<1>8. CASE ConnectSucceeds
  <2>1. UNCHANGED <<answering, orphans, late, told, forgotten>>
    BY <1>8 DEF ConnectSucceeds
  <2>2. CASE UNCHANGED <<lastId, pending, sent>>
    BY <1>0, <2>1, <2>2
  <2>3. CASE lastId + Setup <= MaxQueries /\ Send(Setup)
    BY <2>1, <2>3, SendTable, SqlAssumption
  <2>4. QED
    BY <1>8, <2>2, <2>3 DEF ConnectSucceeds
<1>9. CASE ConnectFails
  BY <1>0, <1>9 DEF ConnectFails
<1>10. CASE LoadSqlmm
  BY <1>0, <1>10 DEF LoadSqlmm
<1>11. CASE LoadOther
  BY <1>0, <1>11 DEF LoadOther
<1>12. CASE UnloadSqlmm
  <2>1. sent' = <<>> /\ late' = {} /\ UNCHANGED <<lastId, answering, told>>
    BY <1>12 DEF UnloadSqlmm
  <2>2. CASE UNCHANGED <<pending, orphans, forgotten>>
    <3>1. Elems(sent') = {} /\ Len(sent') = 0
      BY <2>1, ElemsEmpty
    <3>2. TableTypes' /\ Order' /\ SentAreWaiting'
      BY <2>1, <2>2, <3>1 DEF TableInv, TableTypes, Order, SentAreWaiting
    <3>3. QED
      BY <3>2 DEF TableInv
  <2>3. CASE Lose
    BY <2>1, <2>3, DropTable
  <2>4. QED
    BY <1>12, <2>2, <2>3 DEF UnloadSqlmm
<1>13. CASE TellOrphan
  <2>1. Head(orphans) \in Ids /\ Tail(orphans) \in Seq(Ids)
    BY <1>13, HeadTailProperties DEF TellOrphan, TableInv, TableTypes
  <2>2. orphans' \in Seq(Ids) /\ told' \in Seq(Ids)
    BY <1>13, <2>1, AppendProperties DEF TellOrphan, TableInv, TableTypes
  <2>3. UNCHANGED <<table, answering, wire>>
    BY <1>13 DEF TellOrphan
  <2>4. QED
    BY <2>2, <2>3 DEF TableInv, TableTypes, Order, SentAreWaiting
<1>14. ASSUME NEW elapsed \in 0..RetrySeconds, RunFrame(elapsed)
       PROVE  TableInv'
  <2>1. CASE Due(elapsed)
    BY <1>14, <2>1, OpenTable DEF RunFrame
  <2>2. CASE ~Due(elapsed)
    BY <1>0, <1>14, <2>2 DEF RunFrame
  <2>3. QED
    BY <2>1, <2>2
<1>15. CASE UNCHANGED vars
  BY <1>0, <1>15 DEF vars
<1>16. QED
  BY <1>1, <1>2, <1>3, <1>4, <1>5, <1>6, <1>7, <1>8, <1>9, <1>10, <1>11, <1>12, <1>13,
     <1>14, <1>15 DEF Next, Consumer, Sqlmm, Frame

-----------------------------------------------------------------------------
(* The theorems *)

Inv == LinkTypes /\ LinkInv /\ TableInv

LEMMA Invariance == Spec => []Inv
<1>1. Init => Inv
  BY LinkTypesInit, LinkInvInit, TableInit DEF Inv
<1>2. Inv /\ [Next]_vars => Inv'
  BY LinkTypesStep, LinkInvStep, TableStep DEF Inv
<1>3. QED
  BY <1>1, <1>2, PTL DEF Spec

\* Every variable has its type, and the callback of a retry is known.
THEOREM SqlTypeCorrect == Spec => []TypeOK
<1>1. Inv => TypeOK
  BY DEF Inv, TableInv, TypeOK
<1>2. QED
  BY <1>1, Invariance, PTL

\* m_conn and the client are never pointers into an sql_mm that is gone, nor is
\* m_sql unless m_lost is set, whatever was in flight (Refresh).
THEOREM DanglesCorrect == Spec => []NothingDangles
<1>1. Inv => NothingDangles
  BY DEF Inv, LinkInv
<1>2. QED
  BY <1>1, Invariance, PTL

\* Nothing is opened, waited for or sent after Shutdown (Shutdown, Refresh, the
\* answers and retries that come after it).
THEOREM StaysShutCorrect == Spec => []StaysShut
<1>1. Inv => StaysShut
  <2> SUFFICES ASSUME Inv, shuttingDown PROVE StaysShut
    BY DEF StaysShut
  <2>1. conn = 0 /\ ~connecting /\ pending = <<>>
    BY DEF Inv, LinkInv, Gone, ConnectingEnds, Online
  <2>2. Elems(sent) = {}
    BY <2>1, ElemsEmpty DEF Inv, TableInv, SentAreWaiting
  <2>3. sent \in Seq(Ids)
    BY DEF Inv, TableInv, TableTypes
  <2>4. sent = <<>>
    <3>1. DOMAIN sent = 1..Len(sent) /\ Len(sent) \in Nat
      BY <2>3, LenProperties
    <3>2. \A i \in DOMAIN sent : sent[i] \in Elems(sent)
      BY DEF Elems
    <3>3. Len(sent) = 0
      BY <2>2, <3>1, <3>2
    <3>4. QED
      BY <2>3, <3>3, EmptySeq
  <2>5. QED
    BY <2>1, <2>4 DEF StaysShut
<1>2. QED
  BY <1>1, Invariance, PTL

\* m_connecting is never left set with no answer under way (Open, Refresh).
THEOREM ConnectingCorrect == Spec => []ConnectingEnds
<1>1. Inv => ConnectingEnds
  BY DEF Inv, LinkInv
<1>2. QED
  BY <1>1, Invariance, PTL

\* A retry is never due while there is a connection or an attempt (RunFrame).
THEOREM RetryCorrect == Spec => []RetryOnlyOffline
<1>1. Inv => RetryOnlyOffline
  BY DEF Inv, LinkInv
<1>2. QED
  BY <1>1, Invariance, PTL

\* What sql_mm will still answer has its callback waiting (Answer).
THEOREM SentCorrect == Spec => []SentAreWaiting
<1>1. Inv => SentAreWaiting
  BY DEF Inv, TableInv
<1>2. QED
  BY <1>1, Invariance, PTL

\* While there is no live connection nothing waits on it.
LEMMA OfflineForgetsNothing ==
  ASSUME LinkInv, ~(connected /\ conn # 0)
  PROVE  pending = <<>> /\ Elems(pending) = {}
<1>1. pending = <<>>
  BY DEF LinkInv, Online
<1>2. QED
  BY <1>1, ElemsEmpty

\* Callbacks are forgotten by the consumer's own Connect or Shutdown only, never
\* by a retry (RunFrame) or the loss of sql_mm (Refresh).
THEOREM ForgetsCorrect == Spec => ForgetsOnlyWhenAsked
<1> DEFINE Asked == forgotten' # forgotten => connects' # connects \/ shuttingDown'
<1>1. ASSUME LinkTypes, LinkInv, [Next]_vars PROVE Asked
  <2>1. CASE Connect
    BY <1>1, <2>1 DEF Connect, LinkTypes
  <2>2. CASE Shutdown
    BY <2>2 DEF Shutdown
  <2>3. ASSUME NEW elapsed \in 0..RetrySeconds, RunFrame(elapsed) PROVE Asked
    <3>1. CASE Due(elapsed)
      <4>1. ~(connected /\ conn # 0) /\ Open(connectCb, TRUE)
        BY <1>1, <2>3, <3>1 DEF RunFrame, LinkInv, RetryOnlyOffline
      <4>2. Elems(pending) = {}
        BY <1>1, <4>1, OfflineForgetsNothing
      <4>3. QED
        BY <4>1, <4>2 DEF Open
    <3>2. CASE ~Due(elapsed)
      BY <2>3, <3>2 DEF RunFrame
    <3>3. QED
      BY <3>1, <3>2
  <2>4. CASE InitConnection \/ Query \/ SqlAnswers \/ SqlAnswersLate \/ NextRound
               \/ TellOrphan
    BY <2>4 DEF InitConnection, Query, SqlAnswers, SqlAnswersLate, NextRound,
       AnswerRound, TellOrphan
  <2>5. CASE ConnectSucceeds \/ ConnectFails
    BY <2>5 DEF ConnectSucceeds, ConnectFails
  <2>6. CASE LoadSqlmm \/ LoadOther \/ UnloadSqlmm
    BY <2>6 DEF LoadSqlmm, LoadOther, UnloadSqlmm
  <2>7. CASE UNCHANGED vars
    BY <2>7 DEF vars
  <2>8. QED
    BY <1>1, <2>1, <2>2, <2>3, <2>4, <2>5, <2>6, <2>7 DEF Next, Consumer, Sqlmm, Frame
<1>2. Inv /\ [Next]_vars => [Asked]_vars
  BY <1>1 DEF Inv
<1>3. QED
  BY <1>2, Invariance, PTL DEF Spec, ForgetsOnlyWhenAsked

-----------------------------------------------------------------------------
(* SqlConnection implements QueryLedger. *)

\* One of orphans and pending is always empty, and what waits is the other.
LEMMA Waiting ==
  ASSUME NEW s \in Seq(Ids)
  PROVE  <<>> \o s = s /\ s \o <<>> = s
  BY ConcatEmptySeq

\* A connection gives up what waits on it.
LEMMA AbandonStep ==
  ASSUME LinkInv, TableInv, TableInv', Abandon,
         UNCHANGED <<lastId, orphans, told>>
  PROVE  [Ledger!QNext]_(Ledger!qvars)
<1>1. CASE orphans = <<>>
  <2>1. orphans \o pending = pending /\ (orphans \o pending)' = <<>>
    BY <1>1, Waiting DEF TableInv, TableTypes
  <2>2. Ledger!Abandon
    BY <2>1 DEF Ledger!Abandon, Ledger!Elems, Elems
  <2>3. QED
    BY <2>2 DEF Ledger!QNext
<1>2. CASE orphans # <<>>
  <2>1. pending = <<>> /\ Elems(pending) = {}
    BY <1>2, ElemsEmpty DEF LinkInv, Online
  <2>2. QED
    BY <2>1 DEF Ledger!qvars
<1>3. QED
  BY <1>1, <1>2

\* Queries are sent on a connection, so no orphans are left to call.
LEMMA SendStep ==
  ASSUME TableInv, TableInv', orphans = <<>>, NEW n \in Nat \ {0}, Send(n),
         UNCHANGED <<orphans, told, forgotten>>
  PROVE  Ledger!SendQueries
<1>1. orphans \o pending = pending /\ (orphans \o pending)' = pending'
  BY Waiting DEF TableInv, TableTypes
<1>2. lastId \in Nat /\ lastId' = lastId + n
  BY SqlAssumption DEF TableInv, TableTypes, Send
<1>3. lastId' \in Nat /\ lastId' > lastId /\ lastId' - lastId = n
  BY <1>2
<1>4. pending' = pending \o [i \in 1..n |-> lastId + i]
  BY DEF Send
<1>5. QED
  BY <1>1, <1>3, <1>4 DEF Ledger!SendQueries

LEMMA RoundStep ==
  ASSUME LinkInv, TableInv, TableInv', NEW id, AnswerRound(id)
  PROVE  [Ledger!QNext]_(Ledger!qvars)
<1>1. CASE IsAnswered(id) /\ TellFirst
  <2>1. pending # <<>> /\ orphans = <<>> /\ orphans' = <<>>
    BY <1>1 DEF IsAnswered, AnswerRound, LinkInv, Online
  <2>2. orphans \o pending = pending /\ (orphans \o pending)' = pending'
    BY <2>1, Waiting DEF TableInv, TableTypes
  <2>3. Ledger!Tell
    BY <1>1, <2>1, <2>2 DEF AnswerRound, Ledger!Tell
  <2>4. QED
    BY <2>3 DEF Ledger!QNext
<1>2. CASE UNCHANGED <<told, pending>>
  BY <1>2 DEF AnswerRound, Ledger!qvars
<1>3. QED
  BY <1>1, <1>2 DEF AnswerRound

LEMMA QueryLedgerStep ==
  ASSUME LinkTypes, LinkInv, TableInv, TableInv', [Next]_vars
  PROVE  [Ledger!QNext]_(Ledger!qvars)
<1>0. UNCHANGED <<lastId, pending, orphans, told, forgotten>>
        => [Ledger!QNext]_(Ledger!qvars)
  BY DEF Ledger!qvars
<1>1. ASSUME NEW c, NEW retry, Open(c, retry)
      PROVE  [Ledger!QNext]_(Ledger!qvars)
  <2>1. UNCHANGED <<lastId, orphans, told>>
    BY <1>1 DEF Open
  <2>2. UNCHANGED <<forgotten, pending>> \/ Abandon
    BY <1>1 DEF Open
  <2>3. QED
    BY <1>0, <2>1, <2>2, AbandonStep
<1>2. CASE Connect
  BY <1>1, <1>2 DEF Connect
<1>3. ASSUME NEW elapsed \in 0..RetrySeconds, RunFrame(elapsed)
      PROVE  [Ledger!QNext]_(Ledger!qvars)
  <2>1. CASE Due(elapsed)
    BY <1>1, <1>3, <2>1 DEF RunFrame
  <2>2. CASE ~Due(elapsed)
    BY <1>0, <1>3, <2>2 DEF RunFrame
  <2>3. QED
    BY <2>1, <2>2
<1>4. CASE Query
  <2>1. orphans = <<>>
    BY <1>4 DEF Query, LinkInv, Online
  <2>2. Ledger!SendQueries
    BY <1>4, <2>1, SendStep DEF Query
  <2>3. QED
    BY <2>2 DEF Ledger!QNext
<1>5. CASE Shutdown
  BY <1>5, AbandonStep DEF Shutdown
<1>6. CASE SqlAnswers \/ SqlAnswersLate \/ NextRound
  BY <1>6, RoundStep DEF SqlAnswers, SqlAnswersLate, NextRound
<1>7. CASE ConnectSucceeds
  <2>1. orphans = <<>> /\ UNCHANGED <<orphans, told, forgotten>>
    BY <1>7 DEF ConnectSucceeds
  <2>2. CASE UNCHANGED <<lastId, pending, sent>>
    BY <1>0, <2>1, <2>2
  <2>3. CASE Send(Setup)
    <3>1. Ledger!SendQueries
      BY <2>1, <2>3, SendStep, SqlAssumption
    <3>2. QED
      BY <3>1 DEF Ledger!QNext
  <2>4. QED
    BY <1>7, <2>2, <2>3 DEF ConnectSucceeds
<1>8. CASE InitConnection \/ ConnectFails \/ LoadSqlmm \/ LoadOther
  BY <1>0, <1>8 DEF InitConnection, ConnectFails, LoadSqlmm, LoadOther
<1>9. CASE UnloadSqlmm
  <2>1. orphans = <<>> /\ UNCHANGED <<lastId, told>>
    BY <1>9 DEF UnloadSqlmm
  <2>2. CASE UNCHANGED <<pending, orphans, forgotten>>
    BY <1>0, <2>1, <2>2
  <2>3. CASE Lose
    <3>1. orphans \o pending = pending /\ (orphans \o pending)' = pending
      BY <2>1, <2>3, Waiting DEF TableInv, TableTypes
    <3>2. QED
      BY <2>1, <2>3, <3>1 DEF Ledger!qvars
  <2>4. QED
    BY <1>9, <2>2, <2>3 DEF UnloadSqlmm
<1>10. CASE TellOrphan
  <2>1. pending = <<>> /\ pending' = <<>>
    BY <1>10 DEF TellOrphan, LinkInv, Online
  <2>2. orphans \o pending = orphans /\ (orphans \o pending)' = orphans'
    BY <2>1, Waiting DEF TableInv, TableTypes
  <2>3. Ledger!Tell
    BY <1>10, <2>2 DEF TellOrphan, Ledger!Tell
  <2>4. QED
    BY <2>3 DEF Ledger!QNext
<1>11. CASE UNCHANGED vars
  BY <1>0, <1>11 DEF vars
<1>12. QED
  BY <1>2, <1>3, <1>4, <1>5, <1>6, <1>7, <1>8, <1>9, <1>10, <1>11
     DEF Next, Consumer, Sqlmm, Frame

\* Every callback of a query is called once and in order, or forgotten when its
\* connection is given up: the promise of Query and Refresh.
THEOREM QueryLedgerCorrect == Spec => RefinesQueryLedger
<1>1. Init => Ledger!QInit
  <2>1. Init => TableTypes
    BY TableInit DEF TableInv
  <2>2. Init => orphans \o pending = <<>>
    BY <2>1, Waiting DEF Init, TableTypes
  <2>3. QED
    BY <2>2 DEF Init, Ledger!QInit
<1>2. Inv /\ Inv' /\ [Next]_vars => [Ledger!QNext]_(Ledger!qvars)
  BY QueryLedgerStep DEF Inv
<1>3. QED
  BY <1>1, <1>2, Invariance, PTL DEF Spec, RefinesQueryLedger, Ledger!QSpec

-----------------------------------------------------------------------------
(* Who has been told of a connect *)

\* A Connect is done with when its callback was called, or never will be told of
\* the attempt that was its own.
Known(c) == Heard(c) \/ c \in cut

\* The current Connect is on its first attempt; or it will never be tried again.
FirstTry == request # <<>> /\ Head(request).cb = connectCb /\ ~Head(request).retry

NeverAgain == shuttingDown /\ request = <<>> /\ retryIn = NoRetry

\* Who is to be told of a retry was told of the first attempt, unless it was cut.
Announced ==
  /\ connectCb # 0 => Known(connectCb) \/ FirstTry \/ NeverAgain
  /\ connecting => Head(request).cb = connectCb
  /\ request # <<>> => retryIn = NoRetry
  /\ RetryWasAnnounced

\* A first attempt has told nobody, and no retry is due beside it.
Counted ==
  /\ FailsOnce
  /\ \A c \in 1..MaxConnects : c > connects => fails[c] = 0
  /\ connectCb <= connects
  /\ request # <<>> => retryIn = NoRetry /\ Head(request).cb <= connects
  /\ request # <<>> /\ ~Head(request).retry => fails[Head(request).cb] = 0

LEMMA HeadOfOne == ASSUME NEW x PROVE Head(<<x>>) = x /\ <<x>> # <<>>
  OBVIOUS

\* A failure that is heard counts for its Connect and no other.
LEMMA HearFailureCounts ==
  ASSUME fails \in [1..MaxConnects -> 0..2], NEW c \in 1..MaxConnects, HearFailure(c)
  PROVE  /\ fails'[c] > 0 /\ (fails[c] = 0 => fails'[c] = 1)
         /\ \A d \in 1..MaxConnects \ {c} : fails'[d] = fails[d]
         /\ \A d \in 1..MaxConnects : fails[d] > 0 => fails'[d] > 0
<1>1. fails' = [fails EXCEPT ![c] = IF fails[c] < 2 THEN fails[c] + 1 ELSE fails[c]]
  BY DEF HearFailure
<1>2. fails'[c] = IF fails[c] < 2 THEN fails[c] + 1 ELSE fails[c]
  BY <1>1
<1>3. fails[c] \in 0..2
  OBVIOUS
<1>4. \A d \in 1..MaxConnects \ {c} : fails'[d] = fails[d]
  BY <1>1
<1>5. fails'[c] > 0 /\ (fails[c] = 0 => fails'[c] = 1)
  BY <1>2, <1>3
<1>6. QED
  BY <1>4, <1>5

\* The current callback is that of a Connect.
LEMMA CurrentTypes ==
  ASSUME LinkTypes, connectCb # 0
  PROVE  connectCb \in 1..MaxConnects
  BY SqlAssumption DEF LinkTypes

\* Whoever was told stays told.
LEMMA HeardStays ==
  ASSUME LinkTypes, LinkTypes', [Next]_vars, NEW c \in 1..MaxConnects, Heard(c)
  PROVE  Heard(c)'
<1>1. ASSUME NEW d \in 1..MaxConnects, HearFailure(d) PROVE Heard(c)'
  <2>1. succeeded' = succeeded /\ (fails[c] > 0 => fails'[c] > 0)
    BY <1>1, HearFailureCounts DEF HearFailure, LinkTypes
  <2>2. QED
    BY <2>1 DEF Heard
<1>2. ASSUME NEW d, HearSuccess(d) PROVE Heard(c)'
  BY <1>2 DEF HearSuccess, Heard
<1>3. CASE UNCHANGED <<fails, succeeded>>
  BY <1>3 DEF Heard
<1>4. ASSUME NEW d \in 1..MaxConnects, NEW retry, Open(d, retry) PROVE Heard(c)'
  BY <1>1, <1>3, <1>4 DEF Open, OpenFails, OpenBegins
<1>5. CASE Connect
  <2>1. connects' \in 1..MaxConnects
    BY <1>5 DEF Connect, LinkTypes
  <2>2. QED
    BY <1>4, <1>5, <2>1 DEF Connect
<1>6. ASSUME NEW elapsed \in 0..RetrySeconds, RunFrame(elapsed) PROVE Heard(c)'
  <2>1. CASE Due(elapsed)
    <3>1. connectCb \in 1..MaxConnects
      BY <2>1 DEF LinkTypes
    <3>2. QED
      BY <1>4, <1>6, <2>1, <3>1 DEF RunFrame
  <2>2. CASE ~Due(elapsed)
    BY <1>3, <1>6, <2>2 DEF RunFrame
  <2>3. QED
    BY <2>1, <2>2
<1>7. CASE ConnectSucceeds
  BY <1>2, <1>7 DEF ConnectSucceeds
<1>8. CASE ConnectFails
  <2>1. Head(request).cb \in 1..MaxConnects
    BY <1>8, RequestTypes DEF ConnectFails
  <2>2. QED
    BY <1>1, <1>3, <1>8, <2>1 DEF ConnectFails
<1>9. CASE InitConnection \/ Query \/ Shutdown \/ LoadSqlmm \/ LoadOther \/ UnloadSqlmm
             \/ SqlAnswers \/ SqlAnswersLate \/ NextRound \/ TellOrphan \/ UNCHANGED vars
  BY <1>3, <1>9 DEF InitConnection, Query, Shutdown, LoadSqlmm, LoadOther, UnloadSqlmm,
     SqlAnswers, SqlAnswersLate, NextRound, TellOrphan, AnswerRound, vars
<1>10. QED
  BY <1>5, <1>6, <1>7, <1>8, <1>9 DEF Next, Consumer, Sqlmm, Frame

\* So does whoever was cut off.
LEMMA KnownStays ==
  ASSUME LinkTypes, LinkTypes', [Next]_vars, NEW c \in 1..MaxConnects, Known(c)
  PROVE  Known(c)'
<1>1. c \in cut => c \in cut'
  BY DEF Next, Consumer, Sqlmm, Frame, InitConnection, Connect, Query, Shutdown,
     SqlAnswers, SqlAnswersLate, ConnectSucceeds, ConnectFails, LoadSqlmm, LoadOther,
     UnloadSqlmm, RunFrame, Open, NextRound, AnswerRound, TellOrphan, vars
<1>2. QED
  BY <1>1, HeardStays DEF Known

\* A retry that is due is of a Connect that was told, or cut.
LEMMA DueWasKnown ==
  ASSUME LinkTypes, LinkInv, Announced, retryIn # NoRetry, ~connecting, client # 0
  PROVE  connectCb \in 1..MaxConnects /\ Known(connectCb)
  BY DEF LinkTypes, LinkInv, Attempt, Gone, Announced, FirstTry, NeverAgain

LEMMA OpenAnnounced ==
  ASSUME LinkTypes, LinkTypes', LinkInv, Announced, [Next]_vars,
         NEW c \in 1..MaxConnects, NEW retry \in BOOLEAN, Open(c, retry),
         retry => c = connectCb /\ retryIn # NoRetry
  PROVE  Announced'
<1>1. CASE connecting
  <2>1. UNCHANGED <<connectCb, connecting, request, shuttingDown, retryIn>>
    BY <1>1 DEF Open
  <2>2. \A d \in 1..MaxConnects : Known(d) => Known(d)'
    BY KnownStays
  <2>3. request # <<>> => Head(request).cb \in 1..MaxConnects
    BY RequestTypes
  <2>4. RetryWasAnnounced'
    BY <2>1, <2>2, <2>3 DEF Announced, RetryWasAnnounced, Known, Heard
  <2>5. connectCb # 0 => Known(connectCb)' \/ FirstTry \/ NeverAgain
    BY <2>1, <2>2, CurrentTypes DEF Announced
  <2>6. QED
    BY <2>1, <2>4, <2>5 DEF Announced, FirstTry, NeverAgain, Known, Heard
<1>2. CASE ~connecting /\ OpenFails(c, retry)
  <2>1. fails'[c] > 0
    BY <1>2, HearFailureCounts DEF OpenFails, LinkTypes
  <2>2. connectCb' = c /\ connecting' = FALSE /\ request' = request
        /\ retryIn' = NoRetry
    BY <1>2 DEF Open, OpenFails
  <2>3. \A d \in 1..MaxConnects : Known(d) => Known(d)'
    BY KnownStays
  <2>4. request # <<>> => Head(request).cb \in 1..MaxConnects
    BY RequestTypes
  <2>5. RetryWasAnnounced'
    BY <2>2, <2>3, <2>4 DEF Announced, RetryWasAnnounced, Known, Heard
  <2>6. QED
    BY <2>1, <2>2, <2>5 DEF Announced, Known, Heard
<1>3. CASE ~connecting /\ OpenBegins(c, retry)
  <2>1. request' = <<[cb |-> c, retry |-> retry]>> /\ connectCb' = c
        /\ retryIn' = NoRetry
    BY <1>3 DEF Open, OpenBegins
  <2>2. request' # <<>> /\ Head(request') = [cb |-> c, retry |-> retry]
    BY <2>1, HeadOfOne
  <2>3. retry => Known(c)
    BY <1>3, DueWasKnown DEF OpenBegins
  <2>4. retry => Known(c)'
    BY <2>3, KnownStays
  <2>5. QED
    BY <2>1, <2>2, <2>4 DEF Announced, RetryWasAnnounced, FirstTry, Known, Heard
<1>4. QED
  BY <1>1, <1>2, <1>3 DEF Open

LEMMA AnnouncedStep ==
  ASSUME LinkTypes, LinkTypes', LinkInv, Announced, [Next]_vars
  PROVE  Announced'
<1>1. \A d \in 1..MaxConnects : Known(d) => Known(d)'
  BY KnownStays
<1>2. request # <<>> => Head(request) \in [cb : 1..MaxConnects, retry : BOOLEAN]
  BY RequestTypes
<1>3. CASE UNCHANGED <<connectCb, connecting, request, shuttingDown, retryIn, fails,
                       succeeded, cut>>
  BY <1>3 DEF Announced, FirstTry, NeverAgain, RetryWasAnnounced, Known, Heard
<1>4. CASE Connect
  <2>1. connects' \in 1..MaxConnects
    BY <1>4 DEF Connect, LinkTypes
  <2>2. QED
    BY <1>4, <2>1, OpenAnnounced DEF Connect
<1>5. ASSUME NEW elapsed \in 0..RetrySeconds, RunFrame(elapsed) PROVE Announced'
  <2>1. CASE Due(elapsed)
    <3>1. connectCb \in 1..MaxConnects /\ retryIn # NoRetry
      BY <2>1 DEF LinkTypes
    <3>2. Open(connectCb, TRUE)
      BY <1>5, <2>1 DEF RunFrame
    <3>3. QED
      BY <3>1, <3>2, OpenAnnounced
  <2>2. CASE ~Due(elapsed)
    <3>1. UNCHANGED <<connectCb, connecting, request, shuttingDown, fails, succeeded, cut>>
      BY <1>5, <2>2 DEF RunFrame
    <3>2. retryIn' = NoRetry <=> retryIn = NoRetry
      <4>1. retryIn' = IF retryIn = NoRetry THEN NoRetry ELSE retryIn - elapsed
        BY <1>5, <2>2 DEF RunFrame
      <4>2. retryIn # NoRetry => retryIn - elapsed > 0
        BY <2>2, SqlAssumption DEF LinkTypes
      <4>3. QED
        BY <4>1, <4>2
    <3>3. QED
      BY <3>1, <3>2 DEF Announced, FirstTry, NeverAgain, RetryWasAnnounced, Known, Heard
  <2>3. QED
    BY <2>1, <2>2
<1>6. CASE ConnectSucceeds
  <2>1. request # <<>> /\ Head(request).cb \in succeeded'
    BY <1>6 DEF ConnectSucceeds, HearSuccess
  <2>2. UNCHANGED <<connectCb, shuttingDown, retryIn>> /\ request' = <<>>
        /\ connecting' = FALSE
    BY <1>6 DEF ConnectSucceeds
  <2>3. connectCb # 0 => Known(connectCb)'
    BY <1>1, <2>1, <2>2, CurrentTypes DEF Announced, FirstTry, NeverAgain, Known, Heard
  <2>4. QED
    BY <2>2, <2>3 DEF Announced, RetryWasAnnounced, Known, Heard
<1>7. CASE ConnectFails
  <2>1. request # <<>> /\ (~Head(request).retry => HearFailure(Head(request).cb))
    BY <1>7 DEF ConnectFails
  <2>2. ~Head(request).retry => fails'[Head(request).cb] > 0
    BY <1>2, <2>1, HearFailureCounts DEF LinkTypes
  <2>3. UNCHANGED <<connectCb, shuttingDown>> /\ request' = <<>> /\ connecting' = FALSE
    BY <1>7 DEF ConnectFails
  <2>4. connectCb # 0 => Known(connectCb)'
    BY <1>1, <2>1, <2>2, <2>3, CurrentTypes DEF Announced, FirstTry, NeverAgain, Known, Heard
  <2>5. QED
    BY <2>3, <2>4 DEF Announced, RetryWasAnnounced, Known, Heard
<1>8. CASE Shutdown
  <2>1. /\ UNCHANGED <<connectCb, request, fails, succeeded, cut>>
        /\ connecting' = FALSE /\ shuttingDown' /\ retryIn' = NoRetry
    BY <1>8 DEF Shutdown
  <2>2. QED
    BY <2>1 DEF Announced, FirstTry, NeverAgain, RetryWasAnnounced, Known, Heard
<1>9. CASE LoadSqlmm \/ LoadOther
  <2>1. UNCHANGED <<connectCb, connecting, request, shuttingDown, fails, succeeded, cut>>
    BY <1>9 DEF LoadSqlmm, LoadOther
  <2>2. shuttingDown \/ ~lost => retryIn' = retryIn
    BY <1>9 DEF LoadSqlmm, LoadOther
  <2>3. request # <<>> => shuttingDown \/ ~lost
    BY DEF LinkInv, Gone, Attempt, ConnectingEnds
  <2>4. QED
    BY <2>1, <2>2, <2>3 DEF Announced, FirstTry, NeverAgain, RetryWasAnnounced, Known, Heard
<1>10. CASE UnloadSqlmm
  <2>1. /\ UNCHANGED <<connectCb, shuttingDown, fails, succeeded>> /\ request' = <<>>
        /\ retryIn' = retryIn \/ retryIn' = NoRetry
    BY <1>10 DEF UnloadSqlmm
  <2>2. connecting' => request' # <<>>
    BY LinkInvStep DEF LinkInv, ConnectingEnds
  <2>3. connectCb # 0 => Known(connectCb)' \/ NeverAgain'
    <3> SUFFICES ASSUME connectCb # 0 PROVE Known(connectCb)' \/ NeverAgain'
      OBVIOUS
    <3>1. connectCb \in 1..MaxConnects
      BY CurrentTypes
    <3>2. CASE Known(connectCb)
      BY <3>1, <3>2, KnownStays, <2>1
    <3>3. CASE NeverAgain
      BY <2>1, <3>3 DEF NeverAgain
    <3>4. CASE FirstTry /\ shuttingDown
      BY <2>1, <3>4 DEF FirstTry, NeverAgain, Announced
    <3>5. CASE FirstTry /\ ~shuttingDown
      <4>1. connecting /\ ~Head(request).retry
        BY <3>5 DEF FirstTry, LinkInv, Attempt
      <4>2. ~(lost \/ shuttingDown \/ sql = 0)
        BY <3>5, <4>1 DEF LinkInv, Gone, ConnectingEnds
      <4>3. connectCb \in cut'
        BY <1>10, <4>1, <4>2 DEF UnloadSqlmm
      <4>4. QED
        BY <2>1, <4>3 DEF Known
    <3>6. QED
      BY <3>2, <3>3, <3>4, <3>5 DEF Announced
  <2>4. QED
    BY <2>1, <2>2, <2>3 DEF Announced, RetryWasAnnounced, Known, Heard, NeverAgain
<1>11. CASE InitConnection \/ Query \/ SqlAnswers \/ SqlAnswersLate \/ NextRound
              \/ TellOrphan \/ UNCHANGED vars
  BY <1>3, <1>11 DEF InitConnection, Query, SqlAnswers, SqlAnswersLate, NextRound,
     AnswerRound, TellOrphan, vars
<1>12. QED
  BY <1>4, <1>5, <1>6, <1>7, <1>8, <1>9, <1>10, <1>11 DEF Next, Consumer, Sqlmm, Frame

LEMMA OpenCounted ==
  ASSUME LinkTypes, LinkInv, Counted,
         NEW c \in 1..MaxConnects, NEW retry \in BOOLEAN, Open(c, retry), c <= connects',
         \/ connects' = connects /\ retry /\ retryIn # NoRetry
         \/ connects' = connects + 1 /\ c = connects' /\ ~retry
  PROVE  Counted'
<1> USE SqlAssumption
<1>1. fails \in [1..MaxConnects -> 0..2] /\ connects \in Nat /\ connects' \in Nat
      /\ connectCb \in Nat
  BY DEF LinkTypes
<1>2. request # <<>> => Head(request).cb \in 1..MaxConnects
  BY RequestTypes
<1>3. ~retry => fails[c] = 0 /\ (request # <<>> => Head(request).cb # c)
  BY <1>1, <1>2 DEF Counted
<1>4. \A d \in 1..MaxConnects : d > connects' => fails[d] = 0 /\ d # c
  BY <1>1 DEF Counted
<1>5. CASE connecting
  <2>1. ~retry
    BY <1>5 DEF LinkInv, RetryOnlyOffline
  <2>2. /\ UNCHANGED <<connectCb, request, retryIn, balked>>
        /\ HearFailure(c)
    BY <1>5 DEF Open
  <2>3. /\ fails'[c] = 1
        /\ \A d \in 1..MaxConnects \ {c} : fails'[d] = fails[d]
    BY <1>1, <1>3, <2>1, <2>2, HearFailureCounts
  <2>4. FailsOnce'
    BY <2>2, <2>3 DEF Counted, FailsOnce
  <2>5. QED
    BY <1>1, <1>2, <1>3, <1>4, <2>1, <2>2, <2>3, <2>4 DEF Counted
<1>6. CASE ~connecting /\ OpenFails(c, retry)
  <2>1. /\ connectCb' = c /\ retryIn' = NoRetry /\ request' = request
        /\ HearFailure(c)
        /\ balked' = IF retry THEN balked \cup {c} ELSE balked
    BY <1>6 DEF Open, OpenFails
  <2>2. /\ fails[c] = 0 => fails'[c] = 1
        /\ \A d \in 1..MaxConnects \ {c} : fails'[d] = fails[d]
    BY <1>1, <2>1, HearFailureCounts
  <2>3. FailsOnce'
    BY <1>3, <2>1, <2>2 DEF Counted, FailsOnce
  <2>4. retry => request = <<>>
    BY DEF Counted
  <2>5. QED
    BY <1>1, <1>2, <1>3, <1>4, <2>1, <2>2, <2>3, <2>4 DEF Counted
<1>7. CASE ~connecting /\ OpenBegins(c, retry)
  <2>1. /\ request' = <<[cb |-> c, retry |-> retry]>> /\ connectCb' = c
        /\ retryIn' = NoRetry /\ UNCHANGED <<fails, balked>>
    BY <1>7 DEF Open, OpenBegins
  <2>2. request' # <<>> /\ Head(request') = [cb |-> c, retry |-> retry]
    BY <2>1, HeadOfOne
  <2>3. QED
    BY <1>3, <1>4, <2>1, <2>2 DEF Counted, FailsOnce
<1>8. QED
  BY <1>5, <1>6, <1>7 DEF Open

LEMMA CountedStep ==
  ASSUME LinkTypes, LinkInv, Counted, [Next]_vars
  PROVE  Counted'
<1>1. CASE UNCHANGED <<fails, balked, connects, connectCb, request, retryIn>>
  BY <1>1 DEF Counted, FailsOnce
<1>2. CASE Connect
  <2>1. connects' = connects + 1 /\ connects' \in 1..MaxConnects /\ connects' \in Nat
    <3>1. connects' = connects + 1 /\ connects < MaxConnects
      BY <1>2 DEF Connect
    <3>2. QED
      BY <3>1, SqlAssumption DEF LinkTypes
  <2>2. Open(connects', FALSE)
    BY <1>2, Zenon DEF Connect
  <2>3. connects' <= connects'
    BY <2>1
  <2>4. QED
    BY <2>1, <2>2, <2>3, OpenCounted
<1>3. ASSUME NEW elapsed \in 0..RetrySeconds, RunFrame(elapsed) PROVE Counted'
  <2>1. CASE Due(elapsed)
    <3>1. connectCb \in 1..MaxConnects /\ retryIn # NoRetry
      BY <2>1, CurrentTypes DEF LinkTypes
    <3>2. Open(connectCb, TRUE) /\ connects' = connects /\ connectCb <= connects
      BY <1>3, <2>1 DEF RunFrame, Counted
    <3>3. QED
      BY <3>1, <3>2, OpenCounted
  <2>2. CASE ~Due(elapsed)
    <3>1. UNCHANGED <<fails, balked, connects, connectCb, request>>
      BY <1>3, <2>2 DEF RunFrame
    <3>2. retryIn' # NoRetry => retryIn # NoRetry
      BY <1>3, <2>2 DEF RunFrame
    <3>3. QED
      BY <3>1, <3>2 DEF Counted, FailsOnce
  <2>3. QED
    BY <2>1, <2>2
<1>4. CASE ConnectSucceeds
  <2>1. UNCHANGED <<fails, balked, connects, connectCb>> /\ request' = <<>>
    BY <1>4 DEF ConnectSucceeds, HearSuccess
  <2>2. QED
    BY <2>1 DEF Counted, FailsOnce
<1>5. CASE ConnectFails
  <2>1. UNCHANGED <<balked, connects, connectCb>> /\ request' = <<>> /\ request # <<>>
    BY <1>5 DEF ConnectFails
  <2>2. Head(request).cb \in 1..MaxConnects /\ Head(request).cb <= connects
    BY <2>1, RequestTypes DEF Counted
  <2>3. CASE Head(request).retry
    <3>1. fails' = fails
      BY <1>5, <2>3 DEF ConnectFails
    <3>2. QED
      BY <2>1, <3>1 DEF Counted, FailsOnce
  <2>4. CASE ~Head(request).retry
    <3>1. HearFailure(Head(request).cb) /\ fails[Head(request).cb] = 0
      BY <1>5, <2>1, <2>4 DEF ConnectFails, Counted
    <3>2. fails'[Head(request).cb] = 1
          /\ \A d \in 1..MaxConnects \ {Head(request).cb} : fails'[d] = fails[d]
      BY <2>2, <3>1, HearFailureCounts DEF LinkTypes
    <3>3. ASSUME NEW d \in 1..MaxConnects
          PROVE  (fails'[d] > 1 => d \in balked) /\ (d > connects => fails'[d] = 0)
      <4>1. CASE d = Head(request).cb
        BY <2>2, <3>2, <4>1 DEF LinkTypes
      <4>2. CASE d # Head(request).cb
        BY <3>2, <4>2 DEF Counted, FailsOnce
      <4>3. QED
        BY <4>1, <4>2
    <3>4. QED
      BY <2>1, <3>3 DEF Counted, FailsOnce
  <2>5. QED
    BY <2>3, <2>4
<1>6. CASE Shutdown
  <2>1. UNCHANGED <<fails, balked, connects, connectCb, request>> /\ retryIn' = NoRetry
    BY <1>6 DEF Shutdown
  <2>2. QED
    BY <2>1 DEF Counted, FailsOnce
<1>7. CASE LoadSqlmm \/ LoadOther
  <2>1. UNCHANGED <<fails, balked, connects, connectCb, request>>
    BY <1>7 DEF LoadSqlmm, LoadOther
  <2>2. request # <<>> => shuttingDown \/ ~lost
    BY DEF LinkInv, Gone, Attempt, ConnectingEnds
  <2>3. shuttingDown \/ ~lost => retryIn' = retryIn
    BY <1>7 DEF LoadSqlmm, LoadOther
  <2>4. QED
    BY <2>1, <2>2, <2>3 DEF Counted, FailsOnce
<1>8. CASE UnloadSqlmm
  <2>1. UNCHANGED <<fails, balked, connects, connectCb>> /\ request' = <<>>
    BY <1>8 DEF UnloadSqlmm
  <2>2. QED
    BY <2>1 DEF Counted, FailsOnce
<1>9. CASE InitConnection \/ Query \/ SqlAnswers \/ SqlAnswersLate \/ NextRound
             \/ TellOrphan \/ UNCHANGED vars
  BY <1>1, <1>9 DEF InitConnection, Query, SqlAnswers, SqlAnswersLate, NextRound,
     AnswerRound, TellOrphan, vars
<1>10. QED
  BY <1>2, <1>3, <1>4, <1>5, <1>6, <1>7, <1>8, <1>9 DEF Next, Consumer, Sqlmm, Frame

\* A retry that fails is of a Connect that was answered before, so it need not be
\* announced (Open, "the consumer already heard"), whatever sql_mm does: except
\* where an unload of sql_mm ended the attempt that would have been announced.
THEOREM AnnouncedCorrect == Spec => []RetryWasAnnounced
<1>1. Init => Announced
  BY DEF Init, Announced, RetryWasAnnounced
<1>2. Inv /\ Inv' /\ Announced /\ [Next]_vars => Announced'
  BY AnnouncedStep DEF Inv
<1>3. Announced => RetryWasAnnounced
  BY DEF Announced
<1>4. QED
  BY <1>1, <1>2, <1>3, Invariance, PTL DEF Spec

\* A connect that fails calls its callback once, however often it is tried again
\* (Open, RunFrame, the answer of sql_mm), over losses, late answers and Shutdown:
\* a second time only in a retry that finds no client or gets no connection.
THEOREM FailsOnceCorrect == Spec => []FailsOnce
<1>1. Init => Counted
  BY SqlAssumption DEF Init, Counted, FailsOnce
<1>2. Inv /\ Counted /\ [Next]_vars => Counted'
  BY CountedStep DEF Inv
<1>3. Counted => FailsOnce
  BY DEF Counted
<1>4. QED
  BY <1>1, <1>2, <1>3, Invariance, PTL DEF Spec
=============================================================================
