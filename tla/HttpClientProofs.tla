-------------------------- MODULE HttpClientProofs --------------------------
(***************************************************************************)
(* Theorems about HttpClient for any set of workers, any number of         *)
(* requests and loads, and both platforms.                                 *)
(***************************************************************************)
EXTENDS HttpClient, FiniteSetTheorems, TLAPS

(***************************************************************************)
(* What makes the properties above inductive: which flags are up, which    *)
(* threads exist and where closures may be, by what the game thread does.  *)
(***************************************************************************)
Quiet == queue = <<>> /\ \A w \in Workers : pc[w] = "none"

LifeCycle ==
  /\ pc[Game] = "dead" => \A w \in Workers : pc[w] = "dead"
  /\ pc[Game] # "dead" =>
       /\ \A w \in Workers : /\ pc[w] # "dead"
                             /\ handle[w] # 0 => pc[w] \in InTransfer
       /\ pc[Game] \in {"push", "notify", "stop"} => running
       /\ pc[Game] \in {"notifyAll", "cancel", "join"} \cup Down => ~running
       /\ shutdown <=> pc[Game] \in Stopping \cup Down
       /\ cancel => pc[Game] = "join"
       /\ pc[Game] \in Stopping \cup Down => mainDrain = <<>>
       /\ pc[Game] = "unloaded" => mainQueue = <<>>
       /\ pc[Game] \in {"idle"} \cup Down /\ ~running => Quiet

\* Requests are numbered in the order they are queued, and taken in that order.
Numbering ==
  /\ \A i, j \in 1..Len(queue) : i < j => queue[i] < queue[j]
  /\ \A i \in 1..Len(queue) : queue[i] <= sent
  /\ \A w \in Workers : /\ wreq[w] <= sent
                        /\ \A i \in 1..Len(queue) : wreq[w] < queue[i]
  /\ \A v, w \in Workers : wreq[v] = wreq[w] /\ wreq[v] # 0 => v = w
  /\ \A r \in answered \cup dropped : r <= sent

\* A request publishes its handle once, after it left the queue, and a slot
\* holds the open handle of its worker's request.
Publishing ==
  /\ \A r \in opened : r <= sent
  /\ \A r \in Requests \ opened : closes[r] = 0
  /\ \A w \in Workers : handle[w] # 0 =>
       handle[w] = wreq[w] /\ handle[w] \in opened /\ closes[handle[w]] = 0
  /\ \A w \in Workers : pc[w] = "prepare" => wreq[w] \notin opened
  /\ \A i \in 1..Len(queue) : queue[i] \notin opened

\* The abbreviations the actions are written with are expanded everywhere.
USE DEF Goto, Step, Settle, CloseHandle, ExchangeAndClose, DropQueue,
  poolVars, settled, mainVars, closeVars, loadVars, otherVars

\* What the steps on the queues do to their elements.
LEMMA QueueTypes ==
  ASSUME NEW S, NEW q \in Seq(S)
  PROVE  /\ q # <<>> => Head(q) \in S /\ Tail(q) \in Seq(S)
         /\ \A x \in S : Append(q, x) \in Seq(S)
         /\ Elems(q) \subseteq S
  BY DEF Elems

\* What one more close does to the count of a handle.
LEMMA CloseTypes ==
  ASSUME NEW S, NEW f \in [S -> Nat], NEW x
  PROVE  [f EXCEPT ![x] = @ + 1] \in [S -> Nat]
<1> DEFINE g == [f EXCEPT ![x] = @ + 1]
<1>1. \A y \in S : g[y] \in Nat
  OBVIOUS
<1>2. g = [y \in S |-> g[y]]
  OBVIOUS
<1>3. QED
  BY <1>1, <1>2

-----------------------------------------------------------------------------
(* Type correctness: the threads first, then the data they act on. *)

LEMMA TypeInit == Init => TypeOK
<1> SUFFICES ASSUME Init PROVE TypeOK
  OBVIOUS
<1>1. ThreadTypes
  BY HttpAssumption DEF Init, ThreadTypes, Threads, WorkerLabels, GameLabels,
     Waiting, Holding, InTransfer, InCallback
<1>2. DataTypes
  <2>1. <<>> \in Seq(Requests) /\ 0 \in Nat /\ {} \subseteq Requests
    OBVIOUS
  <2>2. closes \in [Requests -> Nat] /\ handle \in [Workers -> 0..MaxRequests]
    BY HttpAssumption DEF Init
  <2>3. sent \in 0..MaxRequests /\ base \in 0..sent /\ loads \in Nat
    BY HttpAssumption DEF Init
  <2>4. QED
    BY <2>1, <2>2, <2>3 DEF Init, DataTypes
<1>3. QED
  BY <1>1, <1>2 DEF TypeOK

LEMMA ThreadsWorker ==
  ASSUME TypeOK, NEW w \in Workers, WorkerStep(w) \/ WakeSpuriously(w)
  PROVE  ThreadTypes'
<1> USE HttpAssumption DEF TypeOK, ThreadTypes, Threads, WorkerLabels, GameLabels,
     Waiting, Holding, InTransfer, InCallback, Stopping
<1>1. CASE TestRunning(w)
  BY <1>1 DEF TestRunning
<1>2. CASE Take(w)
  <2>1. Head(queue) \in 1..MaxRequests
    BY <1>2, QueueTypes DEF Take, DataTypes, Requests
  <2>2. QED
    BY <1>2, <2>1 DEF Take
<1>3. CASE FindEmpty(w)
  BY <1>3 DEF FindEmpty
<1>4. CASE Block(w)
  BY <1>4 DEF Block
<1>5. CASE FailEarly(w)
  BY <1>5 DEF FailEarly
<1>6. CASE BeginTransfer(w)
  BY <1>6 DEF BeginTransfer
<1>7. CASE EndTransfer(w)
  BY <1>7 DEF EndTransfer
<1>8. CASE Release(w)
  BY <1>8 DEF Release
<1>9. CASE SkipCallback(w)
  BY <1>9 DEF SkipCallback
<1>10. CASE StartCallback(w)
  BY <1>10 DEF StartCallback
<1>11. CASE EndCallback(w)
  BY <1>11 DEF EndCallback
<1>12. CASE CallbackEnqueue(w)
  BY <1>12 DEF CallbackEnqueue
<1>13. CASE EnsureNotShutdown(w)
  BY <1>13 DEF EnsureNotShutdown
<1>14. CASE EnsureRunning(w)
  BY <1>14 DEF EnsureRunning
<1>15. CASE Push(w)
  BY <1>15 DEF Push
<1>16. CASE NotifyOne(w)
  BY <1>16 DEF NotifyOne, Returned
<1>17. CASE WakeSpuriously(w)
  BY <1>17 DEF WakeSpuriously
<1>q. QED
  BY <1>1, <1>2, <1>3, <1>4, <1>5, <1>6, <1>7, <1>8, <1>9, <1>10, <1>11, <1>12, <1>13, <1>14, <1>15, <1>16, <1>17 DEF WorkerStep

LEMMA DataWorker ==
  ASSUME TypeOK, NEW w \in Workers, WorkerStep(w) \/ WakeSpuriously(w)
  PROVE  DataTypes'
<1> USE HttpAssumption DEF TypeOK, DataTypes, Requests
<1>0. pc[w] \in Holding /\ pc[w] # "dead" => wreq[w] \in 1..MaxRequests
  BY DEF ThreadTypes
<1>1. CASE TestRunning(w)
  BY <1>1 DEF TestRunning
<1>2. CASE Take(w)
  <2>1. queue' \in Seq(Requests)
    BY <1>2, QueueTypes DEF Take
  <2>2. QED
    BY <1>2, <2>1 DEF Take
<1>3. CASE FindEmpty(w)
  BY <1>3 DEF FindEmpty
<1>4. CASE Block(w)
  BY <1>4 DEF Block
<1>5. CASE FailEarly(w)
  BY <1>5 DEF FailEarly
<1>6. CASE BeginTransfer(w)
  <2>1. wreq[w] \in 1..MaxRequests
    BY <1>0, <1>6 DEF BeginTransfer, Holding
  <2>2. handle' \in [Workers -> 0..MaxRequests]
    BY <1>6, <2>1 DEF BeginTransfer
  <2>3. opened' \subseteq Requests
    BY <1>6, <2>1 DEF BeginTransfer
  <2>4. QED
    BY <1>6, <2>2, <2>3 DEF BeginTransfer
<1>7. CASE EndTransfer(w)
  BY <1>7 DEF EndTransfer
<1>8. CASE Release(w)
  <2>1. closes' \in [Requests -> Nat]
    <3>1. closes' = closes \/ closes' = [closes EXCEPT ![handle[w]] = @ + 1]
      BY <1>8 DEF Release, CloseHandle
    <3>2. [closes EXCEPT ![handle[w]] = @ + 1] \in [Requests -> Nat]
      BY CloseTypes
    <3>3. QED
      BY <3>1, <3>2
  <2>2. handle' \in [Workers -> 0..MaxRequests]
    BY <1>8 DEF Release
  <2>3. QED
    BY <1>8, <2>1, <2>2 DEF Release
<1>9. CASE SkipCallback(w)
  <2>1. wreq[w] \in Requests
    BY <1>0, <1>9 DEF SkipCallback, Holding
  <2>2. QED
    BY <1>9, <2>1 DEF SkipCallback
<1>10. CASE StartCallback(w)
  BY <1>10 DEF StartCallback
<1>11. CASE EndCallback(w)
  <2>1. wreq[w] \in Requests
    BY <1>0, <1>11 DEF EndCallback, Holding, InCallback
  <2>2. mainQueue' \in Seq(Requests)
    <3>1. mainQueue' = mainQueue \/ mainQueue' = Append(mainQueue, wreq[w])
      BY <1>11 DEF EndCallback
    <3>2. Append(mainQueue, wreq[w]) \in Seq(Requests)
      BY <2>1, QueueTypes
    <3>3. QED
      BY <3>1, <3>2
  <2>3. QED
    BY <1>11, <2>1, <2>2 DEF EndCallback
<1>12. CASE CallbackEnqueue(w)
  BY <1>12 DEF CallbackEnqueue
<1>13. CASE EnsureNotShutdown(w)
  BY <1>13 DEF EnsureNotShutdown
<1>14. CASE EnsureRunning(w)
  BY <1>14 DEF EnsureRunning
<1>15. CASE Push(w)
  <2>1. sent + 1 \in Requests /\ sent' \in 0..MaxRequests /\ base \in 0..sent'
    BY <1>15 DEF Push
  <2>2. queue' \in Seq(Requests)
    BY <1>15, <2>1, QueueTypes DEF Push
  <2>3. QED
    BY <1>15, <2>1, <2>2 DEF Push
<1>16. CASE NotifyOne(w)
  BY <1>16 DEF NotifyOne
<1>17. CASE WakeSpuriously(w)
  BY <1>17 DEF WakeSpuriously
<1>q. QED
  BY <1>1, <1>2, <1>3, <1>4, <1>5, <1>6, <1>7, <1>8, <1>9, <1>10, <1>11, <1>12, <1>13, <1>14, <1>15, <1>16, <1>17 DEF WorkerStep

\* When the game thread starts the workers, none is left of an earlier start.
LEMMA ThreadsGame ==
  ASSUME TypeOK, LifeCycle, GameStep \/ GameCall
  PROVE  ThreadTypes'
<1> USE HttpAssumption DEF TypeOK, ThreadTypes, Threads, WorkerLabels, GameLabels,
     Waiting, Holding, InTransfer, InCallback, Stopping, Down
<1>1. CASE Enqueue
  <2>1. ~running => \A w \in Workers : pc[w] = "none" /\ wreq[w] = 0
    BY <1>1 DEF Enqueue, LifeCycle, Quiet
  <2>2. CASE running
    BY <1>1, <2>2 DEF Enqueue
  <2>3. CASE ~running
    BY <1>1, <2>1, <2>3 DEF Enqueue
  <2>4. QED
    BY <2>2, <2>3
<1>2. CASE Push(Game)
  BY <1>2 DEF Push
<1>3. CASE NotifyOne(Game)
  BY <1>3 DEF NotifyOne, Returned
<1>4. CASE StopRunning
  BY <1>4 DEF StopRunning
<1>5. CASE NotifyAll
  BY <1>5 DEF NotifyAll
<1>6. CASE CancelInFlight
  BY <1>6 DEF CancelInFlight
<1>7. CASE Join
  BY <1>7 DEF Join
<1>8. CASE \E w \in Workers : CloseCurrent(w)
  BY <1>8 DEF CloseCurrent
<1>9. CASE BeginShutdown
  BY <1>9 DEF BeginShutdown
<1>10. CASE DrainMainThread
  BY <1>10 DEF DrainMainThread
<1>11. CASE RunClosure
  BY <1>11 DEF RunClosure
<1>12. CASE ClearMainQueue
  BY <1>12 DEF ClearMainQueue
<1>13. CASE ResetShutdownLatch
  BY <1>13 DEF ResetShutdownLatch
<1>q. QED
  BY <1>1, <1>2, <1>3, <1>4, <1>5, <1>6, <1>7, <1>8, <1>9, <1>10, <1>11, <1>12, <1>13 DEF GameStep, GameCall

LEMMA DataGame ==
  ASSUME TypeOK, GameStep \/ GameCall
  PROVE  DataTypes'
<1> USE HttpAssumption DEF TypeOK, DataTypes, Requests
<1>1. CASE Enqueue
  BY <1>1 DEF Enqueue
<1>2. CASE Push(Game)
  <2>1. sent + 1 \in Requests /\ sent' \in 0..MaxRequests /\ base \in 0..sent'
    BY <1>2 DEF Push
  <2>2. queue' \in Seq(Requests)
    BY <1>2, <2>1, QueueTypes DEF Push
  <2>3. QED
    BY <1>2, <2>1, <2>2 DEF Push
<1>3. CASE NotifyOne(Game)
  BY <1>3 DEF NotifyOne
<1>4. CASE StopRunning
  BY <1>4 DEF StopRunning
<1>5. CASE NotifyAll
  BY <1>5 DEF NotifyAll
<1>6. CASE CancelInFlight
  BY <1>6 DEF CancelInFlight
<1>7. CASE Join
  <2>1. Elems(queue) \subseteq Requests /\ <<>> \in Seq(Requests)
    BY QueueTypes
  <2>2. QED
    BY <1>7, <2>1 DEF Join
<1>8. CASE \E w \in Workers : CloseCurrent(w)
  <2>1. PICK w \in Workers : CloseCurrent(w)
    BY <1>8
  <2>2. closes' \in [Requests -> Nat]
    <3>1. closes' = closes \/ closes' = [closes EXCEPT ![handle[w]] = @ + 1]
      BY <2>1 DEF CloseCurrent, CloseHandle
    <3>2. [closes EXCEPT ![handle[w]] = @ + 1] \in [Requests -> Nat]
      BY CloseTypes
    <3>3. QED
      BY <3>1, <3>2
  <2>3. handle' \in [Workers -> 0..MaxRequests] /\ swept' \subseteq Workers
    BY <2>1 DEF CloseCurrent
  <2>4. QED
    BY <2>1, <2>2, <2>3 DEF CloseCurrent
<1>9. CASE BeginShutdown
  BY <1>9 DEF BeginShutdown
<1>10. CASE DrainMainThread
  BY <1>10 DEF DrainMainThread
<1>11. CASE RunClosure
  <2>1. Head(mainDrain) \in Requests /\ Tail(mainDrain) \in Seq(Requests)
    BY <1>11, QueueTypes DEF RunClosure
  <2>2. mainQueue' \in Seq(Requests)
    <3>1. mainQueue' = mainQueue \/ mainQueue' = Append(mainQueue, Head(mainDrain))
      BY <1>11 DEF RunClosure
    <3>2. Append(mainQueue, Head(mainDrain)) \in Seq(Requests)
      BY <2>1, QueueTypes
    <3>3. QED
      BY <3>1, <3>2
  <2>3. QED
    BY <1>11, <2>1, <2>2 DEF RunClosure
<1>12. CASE ClearMainQueue
  <2>1. mainQueue' \in Seq(Requests)
    BY <1>12, QueueTypes DEF ClearMainQueue
  <2>2. QED
    BY <1>12, <2>1 DEF ClearMainQueue
<1>13. CASE ResetShutdownLatch
  <2>1. base' \in 0..sent' /\ loads' \in Nat /\ sent' \in 0..MaxRequests
    BY <1>13 DEF ResetShutdownLatch
  <2>2. QED
    BY <1>13, <2>1 DEF ResetShutdownLatch
<1>q. QED
  BY <1>1, <1>2, <1>3, <1>4, <1>5, <1>6, <1>7, <1>8, <1>9, <1>10, <1>11, <1>12, <1>13 DEF GameStep, GameCall

-----------------------------------------------------------------------------
(* The life cycle of the pool *)

LEMMA LifeCycleInit == Init => LifeCycle
  BY HttpAssumption DEF Init, LifeCycle, Threads, Quiet, Stopping, Down

LEMMA LifeCycleWorker ==
  ASSUME TypeOK, LifeCycle, NEW w \in Workers, WorkerStep(w) \/ WakeSpuriously(w)
  PROVE  LifeCycle'
<1> USE HttpAssumption DEF TypeOK, ThreadTypes, LifeCycle, Quiet, Down, Threads,
     Stopping, InTransfer
<1>1. CASE TestRunning(w)
  BY <1>1 DEF TestRunning
<1>2. CASE Take(w)
  BY <1>2 DEF Take
<1>3. CASE FindEmpty(w)
  BY <1>3 DEF FindEmpty
<1>4. CASE Block(w)
  BY <1>4 DEF Block
<1>5. CASE FailEarly(w)
  BY <1>5 DEF FailEarly
<1>6. CASE BeginTransfer(w)
  BY <1>6 DEF BeginTransfer
<1>7. CASE EndTransfer(w)
  BY <1>7 DEF EndTransfer
<1>8. CASE Release(w)
  <2>1. /\ pc' = [pc EXCEPT ![w] = "finished"]
        /\ handle' = [handle EXCEPT ![w] = 0]
        /\ UNCHANGED <<running, shutdown, cancel, queue, mainDrain>>
    BY <1>8 DEF Release
  <2>2. pc[w] = "release" /\ handle \in [Workers -> 0..MaxRequests]
    BY <1>8 DEF Release, DataTypes
  <2>3. \A v \in Workers : handle'[v] # 0 /\ pc'[v] # "dead" =>
          pc'[v] \in InTransfer
    BY <2>1, <2>2
  <2>4. QED
    BY <2>1, <2>2, <2>3
<1>9. CASE SkipCallback(w)
  BY <1>9 DEF SkipCallback
<1>10. CASE StartCallback(w)
  BY <1>10 DEF StartCallback
<1>11. CASE EndCallback(w)
  BY <1>11 DEF EndCallback
<1>12. CASE CallbackEnqueue(w)
  BY <1>12 DEF CallbackEnqueue
<1>13. CASE EnsureNotShutdown(w)
  BY <1>13 DEF EnsureNotShutdown
<1>14. CASE EnsureRunning(w)
  BY <1>14 DEF EnsureRunning
<1>15. CASE Push(w)
  BY <1>15 DEF Push
<1>16. CASE NotifyOne(w)
  BY <1>16 DEF NotifyOne, Returned
<1>17. CASE WakeSpuriously(w)
  BY <1>17 DEF WakeSpuriously
<1>q. QED
  BY <1>1, <1>2, <1>3, <1>4, <1>5, <1>6, <1>7, <1>8, <1>9, <1>10, <1>11, <1>12, <1>13, <1>14, <1>15, <1>16, <1>17 DEF WorkerStep

LEMMA LifeCycleGame ==
  ASSUME TypeOK, LifeCycle, GameStep \/ GameCall
  PROVE  LifeCycle'
<1> USE HttpAssumption DEF TypeOK, ThreadTypes, LifeCycle, Quiet, Down, Threads,
     Stopping, InTransfer
<1>1. CASE Enqueue
  BY <1>1 DEF Enqueue
<1>2. CASE Push(Game)
  BY <1>2 DEF Push
<1>3. CASE NotifyOne(Game)
  BY <1>3 DEF NotifyOne, Returned
<1>4. CASE StopRunning
  BY <1>4 DEF StopRunning
<1>5. CASE NotifyAll
  BY <1>5 DEF NotifyAll
<1>6. CASE CancelInFlight
  BY <1>6 DEF CancelInFlight
<1>7. CASE Join
  BY <1>7 DEF Join
<1>8. CASE \E w \in Workers : CloseCurrent(w)
  BY <1>8 DEF CloseCurrent
<1>9. CASE BeginShutdown
  BY <1>9 DEF BeginShutdown
<1>10. CASE DrainMainThread
  BY <1>10 DEF DrainMainThread
<1>11. CASE RunClosure
  BY <1>11 DEF RunClosure
<1>12. CASE ClearMainQueue
  BY <1>12 DEF ClearMainQueue
<1>13. CASE ResetShutdownLatch
  BY <1>13 DEF ResetShutdownLatch
<1>q. QED
  BY <1>1, <1>2, <1>3, <1>4, <1>5, <1>6, <1>7, <1>8, <1>9, <1>10, <1>11, <1>12, <1>13 DEF GameStep, GameCall

LEMMA Invariance == Spec => [](TypeOK /\ LifeCycle)
<1>1. TypeOK /\ LifeCycle /\ UNCHANGED vars => TypeOK' /\ LifeCycle'
  BY DEF TypeOK, ThreadTypes, DataTypes, LifeCycle, Quiet, vars
<1>2. TypeOK /\ LifeCycle /\ Next => TypeOK' /\ LifeCycle'
  BY ThreadsWorker, DataWorker, ThreadsGame, DataGame, LifeCycleWorker,
     LifeCycleGame DEF Next, TypeOK
<1>3. QED
  BY TypeInit, LifeCycleInit, <1>1, <1>2, PTL DEF Spec

\* Every behaviour keeps the types, and a worker's request is there whenever
\* the worker uses it, up to the end of its callback.
THEOREM TypeCorrect == Spec => []TypeOK
  BY Invariance, PTL

\* Whatever the workers were doing when Shutdown was called, no thread, queued
\* request, published handle or pending cancellation outlasts it.
THEOREM QuiescesCorrect == Spec => []ShutdownQuiesces
<1>1. TypeOK /\ LifeCycle => ShutdownQuiesces
  BY DEF LifeCycle, ShutdownQuiesces, Down, Quiet, InTransfer
<1>2. QED
  BY <1>1, Invariance, PTL

-----------------------------------------------------------------------------
(* The steps that touch a piece of state, told from those that do not *)

QueueVars == <<queue, wreq, sent, answered, dropped, base>>

\* Only a pop, the end of a callback, a push, Join and the next load move a
\* request or change the numbers requests are judged by.
LEMMA QueueSteps ==
  ASSUME Next
  PROVE  \/ UNCHANGED QueueVars
         \/ \E w \in Workers : Take(w) \/ SkipCallback(w) \/ EndCallback(w)
         \/ \E t \in Threads : Push(t)
         \/ Join
         \/ ResetShutdownLatch
<1> USE DEF QueueVars, Threads
<1>1. ASSUME NEW w \in Workers, WorkerStep(w) \/ WakeSpuriously(w)
      PROVE  \/ UNCHANGED QueueVars
             \/ Take(w) \/ SkipCallback(w) \/ EndCallback(w) \/ Push(w)
  BY <1>1 DEF WorkerStep, TestRunning, FindEmpty, Block, FailEarly, BeginTransfer,
     EndTransfer, Release, StartCallback, CallbackEnqueue, EnsureNotShutdown,
     EnsureRunning, NotifyOne, WakeSpuriously
<1>2. ASSUME GameStep \/ GameCall
      PROVE  UNCHANGED QueueVars \/ Push(Game) \/ Join \/ ResetShutdownLatch
  BY <1>2 DEF GameStep, GameCall, NotifyOne, StopRunning, NotifyAll,
     CancelInFlight, CloseCurrent, Enqueue, BeginShutdown, DrainMainThread,
     RunClosure, ClearMainQueue
<1>3. QED
  BY <1>1, <1>2 DEF Next

\* What the elements of a sequence become.
LEMMA QueueElems ==
  ASSUME NEW S, NEW q \in Seq(S)
  PROVE  /\ Elems(<<>>) = {}
         /\ \A x \in S : Elems(Append(q, x)) = Elems(q) \cup {x}
         /\ q # <<>> => Elems(q) = Elems(Tail(q)) \cup {Head(q)}
<1>1. Elems(<<>>) = {}
  BY DEF Elems
<1>2. ASSUME NEW x \in S
      PROVE  Elems(Append(q, x)) = Elems(q) \cup {x}
  <2>1. /\ DOMAIN q = 1..Len(q) /\ Len(q) \in Nat
        /\ DOMAIN Append(q, x) = 1..(Len(q) + 1)
        /\ \A i \in 1..Len(q) : Append(q, x)[i] = q[i]
        /\ Append(q, x)[Len(q) + 1] = x
    OBVIOUS
  <2>2. ASSUME NEW i \in 1..(Len(q) + 1)
        PROVE  Append(q, x)[i] \in Elems(q) \cup {x}
    <3>1. i = Len(q) + 1 \/ i \in 1..Len(q)
      BY <2>1
    <3>2. QED
      BY <2>1, <3>1 DEF Elems
  <2>3. ASSUME NEW i \in 1..Len(q)
        PROVE  q[i] \in Elems(Append(q, x))
    <3>1. i \in 1..(Len(q) + 1)
      BY <2>1
    <3>2. QED
      BY <2>1, <3>1 DEF Elems
  <2>4. x \in Elems(Append(q, x))
    <3>1. Len(q) + 1 \in 1..(Len(q) + 1)
      BY <2>1
    <3>2. QED
      BY <2>1, <3>1 DEF Elems
  <2>5. QED
    BY <2>1, <2>2, <2>3, <2>4 DEF Elems
<1>3. ASSUME q # <<>>
      PROVE  Elems(q) = Elems(Tail(q)) \cup {Head(q)}
  <2>1. DOMAIN q = 1..Len(q) /\ Len(q) \in Nat \ {0}
    BY <1>3
  <2>2. DOMAIN Tail(q) = 1..(Len(q) - 1) /\ \A i \in 1..(Len(q) - 1) : Tail(q)[i] = q[i + 1]
    BY <1>3
  <2>3. ASSUME NEW i \in 1..Len(q) PROVE q[i] \in Elems(Tail(q)) \cup {Head(q)}
    <3>1. CASE i = 1
      BY <1>3, <3>1
    <3>2. CASE i # 1
      <4>1. i - 1 \in 1..(Len(q) - 1) /\ Tail(q)[i - 1] = q[i]
        BY <2>1, <2>2, <3>2
      <4>2. QED
        BY <2>2, <4>1 DEF Elems
    <3>3. QED
      BY <3>1, <3>2
  <2>4. Head(q) = q[1] /\ 1 \in 1..Len(q)
    BY <1>3, <2>1
  <2>5. ASSUME NEW i \in 1..(Len(q) - 1) PROVE Tail(q)[i] \in Elems(q)
    <3>1. i + 1 \in DOMAIN q
      BY <2>1
    <3>2. QED
      BY <2>2, <3>1 DEF Elems
  <2>6. QED
    BY <2>1, <2>2, <2>3, <2>4, <2>5 DEF Elems
<1>4. QED
  BY <1>1, <1>2, <1>3

-----------------------------------------------------------------------------
(* Nothing of an earlier load is left to a later one *)

MainVars == <<mainQueue, mainDrain, base>>

\* Only the end of a callback, the frames, ClearMainQueue and the next load
\* change what the game thread has to run.
LEMMA MainSteps ==
  ASSUME Next
  PROVE  \/ UNCHANGED MainVars
         \/ \E w \in Workers : EndCallback(w)
         \/ DrainMainThread \/ RunClosure \/ ClearMainQueue \/ ResetShutdownLatch
<1> USE DEF MainVars
<1>1. ASSUME NEW w \in Workers, WorkerStep(w) \/ WakeSpuriously(w)
      PROVE  UNCHANGED MainVars \/ EndCallback(w)
  BY <1>1 DEF WorkerStep, TestRunning, Take, FindEmpty, Block, FailEarly,
     BeginTransfer, EndTransfer, Release, SkipCallback, StartCallback,
     CallbackEnqueue, EnsureNotShutdown, EnsureRunning, Push, NotifyOne,
     WakeSpuriously
<1>2. ASSUME GameStep \/ GameCall
      PROVE  \/ UNCHANGED MainVars
             \/ DrainMainThread \/ RunClosure \/ ClearMainQueue \/ ResetShutdownLatch
  BY <1>2 DEF GameStep, GameCall, Push, NotifyOne, StopRunning, NotifyAll,
     CancelInFlight, Join, CloseCurrent, Enqueue, BeginShutdown
<1>3. QED
  BY <1>1, <1>2 DEF Next

LEMMA FreshRequests ==
  ASSUME TypeOK, LifeCycle, NothingOutlivesUnload, Next
  PROVE  /\ \A r \in Elems(queue') : r > base'
         /\ \A w \in Workers : wreq'[w] # 0 => wreq'[w] > base'
<1> USE HttpAssumption DEF NothingOutlivesUnload, TypeOK, ThreadTypes, DataTypes
<1>1. CASE UNCHANGED QueueVars
  BY <1>1 DEF QueueVars
<1>2. ASSUME NEW w \in Workers, Take(w)
      PROVE  /\ \A r \in Elems(queue') : r > base'
             /\ \A v \in Workers : wreq'[v] # 0 => wreq'[v] > base'
  <2>1. Elems(queue) = Elems(queue') \cup {Head(queue)}
    BY <1>2, QueueElems DEF Take
  <2>2. QED
    BY <1>2, <2>1 DEF Take
<1>3. ASSUME NEW w \in Workers, SkipCallback(w) \/ EndCallback(w)
      PROVE  /\ \A r \in Elems(queue') : r > base'
             /\ \A v \in Workers : wreq'[v] # 0 => wreq'[v] > base'
  BY <1>3 DEF SkipCallback, EndCallback
<1>4. ASSUME NEW t \in Threads, Push(t)
      PROVE  /\ \A r \in Elems(queue') : r > base'
             /\ \A v \in Workers : wreq'[v] # 0 => wreq'[v] > base'
  <2>1. sent + 1 \in Requests /\ sent + 1 > base
    BY <1>4 DEF Push, Requests
  <2>2. Elems(queue') = Elems(queue) \cup {sent + 1}
    BY <1>4, <2>1, QueueElems DEF Push
  <2>3. QED
    BY <1>4, <2>1, <2>2 DEF Push
<1>5. CASE Join
  BY <1>5, QueueElems DEF Join
<1>6. CASE ResetShutdownLatch
  <2>1. queue = <<>> /\ \A w \in Workers : pc[w] = "none"
    BY <1>6 DEF ResetShutdownLatch, LifeCycle, Quiet, Down
  <2>2. \A w \in Workers : wreq[w] = 0
    BY <2>1 DEF Holding, InTransfer, InCallback
  <2>3. QED
    BY <1>6, <2>1, <2>2, QueueElems DEF ResetShutdownLatch
<1>7. QED
  BY <1>1, <1>2, <1>3, <1>4, <1>5, <1>6, QueueSteps

LEMMA FreshClosures ==
  ASSUME TypeOK, LifeCycle, NothingOutlivesUnload, Next
  PROVE  \A r \in Elems(mainQueue') \cup Elems(mainDrain') : r > base'
<1> USE HttpAssumption DEF NothingOutlivesUnload, TypeOK, ThreadTypes, DataTypes
<1>1. CASE UNCHANGED MainVars
  BY <1>1 DEF MainVars
<1>2. ASSUME NEW w \in Workers, EndCallback(w)
      PROVE  \A r \in Elems(mainQueue') \cup Elems(mainDrain') : r > base'
  <2>1. wreq[w] \in Requests
    BY <1>2 DEF EndCallback, Holding, InCallback, Requests
  <2>2. Elems(mainQueue') \subseteq Elems(mainQueue) \cup {wreq[w]}
    <3>1. mainQueue' = mainQueue \/ mainQueue' = Append(mainQueue, wreq[w])
      BY <1>2 DEF EndCallback
    <3>2. Elems(Append(mainQueue, wreq[w])) = Elems(mainQueue) \cup {wreq[w]}
      BY <2>1, QueueElems
    <3>3. QED
      BY <3>1, <3>2
  <2>3. QED
    BY <1>2, <2>1, <2>2 DEF EndCallback, Requests
<1>3. CASE DrainMainThread
  BY <1>3, QueueElems DEF DrainMainThread
<1>4. CASE RunClosure
  <2>1. Head(mainDrain) \in Requests
    BY <1>4, QueueTypes DEF RunClosure
  <2>2. Elems(mainDrain) = Elems(mainDrain') \cup {Head(mainDrain)}
    BY <1>4, QueueElems DEF RunClosure
  <2>3. Elems(mainQueue') \subseteq Elems(mainQueue) \cup {Head(mainDrain)}
    <3>1. mainQueue' = mainQueue \/ mainQueue' = Append(mainQueue, Head(mainDrain))
      BY <1>4 DEF RunClosure
    <3>2. Elems(Append(mainQueue, Head(mainDrain))) = Elems(mainQueue) \cup {Head(mainDrain)}
      BY <2>1, QueueElems
    <3>3. QED
      BY <3>1, <3>2
  <2>4. QED
    BY <1>4, <2>2, <2>3 DEF RunClosure
<1>5. CASE ClearMainQueue
  BY <1>5, QueueElems DEF ClearMainQueue
<1>6. CASE ResetShutdownLatch
  <2>1. mainQueue = <<>> /\ mainDrain = <<>>
    BY <1>6 DEF ResetShutdownLatch, LifeCycle, Down
  <2>2. QED
    BY <1>6, <2>1, QueueElems DEF ResetShutdownLatch
<1>7. QED
  BY <1>1, <1>2, <1>3, <1>4, <1>5, <1>6, MainSteps

\* However unload falls among requests, callbacks and frames, no request and no
\* closure of a load is left to a later one.
THEOREM FreshCorrect == Spec => []NothingOutlivesUnload
<1>1. Init => NothingOutlivesUnload
  <2>1. Elems(<<>>) = {}
    BY DEF Elems
  <2>2. QED
    BY <2>1 DEF Init, NothingOutlivesUnload
<1>2. TypeOK /\ LifeCycle /\ NothingOutlivesUnload /\ Next => NothingOutlivesUnload'
  BY FreshRequests, FreshClosures DEF NothingOutlivesUnload
<1>3. NothingOutlivesUnload /\ UNCHANGED vars => NothingOutlivesUnload'
  BY DEF NothingOutlivesUnload, vars
<1>4. QED
  BY <1>1, <1>2, <1>3, Invariance, PTL DEF Spec

-----------------------------------------------------------------------------
(* One callback at a time *)

\* The labels inside a callback are entered from "finished" under the mutex, and
\* by nobody else's step.
LEMMA CallbackSteps ==
  ASSUME TypeOK, Next, NEW v \in Workers, pc'[v] \in InCallback, pc[v] \notin InCallback
  PROVE  StartCallback(v)
<1> USE HttpAssumption DEF TypeOK, ThreadTypes, Threads, InCallback
<1>1. ASSUME NEW w \in Workers, WorkerStep(w) \/ WakeSpuriously(w)
      PROVE  StartCallback(v)
  BY <1>1 DEF WorkerStep, TestRunning, Take, FindEmpty, Block, FailEarly,
     BeginTransfer, EndTransfer, Release, SkipCallback, StartCallback, EndCallback,
     CallbackEnqueue, EnsureNotShutdown, EnsureRunning, Push, NotifyOne, Returned,
     WakeSpuriously
<1>2. ASSUME GameStep \/ GameCall
      PROVE  StartCallback(v)
  BY <1>2 DEF GameStep, GameCall, Push, NotifyOne, Returned, StopRunning,
     NotifyAll, CancelInFlight, Join, CloseCurrent, Enqueue, BeginShutdown,
     DrainMainThread, RunClosure, ClearMainQueue, ResetShutdownLatch
<1>3. QED
  BY <1>1, <1>2 DEF Next

\* Two callbacks never overlap, however many workers finish at once.
THEOREM ExclusiveCorrect == Spec => []CallbacksExclusive
<1>1. Init => CallbacksExclusive
  BY HttpAssumption DEF Init, CallbacksExclusive, Threads, InCallback
<1>2. TypeOK /\ CallbacksExclusive /\ Next => CallbacksExclusive'
  <2> SUFFICES ASSUME TypeOK, CallbacksExclusive, Next,
                      NEW v \in Workers, NEW w \in Workers,
                      pc'[v] \in InCallback, pc'[w] \in InCallback, v # w
               PROVE  FALSE
    BY DEF CallbacksExclusive
  <2>1. CASE pc[v] \in InCallback /\ pc[w] \in InCallback
    BY <2>1 DEF CallbacksExclusive
  <2>2. CASE pc[v] \notin InCallback
    <3>1. StartCallback(v)
      BY <2>2, CallbackSteps
    <3>2. pc[w] \notin InCallback /\ pc'[w] = pc[w]
      BY <3>1 DEF StartCallback, CallbackMutexFree, TypeOK, ThreadTypes
    <3>3. QED
      BY <3>2
  <2>3. CASE pc[w] \notin InCallback
    <3>1. StartCallback(w)
      BY <2>3, CallbackSteps
    <3>2. pc[v] \notin InCallback /\ pc'[v] = pc[v]
      BY <3>1 DEF StartCallback, CallbackMutexFree, TypeOK, ThreadTypes
    <3>3. QED
      BY <3>2
  <2>4. QED
    BY <2>1, <2>2, <2>3
<1>3. CallbacksExclusive /\ UNCHANGED vars => CallbacksExclusive'
  BY DEF CallbacksExclusive, vars
<1>4. QED
  BY <1>1, <1>2, <1>3, Invariance, PTL DEF Spec

-----------------------------------------------------------------------------
(* The pool implements the ledger *)

\* Where the elements of a sequence are after a pop and after a push.
LEMMA TailIndex ==
  ASSUME NEW S, NEW q \in Seq(S), q # <<>>
  PROVE  /\ Len(q) \in Nat \ {0} /\ Head(q) = q[1]
         /\ Len(Tail(q)) = Len(q) - 1
         /\ \A i \in 1..Len(Tail(q)) : i + 1 \in 1..Len(q) /\ Tail(q)[i] = q[i + 1]
  OBVIOUS

LEMMA AppendIndex ==
  ASSUME NEW S, NEW q \in Seq(S), NEW x \in S
  PROVE  /\ Len(q) \in Nat /\ Len(Append(q, x)) = Len(q) + 1
         /\ \A i \in 1..Len(q) : Append(q, x)[i] = q[i]
         /\ Append(q, x)[Len(q) + 1] = x
         /\ \A i \in 1..(Len(q) + 1) : i \in 1..Len(q) \/ i = Len(q) + 1
  OBVIOUS

\* Each request has its place: the queue is ordered by number, and those held by
\* workers come before those still queued.
LEMMA NumberingStep ==
  ASSUME TypeOK, Numbering, Next
  PROVE  Numbering'
<1> USE DEF Numbering
<1>0. /\ queue \in Seq(Requests) /\ sent \in Nat /\ Requests \subseteq Nat \ {0}
      /\ wreq \in [Workers -> Nat]
      /\ \A i \in 1..Len(queue) : queue[i] \in Nat \ {0}
  <2>1. queue \in Seq(Requests) /\ Requests \subseteq Nat \ {0}
    BY HttpAssumption DEF TypeOK, DataTypes, Requests
  <2>2. \A i \in 1..Len(queue) : queue[i] \in Requests
    BY <2>1
  <2>3. sent \in Nat /\ wreq \in [Workers -> Nat]
    BY HttpAssumption DEF TypeOK, DataTypes, ThreadTypes
  <2>4. QED
    BY <2>1, <2>2, <2>3
<1>1. CASE UNCHANGED QueueVars
  BY <1>1 DEF QueueVars
<1>2. ASSUME NEW w \in Workers, Take(w)
      PROVE  Numbering'
  <2>1. /\ queue # <<>> /\ queue' = Tail(queue)
        /\ wreq' = [wreq EXCEPT ![w] = Head(queue)]
        /\ UNCHANGED <<sent, answered, dropped>>
    BY <1>2 DEF Take
  <2>2. /\ Len(queue) \in Nat \ {0} /\ Head(queue) = queue[1]
        /\ Len(queue') = Len(queue) - 1
        /\ \A i \in 1..Len(queue') : i + 1 \in 1..Len(queue) /\ queue'[i] = queue[i + 1]
    BY <1>0, <2>1, TailIndex
  <2>3. 1 \in 1..Len(queue) /\ queue[1] \in Nat \ {0}
    BY <1>0, <2>2
  <2>4. \A i \in 1..Len(queue') : queue[1] < queue'[i] /\ queue'[i] <= sent'
    <3>1. \A i \in 1..Len(queue') : 1 < i + 1
      BY <2>2
    <3>2. QED
      BY <2>1, <2>2, <2>3, <3>1
  <2>5. \A i, j \in 1..Len(queue') : i < j => queue'[i] < queue'[j]
    <3>1. \A i, j \in 1..Len(queue') : i < j => i + 1 < j + 1
      BY <2>2
    <3>2. QED
      BY <2>2, <3>1
  <2>6. \A v \in Workers : wreq[v] < queue[1]
    BY <2>3
  <2>7. \A v \in Workers : /\ wreq'[v] <= sent'
                           /\ \A i \in 1..Len(queue') : wreq'[v] < queue'[i]
    <3>1. \A v \in Workers : wreq'[v] = IF v = w THEN queue[1] ELSE wreq[v]
      BY <1>0, <2>1, <2>2
    <3>2. \A v \in Workers, i \in 1..Len(queue') : wreq[v] < queue'[i]
      BY <2>2
    <3>3. queue[1] <= sent
      BY <2>3
    <3>4. QED
      BY <2>1, <2>4, <3>1, <3>2, <3>3
  <2>8. \A u, v \in Workers : wreq'[u] = wreq'[v] /\ wreq'[u] # 0 => u = v
    <3>1. \A v \in Workers : wreq[v] # queue[1]
      BY <1>0, <2>3, <2>6
    <3>2. QED
      BY <1>0, <2>1, <2>2, <3>1
  <2>9. QED
    BY <2>1, <2>4, <2>5, <2>7, <2>8
<1>3. ASSUME NEW w \in Workers, SkipCallback(w) \/ EndCallback(w)
      PROVE  Numbering'
  <2>1. /\ wreq' = [wreq EXCEPT ![w] = 0]
        /\ answered' = answered \cup {wreq[w]}
        /\ UNCHANGED <<queue, sent, dropped>>
    BY <1>3 DEF SkipCallback, EndCallback
  <2>2. \A i \in 1..Len(queue) : 0 < queue[i]
    BY <1>0
  <2>3. \A v \in Workers : wreq'[v] = IF v = w THEN 0 ELSE wreq[v]
    BY <1>0, <2>1
  <2>4. \A r \in answered' \cup dropped' : r <= sent'
    BY <2>1
  <2>5. QED
    BY <1>0, <2>1, <2>2, <2>3, <2>4
<1>4. ASSUME NEW t \in Threads, Push(t)
      PROVE  Numbering'
  <2>1. /\ queue' = Append(queue, sent + 1) /\ sent' = sent + 1
        /\ UNCHANGED <<wreq, answered, dropped>>
    BY <1>4 DEF Push
  <2>2. sent + 1 \in Requests
    BY <1>4, HttpAssumption DEF Push, TypeOK, DataTypes, Requests
  <2>3. /\ Len(queue') = Len(queue) + 1 /\ Len(queue) \in Nat
        /\ \A i \in 1..Len(queue) : queue'[i] = queue[i]
        /\ queue'[Len(queue) + 1] = sent + 1
        /\ \A i \in 1..Len(queue') : i \in 1..Len(queue) \/ i = Len(queue) + 1
    BY <1>0, <2>1, <2>2, AppendIndex
  <2>4. \A i \in 1..Len(queue') : queue'[i] <= sent'
    BY <1>0, <2>1, <2>3
  <2>5. \A i, j \in 1..Len(queue') : i < j => queue'[i] < queue'[j]
    <3>1. \A i \in 1..Len(queue) : queue[i] < sent + 1
      BY <1>0
    <3>2. \A i, j \in 1..Len(queue') : i < j => i \in 1..Len(queue)
      BY <2>3
    <3>3. QED
      BY <2>3, <3>1, <3>2
  <2>6. \A w \in Workers : /\ wreq'[w] <= sent'
                           /\ \A i \in 1..Len(queue') : wreq'[w] < queue'[i]
    <3>1. \A w \in Workers : wreq[w] < sent + 1 /\ wreq[w] <= sent + 1
      BY <1>0
    <3>2. \A w \in Workers, i \in 1..Len(queue') : wreq[w] < queue'[i]
      BY <2>3, <3>1
    <3>3. QED
      BY <2>1, <3>1, <3>2
  <2>7. \A r \in answered' \cup dropped' : r <= sent'
    <3>1. answered \cup dropped \subseteq Nat
      BY <1>0 DEF TypeOK, DataTypes
    <3>2. QED
      BY <1>0, <2>1, <3>1
  <2>8. QED
    BY <2>1, <2>4, <2>5, <2>6, <2>7
<1>5. CASE Join
  <2>1. queue' = <<>> /\ dropped' = dropped \cup Elems(queue)
        /\ UNCHANGED <<wreq, sent, answered>>
    BY <1>5 DEF Join
  <2>2. \A r \in Elems(queue) : r <= sent
    BY DEF Elems
  <2>3. QED
    BY <2>1, <2>2
<1>6. CASE ResetShutdownLatch
  BY <1>6 DEF ResetShutdownLatch
<1>7. QED
  BY <1>1, <1>2, <1>3, <1>4, <1>5, <1>6, QueueSteps

LEMMA NumberingCorrect == Spec => []Numbering
<1>1. Init => Numbering
  BY HttpAssumption DEF Init, Numbering
<1>2. Numbering /\ UNCHANGED vars => Numbering'
  BY DEF Numbering, vars
<1>3. QED
  BY <1>1, <1>2, NumberingStep, Invariance, PTL DEF Spec

\* The requests the workers hold: the active ones of the ledger.
Held == {r \in Requests : \E w \in Workers : wreq[w] = r}

LEMMA LedgerStep ==
  ASSUME TypeOK, Numbering, Next
  PROVE  [Ledger!LNext]_(Ledger!lvars)
<1> USE HttpAssumption DEF TypeOK, ThreadTypes, DataTypes, Ledger!lvars
<1>1. CASE UNCHANGED QueueVars
  BY <1>1 DEF QueueVars
<1>2. ASSUME NEW w \in Workers, Take(w)
      PROVE  Ledger!Start
  <2>1. Head(queue) \in Requests
    BY <1>2, QueueTypes DEF Take
  <2>2. wreq[w] = 0
    BY <1>2 DEF Take, Holding, InTransfer, InCallback
  <2>3. wreq' = [wreq EXCEPT ![w] = Head(queue)]
    BY <1>2 DEF Take
  <2>4. Held' = Held \cup {Head(queue)}
    BY <2>1, <2>2, <2>3 DEF Held, Requests
  <2>5. QED
    BY <1>2, <2>4 DEF Take, Held, Ledger!Start
<1>3. ASSUME NEW w \in Workers, SkipCallback(w) \/ EndCallback(w)
      PROVE  \E r \in Requests : Ledger!Answer(r)
  <2>1. wreq[w] \in Requests
    BY <1>3 DEF SkipCallback, EndCallback, Holding, InCallback, Requests
  <2>2. wreq' = [wreq EXCEPT ![w] = 0]
    BY <1>3 DEF SkipCallback, EndCallback
  <2>3. \A v \in Workers : wreq[v] = wreq[w] => v = w
    BY <2>1 DEF Numbering, Requests
  <2>4. Held' = Held \ {wreq[w]} /\ wreq[w] \in Held
    BY <2>1, <2>2, <2>3 DEF Held, Requests
  <2>5. PICK r \in Requests : r = wreq[w]
    BY <2>1
  <2>6. Ledger!Answer(r)
    BY <1>3, <2>4, <2>5 DEF SkipCallback, EndCallback, Held, Ledger!Answer
  <2>7. QED
    BY <2>6
<1>4. ASSUME NEW t \in Threads, Push(t)
      PROVE  \E r \in Requests : Ledger!Accept(r)
  <2>1. sent + 1 \in Requests
    BY <1>4 DEF Push, Requests
  <2>2. sent + 1 \notin Held
    BY DEF Held, Numbering, Requests
  <2>3. sent + 1 \notin Elems(queue) \cup answered \cup dropped
    <3>1. \A i \in 1..Len(queue) : queue[i] # sent + 1
      BY DEF Numbering, Requests
    <3>2. DOMAIN queue = 1..Len(queue)
      OBVIOUS
    <3>3. sent + 1 \notin answered \cup dropped
      BY DEF Numbering, Requests
    <3>4. QED
      BY <3>1, <3>2, <3>3 DEF Elems
  <2>4. Ledger!Elems(queue) = Elems(queue)
    BY DEF Ledger!Elems, Elems
  <2>5. sent + 1 \notin Ledger!Known
    BY <2>2, <2>3, <2>4 DEF Ledger!Known, Held
  <2>6. Ledger!Accept(sent + 1)
    BY <1>4, <2>5 DEF Push, Ledger!Accept
  <2>7. QED
    BY <2>1, <2>6
<1>5. CASE Join
  <2>1. \A w \in Workers : wreq[w] = 0
    BY <1>5 DEF Join, Holding, InTransfer, InCallback
  <2>2. Held = {}
    BY <2>1 DEF Held, Requests
  <2>3. Ledger!Elems(queue) = Elems(queue)
    BY DEF Ledger!Elems, Elems
  <2>4. Ledger!Discard
    BY <1>5, <2>2, <2>3 DEF Join, Held, Ledger!Discard
  <2>5. QED
    BY <2>4 DEF Ledger!LNext
<1>6. CASE ResetShutdownLatch
  BY <1>6 DEF ResetShutdownLatch
<1>7. QED
  BY <1>1, <1>2, <1>3, <1>4, <1>5, <1>6, QueueSteps DEF Ledger!LNext

\* Whatever the interleaving of the game thread and the workers, requests are
\* started in the order they were sent and settled once each, and none is
\* discarded while another is in flight.
THEOREM LedgerCorrect == Spec => RefinesLedger
<1>1. Init => Ledger!LInit
  BY HttpAssumption DEF Init, Ledger!LInit, Requests
<1>2. TypeOK /\ Numbering /\ [Next]_vars => [Ledger!LNext]_(Ledger!lvars)
  BY LedgerStep DEF vars, Ledger!lvars
<1>3. QED
  BY <1>1, <1>2, Invariance, NumberingCorrect, PTL DEF Spec, RefinesLedger, Ledger!LSpec

-----------------------------------------------------------------------------
(* A handle is closed once *)

\* A step that publishes, closes and moves nothing, and leaves a transfer only
\* with the process.
HandleFrame ==
  /\ UNCHANGED <<handle, closes, opened, queue, wreq, sent>>
  /\ \A v \in Workers : /\ pc[v] \in InTransfer \cup {"dead"} =>
                             pc'[v] \in InTransfer \cup {"dead"}
                        /\ pc'[v] = "prepare" => pc[v] = "prepare"

LEMMA HandleSteps ==
  ASSUME TypeOK, LifeCycle, Next
  PROVE  \/ HandleFrame
         \/ \E w \in Workers : \/ Take(w) \/ BeginTransfer(w) \/ Release(w)
                               \/ SkipCallback(w) \/ EndCallback(w) \/ CloseCurrent(w)
         \/ \E t \in Threads : Push(t)
         \/ Join
<1> USE HttpAssumption DEF HandleFrame, Threads, InTransfer,
     TypeOK, ThreadTypes
<1>1. ASSUME NEW w \in Workers, WorkerStep(w) \/ WakeSpuriously(w)
      PROVE  \/ HandleFrame \/ Take(w) \/ BeginTransfer(w) \/ Release(w)
             \/ SkipCallback(w) \/ EndCallback(w) \/ Push(w)
  <2>1. CASE TestRunning(w) \/ FindEmpty(w) \/ Block(w) \/ WakeSpuriously(w)
    BY <2>1 DEF TestRunning, FindEmpty, Block, WakeSpuriously
  <2>2. CASE FailEarly(w) \/ EndTransfer(w) \/ StartCallback(w)
    BY <2>2 DEF FailEarly, EndTransfer, StartCallback
  <2>3. CASE CallbackEnqueue(w) \/ EnsureNotShutdown(w) \/ EnsureRunning(w)
    BY <2>3 DEF CallbackEnqueue, EnsureNotShutdown, EnsureRunning
  <2>4. CASE NotifyOne(w)
    BY <2>4 DEF NotifyOne, Returned
  <2>5. QED
    BY <1>1, <2>1, <2>2, <2>3, <2>4 DEF WorkerStep
<1>2. ASSUME GameStep \/ GameCall
      PROVE  \/ HandleFrame \/ Push(Game) \/ Join
             \/ \E w \in Workers : CloseCurrent(w)
  <2>1. CASE Enqueue
    <3>1. running \/ \A w \in Workers : pc[w] = "none"
      BY <2>1 DEF Enqueue, LifeCycle, Quiet
    <3>2. QED
      BY <2>1, <3>1 DEF Enqueue
  <2>2. CASE NotifyOne(Game)
    BY <2>2 DEF NotifyOne, Returned
  <2>3. CASE NotifyAll
    BY <2>3 DEF NotifyAll
  <2>4. CASE StopRunning \/ CancelInFlight \/ BeginShutdown
    BY <2>4 DEF StopRunning, CancelInFlight, BeginShutdown
  <2>5. CASE DrainMainThread \/ RunClosure \/ ClearMainQueue \/ ResetShutdownLatch
    BY <2>5 DEF DrainMainThread, RunClosure, ClearMainQueue, ResetShutdownLatch
  <2>6. QED
    BY <1>2, <2>1, <2>2, <2>3, <2>4, <2>5 DEF GameStep, GameCall
<1>3. QED
  BY <1>1, <1>2 DEF Next

\* A close of the handle in a slot, by whoever exchanged it.
LEMMA CloseStep ==
  ASSUME TypeOK, Numbering, Publishing, HandleClosedOnce, NEW w \in Workers,
         handle' = [handle EXCEPT ![w] = 0],
         IF handle[w] # 0 THEN CloseHandle(handle[w]) ELSE UNCHANGED closes,
         \A v \in Workers : v # w => pc'[v] = pc[v],
         pc'[w] # "prepare" \/ pc'[w] = pc[w],
         UNCHANGED <<opened, queue, wreq, sent>>
  PROVE  Publishing' /\ HandleClosedOnce'
<1>0. /\ handle \in [Workers -> Nat] /\ closes \in [Requests -> Nat]
      /\ wreq \in [Workers -> Nat] /\ opened \subseteq Requests /\ 0 \notin Requests
  BY HttpAssumption DEF TypeOK, ThreadTypes, DataTypes, Requests
<1>1. handle' \in [Workers -> Nat] /\ handle'[w] = 0
      /\ \A v \in Workers \ {w} : handle'[v] = handle[v] /\ pc'[v] = pc[v]
  BY <1>0
<1>2. CASE handle[w] = 0
  <2>1. closes' = closes
    BY <1>2
  <2>2. Publishing'
    BY <1>0, <1>1, <2>1 DEF Publishing
  <2>3. HandleClosedOnce'
    BY <1>0, <1>1, <1>2, <2>1 DEF HandleClosedOnce
  <2>4. QED
    BY <2>2, <2>3
<1>3. CASE handle[w] # 0
  <2>1. /\ handle[w] = wreq[w] /\ handle[w] \in opened /\ closes[handle[w]] = 0
    BY <1>3 DEF Publishing
  <2>2. \A v \in Workers : handle[v] = handle[w] => v = w
    BY <1>0, <1>3, <2>1 DEF Publishing, Numbering
  <2>3. closes' = [closes EXCEPT ![handle[w]] = @ + 1]
    BY <1>3 DEF CloseHandle
  <2>4. /\ closes'[handle[w]] = 1
        /\ \A r \in Requests \ {handle[w]} : closes'[r] = closes[r]
    BY <1>0, <2>1, <2>3
  <2>5. Publishing'
    <3>1. \A v \in Workers : handle'[v] # 0 => v # w /\ handle'[v] = handle[v]
      BY <1>1
    <3>2. \A v \in Workers : handle'[v] # 0 =>
            /\ handle'[v] = wreq'[v] /\ handle'[v] \in opened' /\ closes'[handle'[v]] = 0
      BY <1>0, <2>2, <2>4, <3>1 DEF Publishing
    <3>3. \A v \in Workers : pc'[v] = "prepare" => wreq'[v] \notin opened'
      BY <1>1 DEF Publishing
    <3>4. \A r \in Requests \ opened' : closes'[r] = 0
      BY <2>1, <2>4 DEF Publishing
    <3>5. QED
      BY <3>2, <3>3, <3>4 DEF Publishing
  <2>6. HandleClosedOnce'
    <3> SUFFICES ASSUME NEW r \in opened
                 PROVE  \/ closes'[r] = 1
                        \/ /\ closes'[r] = 0
                           /\ \E v \in Workers : /\ handle'[v] = r
                                                 /\ pc'[v] \in InTransfer \cup {"dead"}
      BY DEF HandleClosedOnce
    <3>1. CASE r = handle[w]
      BY <2>4, <3>1
    <3>2. CASE r # handle[w]
      BY <1>0, <1>1, <2>4, <3>2 DEF HandleClosedOnce
    <3>3. QED
      BY <3>1, <3>2
  <2>7. QED
    BY <2>5, <2>6
<1>4. QED
  BY <1>2, <1>3

LEMMA HandleStep ==
  ASSUME TypeOK, LifeCycle, Numbering, Publishing, HandleClosedOnce, Next
  PROVE  Publishing' /\ HandleClosedOnce'
<1>0. /\ handle \in [Workers -> Nat] /\ closes \in [Requests -> Nat]
      /\ wreq \in [Workers -> Nat] /\ opened \subseteq Requests /\ 0 \notin Requests
      /\ queue \in Seq(Requests) /\ sent \in Nat /\ Requests \subseteq Nat
      /\ pc \in [Threads -> WorkerLabels \cup GameLabels]
  BY HttpAssumption DEF TypeOK, ThreadTypes, DataTypes, Requests
<1>1. CASE HandleFrame
  BY <1>1 DEF HandleFrame, Publishing, HandleClosedOnce
<1>2. ASSUME NEW w \in Workers, Take(w)
      PROVE  Publishing' /\ HandleClosedOnce'
  <2>1. /\ pc[w] = "lock" /\ pc' = [pc EXCEPT ![w] = "prepare"]
        /\ queue # <<>> /\ queue' = Tail(queue)
        /\ wreq' = [wreq EXCEPT ![w] = Head(queue)]
        /\ UNCHANGED <<handle, closes, opened, sent>>
    BY <1>2 DEF Take
  <2>2. handle[w] = 0
    BY <2>1, HttpAssumption DEF LifeCycle, InTransfer
  <2>3. /\ Len(queue) \in Nat \ {0} /\ Head(queue) = queue[1]
        /\ \A i \in 1..Len(queue') : i + 1 \in 1..Len(queue) /\ queue'[i] = queue[i + 1]
    BY <1>0, <2>1, TailIndex
  <2>4. queue[1] \notin opened /\ \A i \in 1..Len(queue') : queue'[i] \notin opened
    BY <2>3 DEF Publishing
  <2>5. \A v \in Workers : v # w => pc'[v] = pc[v] /\ wreq'[v] = wreq[v]
    BY <1>0, <2>1 DEF Threads
  <2>6. wreq'[w] = queue[1]
    BY <1>0, <2>1, <2>3
  <2>7. Publishing'
    BY <2>1, <2>2, <2>4, <2>5, <2>6 DEF Publishing
  <2>8. HandleClosedOnce'
    <3>1. \A v \in Workers : handle[v] \in opened => v # w
      BY <1>0, <2>2
    <3>2. QED
      BY <2>1, <2>5, <3>1 DEF HandleClosedOnce
  <2>9. QED
    BY <2>7, <2>8
<1>3. ASSUME NEW w \in Workers, BeginTransfer(w)
      PROVE  Publishing' /\ HandleClosedOnce'
  <2>1. /\ pc[w] = "prepare" /\ pc' = [pc EXCEPT ![w] = "transfer"]
        /\ UNCHANGED <<queue, wreq, sent, closes>>
    BY <1>3 DEF BeginTransfer
  <2>2. handle[w] = 0 /\ wreq[w] \in Requests
    BY <2>1, HttpAssumption DEF LifeCycle, InTransfer, TypeOK, ThreadTypes, Holding, Requests
  <2>3. pc'[w] = "transfer" /\ \A v \in Workers : v # w => pc'[v] = pc[v]
    BY <1>0, <2>1 DEF Threads
  <2>4. CASE Windows
    <3>1. handle' = [handle EXCEPT ![w] = wreq[w]] /\ opened' = opened \cup {wreq[w]}
      BY <1>3, <2>4 DEF BeginTransfer
    <3>2. /\ handle'[w] = wreq[w]
          /\ \A v \in Workers : v # w => handle'[v] = handle[v]
      BY <1>0, <3>1
    <3>3. wreq[w] <= sent /\ \A i \in 1..Len(queue) : wreq[w] # queue[i]
      <4>1. \A i \in 1..Len(queue) : queue[i] \in Requests
        BY <1>0
      <4>2. \A i \in 1..Len(queue) : queue[i] \in Nat /\ wreq[w] < queue[i]
        BY <1>0, <4>1 DEF Numbering
      <4>3. QED
        BY <1>0, <4>2 DEF Numbering
    <3>4. wreq[w] \notin opened /\ closes[wreq[w]] = 0
      BY <2>1, <2>2 DEF Publishing
    <3>5. \A v \in Workers : pc'[v] = "prepare" => wreq[v] # wreq[w]
      BY <2>2, <2>3, <1>0 DEF Numbering
    <3>6. Publishing'
      BY <1>0, <2>1, <2>3, <3>1, <3>2, <3>3, <3>4, <3>5 DEF Publishing
    <3>7. HandleClosedOnce'
      BY <1>0, <2>1, <2>2, <2>3, <3>1, <3>2, <3>4 DEF HandleClosedOnce, InTransfer
    <3>8. QED
      BY <3>6, <3>7
  <2>5. CASE ~Windows
    <3>1. UNCHANGED <<handle, opened>>
      BY <1>3, <2>5 DEF BeginTransfer
    <3>2. Publishing'
      BY <1>0, <2>1, <2>3, <3>1 DEF Publishing
    <3>3. HandleClosedOnce'
      BY <1>0, <2>1, <2>2, <2>3, <3>1 DEF HandleClosedOnce
    <3>4. QED
      BY <3>2, <3>3
  <2>6. QED
    BY <2>4, <2>5
<1>4. ASSUME NEW w \in Workers, Release(w) \/ CloseCurrent(w)
      PROVE  Publishing' /\ HandleClosedOnce'
  <2>1. /\ handle' = [handle EXCEPT ![w] = 0]
        /\ IF handle[w] # 0 THEN CloseHandle(handle[w]) ELSE UNCHANGED closes
        /\ UNCHANGED <<opened, queue, wreq, sent>>
    BY <1>4 DEF Release, CloseCurrent
  <2>2. /\ \A v \in Workers : v # w => pc'[v] = pc[v]
        /\ pc'[w] # "prepare" \/ pc'[w] = pc[w]
    BY <1>0, <1>4, HttpAssumption DEF Release, CloseCurrent, Threads
  <2>3. QED
    BY <2>1, <2>2, CloseStep
<1>5. ASSUME NEW w \in Workers, SkipCallback(w) \/ EndCallback(w)
      PROVE  Publishing' /\ HandleClosedOnce'
  <2>1. /\ pc[w] \in {"finished", "callback"} /\ pc' = [pc EXCEPT ![w] = "loop"]
        /\ wreq' = [wreq EXCEPT ![w] = 0]
        /\ UNCHANGED <<handle, closes, opened, queue, sent>>
    BY <1>5 DEF SkipCallback, EndCallback
  <2>2. handle[w] = 0
    BY <2>1, HttpAssumption DEF LifeCycle, InTransfer
  <2>3. pc'[w] = "loop" /\ \A v \in Workers : v # w => pc'[v] = pc[v] /\ wreq'[v] = wreq[v]
    BY <1>0, <2>1 DEF Threads
  <2>4. Publishing'
    BY <2>1, <2>2, <2>3 DEF Publishing
  <2>5. HandleClosedOnce'
    BY <1>0, <2>1, <2>2, <2>3 DEF HandleClosedOnce
  <2>6. QED
    BY <2>4, <2>5
<1>6. ASSUME NEW t \in Threads, Push(t)
      PROVE  Publishing' /\ HandleClosedOnce'
  <2>1. /\ queue' = Append(queue, sent + 1) /\ sent' = sent + 1
        /\ pc[t] = "push" /\ pc' = [pc EXCEPT ![t] = "notify"]
        /\ UNCHANGED <<handle, closes, opened, wreq>>
    BY <1>6 DEF Push
  <2>2. sent + 1 \in Requests
    BY <1>6, HttpAssumption DEF Push, TypeOK, DataTypes, Requests
  <2>3. /\ Len(queue') = Len(queue) + 1
        /\ \A i \in 1..Len(queue) : queue'[i] = queue[i]
        /\ queue'[Len(queue) + 1] = sent + 1
        /\ \A i \in 1..Len(queue') : i \in 1..Len(queue) \/ i = Len(queue) + 1
    BY <1>0, <2>1, <2>2, AppendIndex
  <2>4. sent + 1 \notin opened /\ \A r \in opened : r <= sent + 1
    BY <1>0 DEF Publishing
  <2>5. \A v \in Workers : pc'[v] = IF v = t THEN "notify" ELSE pc[v]
    BY <1>0, <2>1 DEF Threads
  <2>6. Publishing'
    BY <2>1, <2>3, <2>4, <2>5 DEF Publishing
  <2>7. HandleClosedOnce'
    BY <2>1, <2>5 DEF HandleClosedOnce, InTransfer
  <2>8. QED
    BY <2>6, <2>7
<1>7. CASE Join
  <2>1. /\ \A w \in Workers : pc[w] = "exited" /\ pc'[w] = "none"
        /\ queue' = <<>>
        /\ UNCHANGED <<handle, closes, opened, wreq, sent>>
    BY <1>7, HttpAssumption DEF Join, Threads
  <2>2. QED
    BY <2>1 DEF Publishing, HandleClosedOnce, InTransfer
<1>8. QED
  BY <1>1, <1>2, <1>3, <1>4, <1>5, <1>6, <1>7, HandleSteps

\* The worker and Shutdown never both close a request's handle, and none is
\* left open when its transfer is over.
THEOREM HandlesCorrect == Spec => []HandleClosedOnce
<1>1. Init => Publishing /\ HandleClosedOnce
  BY HttpAssumption DEF Init, Publishing, HandleClosedOnce, Threads, Requests
<1>2. /\ Publishing /\ UNCHANGED vars => Publishing'
      /\ HandleClosedOnce /\ UNCHANGED vars => HandleClosedOnce'
  BY DEF Publishing, HandleClosedOnce, vars
<1>3. QED
  BY <1>1, <1>2, HandleStep, Invariance, NumberingCorrect, PTL DEF Spec


-----------------------------------------------------------------------------
(* No push is missed *)

Lockers == {w \in Workers : pc[w] = "lock"}
Notifiers == {t \in Threads : pc[t] = "notify"}
Asleep == \E w \in Workers : pc[w] = "blocked"

\* No push is missed: while a worker sleeps, every request in the queue has a
\* thread of its own on its way, a worker that will look for one or a thread
\* about to wake the sleeper (the wait in WorkerThread, notify_one in Enqueue).
PushesAreNoticed == Asleep => Len(queue) <= Cardinality(Lockers) + Cardinality(Notifiers)

\* A worker is about to block only on an empty queue: it keeps s_mutex.
ParkedOnEmpty == ~MutexFree => queue = <<>>

LEMMA CountTypes ==
  /\ IsFiniteSet(Lockers) /\ IsFiniteSet(Notifiers)
  /\ Cardinality(Lockers) \in Nat /\ Cardinality(Notifiers) \in Nat
<1>1. IsFiniteSet(Threads)
  BY HttpAssumption, FS_AddElement DEF Threads
<1>2. Lockers \subseteq Workers /\ Notifiers \subseteq Threads
  BY DEF Lockers, Notifiers
<1>3. IsFiniteSet(Lockers) /\ IsFiniteSet(Notifiers)
  BY <1>1, <1>2, HttpAssumption, FS_Subset
<1>4. QED
  BY <1>3, FS_CardinalityType

\* The same after a step.
LEMMA CountTypesNext ==
  /\ IsFiniteSet(Lockers') /\ IsFiniteSet(Notifiers')
  /\ Cardinality(Lockers') \in Nat /\ Cardinality(Notifiers') \in Nat
<1>1. IsFiniteSet(Threads)
  BY HttpAssumption, FS_AddElement DEF Threads
<1>2. Lockers' \subseteq Workers /\ Notifiers' \subseteq Threads
  BY DEF Lockers, Notifiers
<1>3. IsFiniteSet(Lockers') /\ IsFiniteSet(Notifiers')
  BY <1>1, <1>2, HttpAssumption, FS_Subset
<1>4. QED
  BY <1>3, FS_CardinalityType

\* With nobody asleep, or nothing queued, there is nothing to notice.
LEMMA NothingToNotice ==
  ASSUME ~Asleep' \/ queue' = <<>>
  PROVE  PushesAreNoticed'
<1>1. CASE ~Asleep'
  BY <1>1 DEF PushesAreNoticed, Asleep
<1>2. CASE queue' = <<>>
  <2>1. Len(queue') = 0
    BY <1>2
  <2>2. Cardinality(Lockers') + Cardinality(Notifiers') >= 0
    BY CountTypesNext
  <2>3. QED
    BY <2>1, <2>2 DEF PushesAreNoticed, Lockers, Notifiers
<1>3. QED
  BY <1>1, <1>2

\* Those on their way may only become more while the queue is as it is.
LEMMA StillOnTheirWay ==
  ASSUME PushesAreNoticed, queue' = queue, queue \in Seq(Requests),
         Lockers \subseteq Lockers', Notifiers \subseteq Notifiers', Asleep' => Asleep
  PROVE  PushesAreNoticed'
<1>1. Cardinality(Lockers) <= Cardinality(Lockers')
      /\ Cardinality(Notifiers) <= Cardinality(Notifiers')
  BY CountTypesNext, FS_Subset
<1>2. Len(queue) \in Nat
  OBVIOUS
<1>3. Asleep => Len(queue) <= Cardinality(Lockers) + Cardinality(Notifiers)
  BY DEF PushesAreNoticed, Asleep, Lockers, Notifiers
<1>4. Asleep' => Len(queue') <= Cardinality(Lockers') + Cardinality(Notifiers')
  BY <1>1, <1>2, <1>3, CountTypes, CountTypesNext
<1>5. QED
  BY <1>4 DEF PushesAreNoticed, Asleep, Lockers, Notifiers

\* A request is pushed by a thread that goes on to notify.
LEMMA PushNoticed ==
  ASSUME TypeOK, PushesAreNoticed, NEW t \in Threads, Push(t)
  PROVE  PushesAreNoticed' /\ ParkedOnEmpty'
<1> USE DEF TypeOK, ThreadTypes
<1>1. /\ pc[t] = "push" /\ pc' = [pc EXCEPT ![t] = "notify"] /\ MutexFree
      /\ queue' = Append(queue, sent + 1)
  BY DEF Push
<1>2. Lockers' = Lockers /\ Notifiers' = Notifiers \cup {t} /\ t \notin Notifiers
  BY <1>1 DEF Lockers, Notifiers, Threads
<1>3. Cardinality(Notifiers') = Cardinality(Notifiers) + 1
  BY <1>2, CountTypes, FS_AddElement
<1>4. Len(queue) \in Nat /\ Len(queue') = Len(queue) + 1
  BY <1>1 DEF DataTypes, Push, Requests
<1>5. Asleep' => Asleep
  BY <1>1 DEF Asleep, Threads
<1>6. Asleep => Len(queue) <= Cardinality(Lockers) + Cardinality(Notifiers)
  BY DEF PushesAreNoticed, Asleep, Lockers, Notifiers
<1>7. Asleep' => Len(queue') <= Cardinality(Lockers') + Cardinality(Notifiers')
  BY <1>2, <1>3, <1>4, <1>5, <1>6, CountTypes
<1>8. MutexFree'
  BY <1>1 DEF MutexFree, Threads
<1>9. QED
  BY <1>7, <1>8 DEF PushesAreNoticed, Asleep, Lockers, Notifiers, ParkedOnEmpty

\* A worker that was on its way takes one.
LEMMA TakeNoticed ==
  ASSUME TypeOK, PushesAreNoticed, NEW w \in Workers, Take(w)
  PROVE  PushesAreNoticed' /\ ParkedOnEmpty'
<1> USE DEF TypeOK, ThreadTypes
<1>1. /\ pc[w] = "lock" /\ pc' = [pc EXCEPT ![w] = "prepare"] /\ MutexFree
      /\ queue # <<>> /\ queue' = Tail(queue)
  BY DEF Take
<1>2. Lockers' = Lockers \ {w} /\ Notifiers' = Notifiers /\ w \in Lockers
  BY <1>1, HttpAssumption DEF Lockers, Notifiers, Threads
<1>3. Cardinality(Lockers') = Cardinality(Lockers) - 1
  BY <1>2, CountTypes, FS_RemoveElement
<1>4. Len(queue) \in Nat /\ Len(queue') = Len(queue) - 1
  BY <1>1 DEF DataTypes
<1>5. Asleep' => Asleep
  BY <1>1 DEF Asleep, Threads
<1>6. Asleep => Len(queue) <= Cardinality(Lockers) + Cardinality(Notifiers)
  BY DEF PushesAreNoticed, Asleep, Lockers, Notifiers
<1>7. Asleep' => Len(queue') <= Cardinality(Lockers') + Cardinality(Notifiers')
  BY <1>2, <1>3, <1>4, <1>5, <1>6, CountTypes
<1>8. MutexFree'
  BY <1>1 DEF MutexFree, Threads
<1>9. QED
  BY <1>7, <1>8 DEF PushesAreNoticed, Asleep, Lockers, Notifiers, ParkedOnEmpty

\* The notifier sends another thread on its way in its place.
LEMMA NotifyNoticed ==
  ASSUME TypeOK, PushesAreNoticed, ParkedOnEmpty, NEW t \in Threads, NotifyOne(t)
  PROVE  PushesAreNoticed' /\ ParkedOnEmpty'
<1> USE HttpAssumption DEF TypeOK, ThreadTypes, Threads, Returned
<1>1. queue' = queue /\ (MutexFree => MutexFree') /\ queue \in Seq(Requests)
  BY DEF NotifyOne, MutexFree, DataTypes
<1>2. ParkedOnEmpty'
  BY <1>1 DEF ParkedOnEmpty
<1>3. CASE \A w \in Workers : pc[w] # "blocked"
  <2>1. ~Asleep'
    BY <1>3 DEF NotifyOne, Asleep
  <2>2. QED
    BY <1>2, <2>1, NothingToNotice
<1>4. CASE ~\A w \in Workers : pc[w] # "blocked"
  <2>1. PICK w \in Workers : /\ pc[t] = "notify" /\ pc[w] = "blocked"
                             /\ pc' = [pc EXCEPT ![t] = Returned(t), ![w] = "lock"]
    BY <1>4 DEF NotifyOne
  <2>2. /\ Lockers' = Lockers \cup {w} /\ w \notin Lockers
        /\ Notifiers' = Notifiers \ {t} /\ t \in Notifiers
    BY <2>1 DEF Lockers, Notifiers
  <2>3. /\ Cardinality(Lockers') = Cardinality(Lockers) + 1
        /\ Cardinality(Notifiers') = Cardinality(Notifiers) - 1
    BY <2>2, CountTypes, FS_AddElement, FS_RemoveElement
  <2>4. Asleep
    BY <2>1 DEF Asleep
  <2>5. Len(queue) <= Cardinality(Lockers) + Cardinality(Notifiers) /\ Len(queue) \in Nat
    BY <1>1, <2>4 DEF PushesAreNoticed, Asleep, Lockers, Notifiers
  <2>6. Len(queue') <= Cardinality(Lockers') + Cardinality(Notifiers')
    BY <1>1, <2>3, <2>5, CountTypes
  <2>7. QED
    BY <1>2, <2>6 DEF PushesAreNoticed, Lockers, Notifiers
<1>5. QED
  BY <1>3, <1>4

LEMMA NoticedStep ==
  ASSUME TypeOK, LifeCycle, PushesAreNoticed, ParkedOnEmpty, Next
  PROVE  PushesAreNoticed' /\ ParkedOnEmpty'
<1> USE HttpAssumption DEF TypeOK, ThreadTypes, Threads, Stopping, Down
<1>0. queue \in Seq(Requests)
  BY DEF DataTypes
<1>1. ASSUME queue' = queue, Lockers \subseteq Lockers', Notifiers \subseteq Notifiers',
             Asleep' => Asleep, MutexFree => MutexFree'
      PROVE  PushesAreNoticed' /\ ParkedOnEmpty'
  BY <1>0, <1>1, StillOnTheirWay DEF ParkedOnEmpty
<1>2. ASSUME queue' = <<>> PROVE PushesAreNoticed' /\ ParkedOnEmpty'
  BY <1>2, NothingToNotice DEF ParkedOnEmpty
<1>3. ASSUME NEW w \in Workers, TestRunning(w) PROVE PushesAreNoticed' /\ ParkedOnEmpty'
  BY <1>1, <1>3 DEF TestRunning, Lockers, Notifiers, Asleep, MutexFree
<1>4. ASSUME NEW w \in Workers, FindEmpty(w) PROVE PushesAreNoticed' /\ ParkedOnEmpty'
  BY <1>2, <1>4 DEF FindEmpty
<1>5. ASSUME NEW w \in Workers, Block(w) PROVE PushesAreNoticed' /\ ParkedOnEmpty'
  BY <1>2, <1>5 DEF Block, ParkedOnEmpty, MutexFree
<1>6. ASSUME NEW w \in Workers, WakeSpuriously(w)
      PROVE  PushesAreNoticed' /\ ParkedOnEmpty'
  BY <1>1, <1>6 DEF WakeSpuriously, Lockers, Notifiers, Asleep, MutexFree
<1>7. ASSUME NEW w \in Workers,
             \/ FailEarly(w) \/ BeginTransfer(w) \/ EndTransfer(w) \/ Release(w)
             \/ SkipCallback(w) \/ StartCallback(w) \/ EndCallback(w)
             \/ CallbackEnqueue(w) \/ EnsureNotShutdown(w)
      PROVE  PushesAreNoticed' /\ ParkedOnEmpty'
  <2>1. queue' = queue /\ \E to \in {"finished", "transfer", "release", "loop", "callback",
                                     "ensure", "ensureRunning", "push"} :
          pc' = [pc EXCEPT ![w] = to] /\ pc[w] \notin {"lock", "notify"}
    BY <1>7 DEF FailEarly, BeginTransfer, EndTransfer, Release, SkipCallback,
       StartCallback, EndCallback, CallbackEnqueue, EnsureNotShutdown
  <2>2. QED
    BY <1>1, <2>1 DEF Lockers, Notifiers, Asleep, MutexFree
<1>8. ASSUME NEW w \in Workers, EnsureRunning(w) PROVE PushesAreNoticed' /\ ParkedOnEmpty'
  <2>1. CASE running
    BY <1>1, <1>8, <2>1 DEF EnsureRunning, Lockers, Notifiers, Asleep, MutexFree
  <2>2. CASE ~running
    <3>1. ~Asleep' /\ MutexFree'
      BY <1>8, <2>2 DEF EnsureRunning, Asleep, MutexFree
    <3>2. QED
      BY <3>1, NothingToNotice DEF ParkedOnEmpty
  <2>3. QED
    BY <2>1, <2>2
<1>9. CASE Enqueue
  <2>1. CASE running
    BY <1>1, <1>9, <2>1 DEF Enqueue, Lockers, Notifiers, Asleep, MutexFree
  <2>2. CASE ~running
    BY <1>2, <1>9, <2>2 DEF Enqueue, LifeCycle, Quiet
  <2>3. QED
    BY <2>1, <2>2
<1>10. CASE NotifyAll
  <2>1. ~Asleep' /\ queue' = queue /\ (MutexFree => MutexFree')
    BY <1>10 DEF NotifyAll, Asleep, MutexFree
  <2>2. QED
    BY <2>1, NothingToNotice DEF ParkedOnEmpty
<1>11. CASE Join
  BY <1>2, <1>11 DEF Join
<1>12. CASE \/ StopRunning \/ CancelInFlight \/ BeginShutdown \/ ClearMainQueue
            \/ ResetShutdownLatch \/ \E w \in Workers : CloseCurrent(w)
  <2>1. queue' = queue /\ \/ pc' = pc
                          \/ /\ pc[Game] \in {"idle"} \cup Stopping \cup Down
                             /\ \E to \in {"idle"} \cup Stopping \cup Down :
                                  pc' = [pc EXCEPT ![Game] = to]
    BY <1>12 DEF StopRunning, CancelInFlight, BeginShutdown, ClearMainQueue,
       ResetShutdownLatch, CloseCurrent
  <2>2. QED
    BY <1>1, <2>1 DEF Lockers, Notifiers, Asleep, MutexFree
<1>13. CASE DrainMainThread \/ RunClosure
  BY <1>1, <1>13 DEF DrainMainThread, RunClosure, Lockers, Notifiers, Asleep, MutexFree
<1>14. ASSUME NEW t \in Threads, Push(t) \/ NotifyOne(t)
       PROVE  PushesAreNoticed' /\ ParkedOnEmpty'
  BY <1>14, PushNoticed, NotifyNoticed
<1>15. ASSUME NEW w \in Workers, Take(w) PROVE PushesAreNoticed' /\ ParkedOnEmpty'
  BY <1>15, TakeNoticed
<1>16. QED
  BY <1>3, <1>4, <1>5, <1>6, <1>7, <1>8, <1>9, <1>10, <1>11, <1>12, <1>13, <1>14, <1>15
     DEF Next, WorkerStep, GameStep, GameCall

\* However the pushes of the game thread and of callbacks meet workers that test
\* the queue, block, and wake (WorkerThread, Enqueue): while a worker sleeps, each
\* queued request has a thread on its way to it.  The safety part of
\* RequestsSettle, for any number of workers.
THEOREM NoticedCorrect == Spec => []PushesAreNoticed
<1>1. Init => PushesAreNoticed /\ ParkedOnEmpty
  BY HttpAssumption DEF Init, PushesAreNoticed, Asleep, ParkedOnEmpty, Threads
<1>2. PushesAreNoticed /\ ParkedOnEmpty /\ UNCHANGED vars
        => PushesAreNoticed' /\ ParkedOnEmpty'
  BY DEF PushesAreNoticed, Asleep, Lockers, Notifiers, ParkedOnEmpty, MutexFree, vars
<1>3. TypeOK /\ LifeCycle /\ PushesAreNoticed /\ ParkedOnEmpty /\ Next
        => PushesAreNoticed' /\ ParkedOnEmpty'
  BY NoticedStep
<1>4. QED
  BY <1>1, <1>2, <1>3, Invariance, PTL DEF Spec

=============================================================================
