----------------------------- MODULE HttpClient -----------------------------
(***************************************************************************)
(* utils/http_client.cpp: the queue of requests, the pool of worker        *)
(* threads that performs them, Shutdown on plugin unload, and the queue of *)
(* closures that callbacks hand to the game thread.                        *)
(*                                                                         *)
(* pc[t] says where thread t is in the source.  A step is what a thread    *)
(* does between two accesses to state another thread may change meanwhile. *)
(* s_mutex, s_callbackMutex and the locks of std::thread::join need no     *)
(* variable: who holds or waits for one is who is at the matching label.   *)
(***************************************************************************)
EXTENDS Naturals, Sequences, FiniteSets

CONSTANTS
  Workers,        \* the slots of s_workers
  Game,           \* the game thread, which makes every call of the header
  MaxRequests,    \* bound: requests accepted in a behaviour
  MaxLoads,       \* bound: plugin loads in a behaviour
  Silent,         \* the requests whose callback is empty
  Windows,        \* TRUE: WinHTTP, one handle per worker; FALSE: libcurl
  CallbackSends   \* TRUE: callbacks may call Get or Post themselves

ASSUME HttpAssumption ==
  /\ Workers # {} /\ IsFiniteSet(Workers)
  /\ Game \notin Workers
  /\ MaxRequests \in Nat
  /\ MaxLoads \in Nat
  /\ Silent \subseteq 1..MaxRequests
  /\ Windows \in BOOLEAN
  /\ CallbackSends \in BOOLEAN

VARIABLES
  pc,          \* where each thread is
  running,     \* s_running
  shutdown,    \* s_shutdown
  cancel,      \* s_cancelInFlight (Linux)
  handle,      \* s_currentRequest (Windows): whose handle a slot publishes
  queue,       \* s_queue, the requests by number
  wreq,        \* the request a worker has taken, 0 for none
  swept,       \* the slots Shutdown has exchanged so far (Windows)
  mainQueue,   \* s_mainQueue: the requests whose callback queued a closure
  mainDrain,   \* the closures DrainMainThread has still to run
  sent,        \* number of requests accepted, which numbers them
  answered,    \* requests that were performed and whose callback returned
  dropped,     \* requests Shutdown dropped from the queue
  closes,      \* how often the handle of each request was closed (Windows)
  opened,      \* requests that published a handle (Windows)
  base,        \* requests above this number belong to the current load
  loads        \* number of plugin loads so far

poolVars == <<running, shutdown, cancel, handle, swept>>
settled == <<answered, dropped>>
mainVars == <<mainQueue, mainDrain>>
closeVars == <<closes, opened>>
loadVars == <<base, loads>>
otherVars == <<mainVars, closeVars, loadVars>>
vars == <<pc, poolVars, queue, wreq, sent, settled, otherVars>>

Requests == 1..MaxRequests
Threads == Workers \cup {Game}

Elems(s) == {s[i] : i \in DOMAIN s}

(***************************************************************************)
(* The labels.  A worker has taken a request exactly at the Holding ones.  *)
(***************************************************************************)
InTransfer == {"transfer", "release"}
InCallback == {"callback", "ensure", "ensureRunning", "push", "notify"}
Holding == {"prepare", "finished"} \cup InTransfer \cup InCallback
Waiting == {"loop", "lock", "parking", "blocked"}
WorkerLabels == {"none", "exited", "dead"} \cup Waiting \cup Holding
Stopping == {"stop", "notifyAll", "cancel", "join"}
Down == {"down", "unloaded"}
GameLabels == {"idle", "push", "notify", "dead"} \cup Stopping \cup Down

Goto(t, label) == pc' = [pc EXCEPT ![t] = label]

\* Thread t goes on and changes nothing else.
Step(t, from, to) ==
  /\ pc[t] = from
  /\ Goto(t, to)
  /\ UNCHANGED <<poolVars, queue, wreq, sent, settled, otherVars>>

\* Only a worker between evaluating the wait predicate and blocking keeps
\* s_mutex across steps.
MutexFree == \A w \in Workers : pc[w] # "parking"

CallbackMutexFree == \A w \in Workers : pc[w] \notin InCallback

\* The bound on requests, those on their way to the queue included.
Room == sent + Cardinality({t \in Threads : pc[t] \in {"ensure", "ensureRunning", "push"}})
          < MaxRequests

Init ==
  /\ pc = [t \in Threads |-> IF t = Game THEN "idle" ELSE "none"]
  /\ running = FALSE /\ shutdown = FALSE /\ cancel = FALSE
  /\ handle = [w \in Workers |-> 0] /\ swept = {}
  /\ queue = <<>> /\ wreq = [w \in Workers |-> 0]
  /\ sent = 0 /\ answered = {} /\ dropped = {}
  /\ mainQueue = <<>> /\ mainDrain = <<>>
  /\ closes = [r \in Requests |-> 0] /\ opened = {}
  /\ base = 0 /\ loads = 1

-----------------------------------------------------------------------------
(* Get, Post and PostForm on the game thread: Enqueue *)

\* Creating the threads one by one is not told apart from creating them
\* together: a thread that does not exist yet is one that has not run yet.
Enqueue ==
  /\ pc[Game] = "idle"
  /\ ~shutdown
  /\ Room
  /\ pc' = [t \in Threads |-> IF t = Game THEN "push"
                              ELSE IF running THEN pc[t] ELSE "loop"]
  /\ running' = TRUE
  /\ UNCHANGED <<shutdown, cancel, handle, swept, queue, wreq, sent, settled, otherVars>>

Push(t) ==
  /\ pc[t] = "push"
  /\ MutexFree
  /\ sent < MaxRequests    \* implied by Room
  /\ sent' = sent + 1
  /\ queue' = Append(queue, sent + 1)
  /\ Goto(t, "notify")
  /\ UNCHANGED <<poolVars, wreq, settled, otherVars>>

Returned(t) == IF t = Game THEN "idle" ELSE "callback"

NotifyNobody(t) == Step(t, "notify", Returned(t))    \* mutant

\* notify_one, which comes after the unlock.
NotifyOne(t) ==
  \/ (\A w \in Workers : pc[w] # "blocked") /\ Step(t, "notify", Returned(t))
  \/ /\ pc[t] = "notify"
     /\ \E w \in Workers : /\ pc[w] = "blocked"
                           /\ pc' = [pc EXCEPT ![t] = Returned(t), ![w] = "lock"]
     /\ UNCHANGED <<poolVars, queue, wreq, sent, settled, otherVars>>

-----------------------------------------------------------------------------
(* WorkerThread *)

TestRunning(w) == Step(w, "loop", IF running THEN "lock" ELSE "exited")

TakeWithoutPop(w) ==    \* mutant
  /\ pc[w] = "lock" /\ MutexFree /\ queue # <<>>
  /\ wreq' = [wreq EXCEPT ![w] = Head(queue)]
  /\ Goto(w, "prepare")
  /\ UNCHANGED <<poolVars, queue, sent, settled, otherVars>>

\* The wait predicate holds with a request there.  One is taken even when the
\* client is no longer running.
Take(w) ==
  /\ pc[w] = "lock" /\ MutexFree /\ queue # <<>>
  /\ wreq' = [wreq EXCEPT ![w] = Head(queue)]
  /\ queue' = Tail(queue)
  /\ Goto(w, "prepare")
  /\ UNCHANGED <<poolVars, sent, settled, otherVars>>

\* No request: the thread ends when the client stopped.  Otherwise the wait
\* predicate was false, and the thread will block, still holding s_mutex.
FindEmpty(w) ==
  /\ MutexFree /\ queue = <<>>
  /\ Step(w, "lock", IF running THEN "parking" ELSE "exited")

\* The thread joins the waiters of s_cv and releases s_mutex, in one step.
Block(w) == Step(w, "parking", "blocked")

\* A wait may also end without a notification.
WakeSpuriously(w) == Step(w, "blocked", "lock")

-----------------------------------------------------------------------------
(* PerformRequest, of either platform *)

\* curl_easy_init, WinHttpOpen, WinHttpConnect or WinHttpOpenRequest fails.
FailEarly(w) == Step(w, "prepare", "finished")

\* The transfer begins.  On Windows its handle is published first.
BeginTransfer(w) ==
  /\ pc[w] = "prepare"
  /\ Goto(w, "transfer")
  /\ handle' = IF Windows THEN [handle EXCEPT ![w] = wreq[w]] ELSE handle
  /\ opened' = IF Windows THEN opened \cup {wreq[w]} ELSE opened
  /\ UNCHANGED <<running, shutdown, cancel, swept, queue, wreq, sent, settled,
                 mainVars, closes, loadVars>>

\* The response came, a timeout passed, or the transfer was aborted.
EndTransfer(w) == Step(w, "transfer", "release")

CloseHandle(h) == closes' = IF h = 0 THEN closes ELSE [closes EXCEPT ![h] = @ + 1]

LoadAndClose(w) == CloseHandle(handle[w]) /\ handle' = handle    \* mutant

\* Whoever takes the handle out of the slot closes it.
ExchangeAndClose(w) == CloseHandle(handle[w]) /\ handle' = [handle EXCEPT ![w] = 0]

Release(w) ==
  /\ pc[w] = "release"
  /\ Goto(w, "finished")
  /\ ExchangeAndClose(w)
  /\ UNCHANGED <<running, shutdown, cancel, swept, queue, wreq, sent, settled,
                 mainVars, opened, loadVars>>

-----------------------------------------------------------------------------
(* The callback of a request *)

Settle(w) ==
  /\ answered' = answered \cup {wreq[w]}
  /\ wreq' = [wreq EXCEPT ![w] = 0]

SkipCallback(w) ==
  /\ pc[w] = "finished" /\ wreq[w] \in Silent
  /\ Settle(w)
  /\ Goto(w, "loop")
  /\ UNCHANGED <<poolVars, queue, sent, dropped, otherVars>>

StartCallback(w) ==
  /\ wreq[w] \notin Silent
  /\ CallbackMutexFree
  /\ Step(w, "finished", "callback")

\* The callback may hand a closure to the game thread (QueueMainThread).
EndCallback(w) ==
  /\ pc[w] = "callback"
  /\ \E queues \in BOOLEAN :
       mainQueue' = IF queues THEN Append(mainQueue, wreq[w]) ELSE mainQueue
  /\ Settle(w)
  /\ Goto(w, "loop")
  /\ UNCHANGED <<poolVars, queue, sent, dropped, mainDrain, closeVars, loadVars>>

\* A callback that sends a request of its own runs Enqueue and EnsureStarted
\* on its worker, where each flag they load may have changed since the last.
CallbackEnqueue(w) ==
  /\ CallbackSends
  /\ ~shutdown
  /\ Room
  /\ Step(w, "callback", "ensure")

EnsureNotShutdown(w) == Step(w, "ensure", IF shutdown THEN "push" ELSE "ensureRunning")

\* Starting over a worker that was not joined ends the process: assigning to
\* a joinable std::thread calls std::terminate.
EnsureRunning(w) ==
  /\ pc[w] = "ensureRunning"
  /\ pc' = IF running THEN [pc EXCEPT ![w] = "push"] ELSE [t \in Threads |-> "dead"]
  /\ running' = TRUE
  /\ UNCHANGED <<shutdown, cancel, handle, swept, queue, wreq, sent, settled, otherVars>>

-----------------------------------------------------------------------------
(* Shutdown on the game thread *)

BeginShutdown ==
  /\ pc[Game] = "idle"
  /\ mainDrain = <<>>
  /\ shutdown' = TRUE
  /\ Goto(Game, IF running THEN "stop" ELSE "down")
  /\ UNCHANGED <<running, cancel, handle, swept, queue, wreq, sent, settled, otherVars>>

StopRunning ==
  /\ pc[Game] = "stop"
  /\ running' = FALSE
  /\ Goto(Game, "notifyAll")
  /\ UNCHANGED <<shutdown, cancel, handle, swept, queue, wreq, sent, settled, otherVars>>

NotifyAllWakesOne ==    \* mutant
  /\ pc[Game] = "notifyAll"
  /\ \E w \in Workers :
       pc' = [pc EXCEPT ![Game] = "cancel", ![w] = IF @ = "blocked" THEN "lock" ELSE @]
  /\ UNCHANGED <<poolVars, queue, wreq, sent, settled, otherVars>>

NotifyAll ==
  /\ pc[Game] = "notifyAll"
  /\ pc' = [t \in Threads |-> IF t = Game THEN "cancel"
                              ELSE IF pc[t] = "blocked" THEN "lock" ELSE pc[t]]
  /\ UNCHANGED <<poolVars, queue, wreq, sent, settled, otherVars>>

\* Windows: one slot after the other is exchanged for null and closed.
CloseCurrent(w) ==
  /\ Windows
  /\ pc[Game] = "cancel"
  /\ w \notin swept
  /\ ExchangeAndClose(w)
  /\ IF swept \cup {w} = Workers
       THEN swept' = {} /\ Goto(Game, "join")
       ELSE swept' = swept \cup {w} /\ UNCHANGED pc
  /\ UNCHANGED <<running, shutdown, cancel, queue, wreq, sent, settled, mainVars,
                 opened, loadVars>>

\* Linux: the flag that every running transfer polls.
CancelInFlight ==
  /\ ~Windows
  /\ pc[Game] = "cancel"
  /\ cancel' = TRUE
  /\ Goto(Game, "join")
  /\ UNCHANGED <<running, shutdown, handle, swept, queue, wreq, sent, settled, otherVars>>

KeepQueue == UNCHANGED <<queue, dropped>>    \* mutant

DropQueue ==
  /\ dropped' = dropped \cup Elems(queue)
  /\ queue' = <<>>

\* All threads are joined.  Nobody can see the flag fall and the queue emptied,
\* which ends the call.
Join ==
  /\ pc[Game] = "join"
  /\ \A w \in Workers : pc[w] = "exited"
  /\ pc' = [t \in Threads |-> IF t = Game THEN "down" ELSE "none"]
  /\ cancel' = FALSE
  /\ DropQueue
  /\ UNCHANGED <<running, shutdown, handle, swept, wreq, sent, answered, otherVars>>

-----------------------------------------------------------------------------
(* The queue of the game thread, and the plugin's load cycle *)

DrainMainThread ==
  /\ pc[Game] = "idle"
  /\ mainDrain = <<>> /\ mainQueue # <<>>
  /\ mainDrain' = mainQueue
  /\ mainQueue' = mainDrain
  /\ UNCHANGED <<pc, poolVars, queue, wreq, sent, settled, closeVars, loadVars>>

\* A closure may queue itself for the next frame.
RunClosure ==
  /\ pc[Game] = "idle"
  /\ mainDrain # <<>>
  /\ mainDrain' = Tail(mainDrain)
  /\ \E again \in BOOLEAN :
       mainQueue' = IF again THEN Append(mainQueue, Head(mainDrain)) ELSE mainQueue
  /\ UNCHANGED <<pc, poolVars, queue, wreq, sent, settled, closeVars, loadVars>>

ClearNothing == Step(Game, "down", "unloaded")    \* mutant

\* At the very end of Unload.
ClearMainQueue ==
  /\ pc[Game] = "down"
  /\ mainQueue' = <<>>
  /\ Goto(Game, "unloaded")
  /\ UNCHANGED <<poolVars, queue, wreq, sent, settled, mainDrain, closeVars, loadVars>>

\* From the next Load.
ResetShutdownLatch ==
  /\ pc[Game] = "unloaded"
  /\ loads < MaxLoads
  /\ shutdown' = FALSE
  /\ loads' = loads + 1
  /\ base' = sent
  /\ Goto(Game, "idle")
  /\ UNCHANGED <<running, cancel, handle, swept, queue, wreq, sent, settled, mainVars,
                 closeVars>>

-----------------------------------------------------------------------------
WorkerStep(w) ==
  \/ TestRunning(w) \/ Take(w) \/ FindEmpty(w) \/ Block(w)
  \/ FailEarly(w) \/ BeginTransfer(w) \/ EndTransfer(w) \/ Release(w)
  \/ SkipCallback(w) \/ StartCallback(w) \/ EndCallback(w)
  \/ CallbackEnqueue(w) \/ EnsureNotShutdown(w) \/ EnsureRunning(w)
  \/ Push(w) \/ NotifyOne(w)

\* What the game thread does inside a call it has begun.
GameStep ==
  \/ Push(Game) \/ NotifyOne(Game)
  \/ StopRunning \/ NotifyAll \/ CancelInFlight \/ Join
  \/ \E w \in Workers : CloseCurrent(w)

\* The calls the plugin makes, and the frames.
GameCall ==
  \/ Enqueue \/ BeginShutdown \/ DrainMainThread \/ RunClosure
  \/ ClearMainQueue \/ ResetShutdownLatch

Next ==
  \/ \E w \in Workers : WorkerStep(w) \/ WakeSpuriously(w)
  \/ GameStep
  \/ GameCall

(***************************************************************************)
(* A thread that can run does, and one that waits for a mutex others keep  *)
(* releasing gets it: strong fairness.  A transfer ends because both       *)
(* platforms bound it in time (15 s, or 5 + 5 + 15 + 15 s for each         *)
(* operation).  Nothing is assumed of the calls of the plugin, nor of      *)
(* spurious wake-ups.                                                      *)
(***************************************************************************)
Fairness ==
  /\ \A w \in Workers : SF_vars(WorkerStep(w))
  /\ SF_vars(GameStep)

Spec == Init /\ [][Next]_vars

FairSpec == Spec /\ Fairness

-----------------------------------------------------------------------------
(* Properties *)

\* The scope of WorkerThread's req: a worker holds a request at the labels
\* between the pop and the end of its callback, and at no other.
ThreadTypes ==
  /\ pc \in [Threads -> WorkerLabels \cup GameLabels]
  /\ pc[Game] \in GameLabels
  /\ wreq \in [Workers -> 0..MaxRequests]
  /\ \A w \in Workers :
       /\ pc[w] \in WorkerLabels
       /\ pc[w] # "dead" => (pc[w] \in Holding <=> wreq[w] # 0)

DataTypes ==
  /\ running \in BOOLEAN /\ shutdown \in BOOLEAN /\ cancel \in BOOLEAN
  /\ handle \in [Workers -> 0..MaxRequests]
  /\ swept \subseteq Workers
  /\ queue \in Seq(Requests)
  /\ mainQueue \in Seq(Requests) /\ mainDrain \in Seq(Requests)
  /\ sent \in 0..MaxRequests
  /\ answered \subseteq Requests /\ dropped \subseteq Requests
  /\ closes \in [Requests -> Nat]
  /\ opened \subseteq Requests
  /\ base \in 0..sent
  /\ loads \in Nat

\* Types, and that a worker's request is there when it is used.
TypeOK == ThreadTypes /\ DataTypes

\* Once Shutdown has returned, and until the plugin is loaded again, no thread
\* is left, nothing is queued, no handle is published and no cancellation is
\* pending that would abort the requests of the next load (Shutdown 394-437).
ShutdownQuiesces ==
  pc[Game] \in {"down", "unloaded"} =>
    /\ \A w \in Workers : pc[w] = "none" /\ handle[w] = 0
    /\ queue = <<>>
    /\ ~running /\ ~cancel

\* Nothing of an earlier load is queued, performed or run by a later one: the
\* closures would call into code that was unloaded since (ClearMainQueue,
\* "at the very end of plugin Unload").
NothingOutlivesUnload ==
  /\ \A r \in Elems(queue) \cup Elems(mainQueue) \cup Elems(mainDrain) : r > base
  /\ \A w \in Workers : wreq[w] # 0 => wreq[w] > base

\* One callback runs at a time: they are written as if there were one worker
\* (s_callbackMutex).
CallbacksExclusive ==
  \A v, w \in Workers : pc[v] \in InCallback /\ pc[w] \in InCallback => v = w

\* A published handle is closed once, by the worker or by Shutdown, and by the
\* time its request is no longer in transfer (the exchanges of s_currentRequest).
HandleClosedOnce ==
  \A r \in opened :
    \/ closes[r] = 1
    \/ /\ closes[r] = 0
       /\ \E w \in Workers : handle[w] = r /\ pc[w] \in InTransfer \cup {"dead"}

\* The transfer of worker w is going to fail soon, not with its timeout.
Aborted(w) == IF Windows THEN handle[w] = 0 ELSE cancel

\* While Shutdown joins, every transfer still running has been aborted: "Shutdown()
\* can abort a blocking I/O call, instead of waiting for the full HTTP timeout"
\* (the comment at "In-flight cancellation state").
JoinIsPrompt ==
  pc[Game] = "join" => \A w \in Workers : pc[w] = "transfer" => Aborted(w)

\* "Never restart after Shutdown() has been called" (EnsureStarted).
NeverRestarts == [][shutdown /\ ~running => ~running']_vars

\* The pool keeps the promise of the header: requests start in the order they
\* were sent, each once, and end answered once or, unstarted, discarded.
Ledger == INSTANCE RequestLedger WITH
  waiting <- queue,
  active <- {r \in Requests : \E w \in Workers : wreq[w] = r},
  discarded <- dropped

RefinesLedger == Ledger!LSpec

\* Every accepted request is eventually answered or discarded: no push is
\* missed by the workers that wait (Enqueue, WorkerThread).
RequestsSettle ==
  \A r \in Requests : r <= sent ~> r \in answered \cup dropped

\* Shutdown returns: it cancels what is in flight and joins the workers.
ShutdownReturns == pc[Game] = "stop" ~> pc[Game] = "down"

\* The one way in which it does not: a worker that has found the queue empty,
\* and the client running, and has not blocked yet when notify_all is called.
ShutdownReturnsUnlessParking ==
  [](pc[Game] = "notifyAll" => MutexFree) => ShutdownReturns
=============================================================================
