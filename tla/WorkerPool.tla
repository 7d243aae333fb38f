----------------------------- MODULE WorkerPool -----------------------------
(***************************************************************************)
(* The process-wide ThreadPool and DeferredCall: worker threads that take  *)
(* tasks in order under one mutex and one condition variable, and a queue  *)
(* of callbacks that only the main thread runs.                            *)
(*                                                                         *)
(* A worker that has found nothing to do still holds the mutex until it    *)
(* waits: "blocking".  Enqueueing needs the mutex; stopping does not take  *)
(* it.  A task is a value; what a busy worker does with it belongs to the  *)
(* module that extends this one.                                           *)
(***************************************************************************)
EXTENDS Naturals, Sequences

CONSTANTS Workers,  \* the threads, at least two in the code
          NoTask

VARIABLES tasks,    \* Impl::tasks
          worker,   \* where each thread is in worker_loop
          task,     \* the task it took
          stop,     \* Impl::stop
          exit,     \* the main thread's way out: "no", "stop", "join", "joined"
          later     \* callbacks in g_queue

pool == <<tasks, worker, task, stop, exit>>

PoolInit ==
  /\ tasks = <<>> /\ stop = FALSE /\ exit = "no" /\ later = 0
  /\ worker = [w \in Workers |-> "looking"]
  /\ task = [w \in Workers |-> NoTask]

MutexFree == \A w \in Workers : worker[w] # "blocking"

(* notify_one wakes one waiting thread, any of them; notify_all all of them. *)
NotifiesNobody == worker' = worker
NotifyOne ==
  IF \E w \in Workers : worker[w] = "waiting"
  THEN \E w \in Workers : /\ worker[w] = "waiting"
                          /\ worker' = [worker EXCEPT ![w] = "looking"]
  ELSE worker' = worker

Enqueue(t) ==
  /\ MutexFree
  /\ tasks' = Append(tasks, t)
  /\ NotifyOne
  /\ UNCHANGED <<task, stop, exit>>

(* The predicate of cv.wait, checked before the thread blocks.              *)
Block(w) ==
  /\ worker[w] = "looking" /\ MutexFree
  /\ ~stop /\ tasks = <<>>
  /\ worker' = [worker EXCEPT ![w] = "blocking"]
  /\ UNCHANGED <<tasks, task, stop, exit, later>>

Wait(w) ==
  /\ worker[w] = "blocking"
  /\ worker' = [worker EXCEPT ![w] = "waiting"]
  /\ UNCHANGED <<tasks, task, stop, exit, later>>

TakeTask(w) ==
  /\ worker[w] = "looking" /\ MutexFree /\ tasks # <<>>
  /\ worker' = [worker EXCEPT ![w] = "busy"]
  /\ task' = [task EXCEPT ![w] = Head(tasks)]
  /\ tasks' = Tail(tasks)
  /\ UNCHANGED <<stop, exit>>

TaskKept(w) == task
TaskDropped(w) == [task EXCEPT ![w] = NoTask]

EndTask(w) ==
  /\ worker' = [worker EXCEPT ![w] = "looking"]
  /\ task' = TaskDropped(w)
  /\ UNCHANGED <<tasks, stop, exit>>

(* Tasks still queued at the stop are run before the thread returns.        *)
Leave(w) ==
  /\ worker[w] = "looking" /\ MutexFree
  /\ stop /\ tasks = <<>>
  /\ worker' = [worker EXCEPT ![w] = "gone"]
  /\ UNCHANGED <<tasks, task, stop, exit, later>>

-----------------------------------------------------------------------------
(* The destructor, once main has returned.                                  *)
StorePoolStop ==
  /\ exit = "stop" /\ ~stop
  /\ stop' = TRUE
  /\ UNCHANGED <<tasks, worker, task, exit, later>>

NotifyAll ==
  /\ exit = "stop" /\ stop
  /\ exit' = "join"
  /\ worker' = [w \in Workers |-> IF worker[w] = "waiting" THEN "looking"
                                                          ELSE worker[w]]
  /\ UNCHANGED <<tasks, task, stop, later>>

Join ==
  /\ exit = "join" /\ \A w \in Workers : worker[w] = "gone"
  /\ exit' = "joined"
  /\ UNCHANGED <<tasks, worker, task, stop, later>>

(* DeferredCall: callLater appends, drain takes the whole queue and runs it. *)
CallNever == later' = later
CallLater == later' = later + 1
Drain     == later > 0 /\ later' = 0

-----------------------------------------------------------------------------
PoolTypeOK(Tasks) ==
  /\ tasks \in Seq(Tasks)
  /\ worker \in [Workers -> {"looking", "blocking", "waiting", "busy", "gone"}]
  /\ task \in [Workers -> Tasks \cup {NoTask}]
  /\ stop \in BOOLEAN /\ exit \in {"no", "stop", "join", "joined"}
  /\ later \in Nat
=============================================================================
