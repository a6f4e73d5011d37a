----------------------------- MODULE WorkerPool -----------------------------
(***************************************************************************)
(* The pool of comparison threads (worker-pool.service.ts): a fixed number *)
(* of worker_threads, a stack of idle ones, a FIFO queue of waiting chunks,*)
(* the 'message' and 'error' handlers of the main thread, and the threads  *)
(* themselves (compare.worker.ts), which may die.                          *)
(*                                                                         *)
(* The main thread and the worker threads run concurrently; they meet only *)
(* in the ports: posted chunks one way, events the other.  Each handler    *)
(* runs to completion on Node's event loop, so each is one action.         *)
(***************************************************************************)
EXTENDS Integers, Sequences

CONSTANTS
  Task,        \* the chunks that callers may hand to run()
  PoolSize,    \* this.poolSize
  MaxRestarts, \* bound on the thread deaths in one slot of the pool
  IdleCrashes, \* may a thread die while it owes no reply (start-up failure,
               \* out of memory after its reply was posted)?
  Failed,      \* the 'error' event, and the TRANSFORM_ERROR answer it becomes
  None         \* no chunk, no answer

ASSUME PoolSizeAssumption   == PoolSize \in Nat \ {0}
ASSUME RestartAssumption    == MaxRestarts \in Nat
ASSUME IdleCrashAssumption  == IdleCrashes \in BOOLEAN
ASSUME NoneAssumption       == None \notin Task /\ Failed \notin Task /\ None # Failed

Slot   == 1..PoolSize
Worker == Slot \X (0..MaxRestarts)   \* the n-th thread spawned for a slot

Replacement(w) == <<w[1], w[2] + 1>>

VARIABLES
  workers,   \* slot -> thread now filling it            (this.workers)
  idle,      \* stack of threads believed to be free     (this.idleWorkers)
  queue,     \* chunks waiting for a thread              (this.queue)
  task,      \* thread -> chunk dispatched to it         (worker._task)
  thread,    \* thread -> "unborn", "starting", "ready" or "dead"
  port,      \* thread -> chunk posted to it, not yet compared
  events,    \* thread -> events the main thread has not handled yet: a chunk
             \*           for a 'message' with its comparison, Failed for 'error'
  submitted, \* chunks handed to run()
  answer     \* chunk -> the event its promise was resolved with, or None

vars == <<workers, idle, queue, task, thread, port, events, submitted, answer>>
pool == <<workers, idle, queue, task>>

(* onModuleInit: every thread is spawned and at once considered idle.      *)
Init == /\ workers = [s \in Slot |-> <<s, 0>>]
        /\ idle = [s \in Slot |-> <<s, 0>>]
        /\ queue = <<>>
        /\ task = [w \in Worker |-> None]
        /\ thread = [w \in Worker |-> IF w[2] = 0 THEN "starting" ELSE "unborn"]
        /\ port = [w \in Worker |-> None]
        /\ events = [w \in Worker |-> <<>>]
        /\ submitted = {}
        /\ answer = [t \in Task |-> None]

-----------------------------------------------------------------------------
(* The main thread.                                                        *)

PostMutant(w, t) ==
  port' = IF thread[w] # "ready" THEN port ELSE [port EXCEPT ![w] = t]

(* postMessage: a post to a thread that has died is dropped silently.      *)
Post(w, t) ==
  port' = IF thread[w] = "dead" THEN port ELSE [port EXCEPT ![w] = t]

IdleTopMutant == idle[1]

IdleTop == idle[Len(idle)]

IdlePoppedMutant == idle

IdlePopped == SubSeq(idle, 1, Len(idle) - 1)

(* run: the most recently idle thread takes the chunk, else it waits.      *)
Run(t) ==
  /\ t \notin submitted
  /\ submitted' = submitted \cup {t}
  /\ \/ /\ idle # <<>>
        /\ task' = [task EXCEPT ![IdleTop] = t]
        /\ Post(IdleTop, t)
        /\ idle' = IdlePopped
        /\ UNCHANGED queue
     \/ /\ idle = <<>>
        /\ queue' = Append(queue, t)
        /\ UNCHANGED <<idle, task, port>>
  /\ UNCHANGED <<workers, thread, events, answer>>

(* Settle the promise of the chunk found on the thread, if there is one.   *)
Resolve(t, outcome) ==
  answer' = IF t = None THEN answer ELSE [answer EXCEPT ![t] = outcome]

ServeOrRestMutant(w, freed) ==
  /\ task' = freed
  /\ idle' = Append(idle, w)
  /\ UNCHANGED <<queue, port>>

(* The end of both handlers: the thread gets the oldest waiting chunk, or  *)
(* rests if there is none.  "freed" is _task without the settled chunk.    *)
ServeOrRest(w, freed) ==
  \/ /\ queue # <<>>
     /\ task' = [freed EXCEPT ![w] = Head(queue)]
     /\ Post(w, Head(queue))
     /\ queue' = Tail(queue)
     /\ UNCHANGED idle
  \/ /\ queue = <<>>
     /\ task' = freed
     /\ idle' = Append(idle, w)
     /\ UNCHANGED <<queue, port>>

OnMessageMutant(w) ==
  /\ events[w] # <<>> /\ Head(events[w]) # Failed
  /\ events' = [events EXCEPT ![w] = Tail(@)]
  /\ ServeOrRest(w, [task EXCEPT ![w] = None])
  /\ Resolve(task'[w], Head(events[w]))
  /\ UNCHANGED <<workers, thread, submitted>>

(* The 'message' handler: answer the chunk, then serve the next or rest.   *)
OnMessage(w) ==
  /\ events[w] # <<>> /\ Head(events[w]) # Failed
  /\ events' = [events EXCEPT ![w] = Tail(@)]
  /\ Resolve(task[w], Head(events[w]))
  /\ ServeOrRest(w, [task EXCEPT ![w] = None])
  /\ UNCHANGED <<workers, thread, submitted>>

RefillMutant(w, fresh) == UNCHANGED workers

Refill(w, fresh) ==
  workers' = [s \in Slot |-> IF workers[s] = w THEN fresh ELSE workers[s]]

(* The 'error' handler: answer the chunk with a TRANSFORM_ERROR, put a     *)
(* fresh thread in the slot and give it the next chunk, or let it rest.    *)
(* Nothing removes the dead thread from idleWorkers.                       *)
OnError(w) ==
  LET fresh == Replacement(w)
  IN  /\ events[w] # <<>> /\ Head(events[w]) = Failed
      /\ events' = [events EXCEPT ![w] = Tail(@)]
      /\ Resolve(task[w], Failed)
      /\ Refill(w, fresh)
      /\ thread' = [thread EXCEPT ![fresh] = "starting"]
      /\ ServeOrRest(fresh, [task EXCEPT ![w] = None])
      /\ UNCHANGED submitted

-----------------------------------------------------------------------------
(* The worker threads.                                                     *)

(* The script has loaded and listens on its port.                          *)
Boot(w) ==
  /\ thread[w] = "starting"
  /\ thread' = [thread EXCEPT ![w] = "ready"]
  /\ UNCHANGED <<pool, port, events, submitted, answer>>

CompareMutant(w) ==
  /\ thread[w] = "ready" /\ port[w] # None
  /\ port' = [port EXCEPT ![w] = None]
  /\ events' = [events EXCEPT ![w] = Append(@, port'[w])]
  /\ UNCHANGED <<pool, thread, submitted, answer>>

(* compareChunk on the posted chunk; an exception inside it is caught and  *)
(* posted as an ordinary reply.                                            *)
Compare(w) ==
  /\ thread[w] = "ready" /\ port[w] # None
  /\ port' = [port EXCEPT ![w] = None]
  /\ events' = [events EXCEPT ![w] = Append(@, port[w])]
  /\ UNCHANGED <<pool, thread, submitted, answer>>

(* The thread dies; Node delivers the replies it had posted, then 'error'. *)
Crash(w) ==
  /\ thread[w] \in {"starting", "ready"}
  /\ port[w] # None \/ IdleCrashes
  /\ w[2] < MaxRestarts
  /\ thread' = [thread EXCEPT ![w] = "dead"]
  /\ port' = [port EXCEPT ![w] = None]
  /\ events' = [events EXCEPT ![w] = Append(@, Failed)]
  /\ UNCHANGED <<pool, submitted, answer>>

-----------------------------------------------------------------------------
Main(w)   == OnMessage(w) \/ OnError(w)
Thread(w) == Boot(w) \/ Compare(w)

Next == \/ \E t \in Task : Run(t)
        \/ \E w \in Worker : Main(w) \/ Thread(w) \/ Crash(w)

Safety == Init /\ [][Next]_vars

(* The event loop handles every pending event, and a live thread runs.     *)
(* Nobody is obliged to call run(), and no thread is obliged to die.       *)
Fairness == \A w \in Worker : WF_vars(Main(w)) /\ WF_vars(Thread(w))

Spec == Safety /\ Fairness
-----------------------------------------------------------------------------
(* Properties.                                                             *)

(* Every variable keeps the shape the code gives it.                       *)
TypeOK ==
  /\ workers \in [Slot -> Worker]
  /\ idle \in Seq(Worker)
  /\ queue \in Seq(Task)
  /\ task \in [Worker -> Task \cup {None}]
  /\ thread \in [Worker -> {"unborn", "starting", "ready", "dead"}]
  /\ port \in [Worker -> Task \cup {None}]
  /\ events \in [Worker -> Seq(Task \cup {Failed})]
  /\ submitted \in SUBSET Task
  /\ answer \in [Task -> Task \cup {None, Failed}]

(* Where an unanswered chunk may be: at a place of the queue, or on a      *)
(* thread.                                                                 *)
QueuePlaces(t) == {i \in 1..Len(queue) : queue[i] = t}
Holders(t)     == {w \in Worker : task[w] = t}

(* A chunk whose promise is open is in exactly one place - once in the     *)
(* queue or on one thread - and an answered one is in none: no chunk is    *)
(* lost between queue.shift, _task and idleWorkers, or compared twice.     *)
OneHome ==
  \A t \in Task :
    LET open == t \in submitted /\ answer[t] = None
    IN  /\ open => \/ /\ \E i \in QueuePlaces(t) : QueuePlaces(t) = {i}
                     /\ Holders(t) = {}
                  \/ /\ \E w \in Holders(t) : Holders(t) = {w}
                     /\ QueuePlaces(t) = {}
        /\ ~open => QueuePlaces(t) = {} /\ Holders(t) = {}

(* The chunks never wait while a thread is believed idle: both handlers    *)
(* look at the queue before they let a thread rest.                        *)
WorkConserving == queue # <<>> => idle = <<>>

(* A comparison delivered by a 'message' is that of the chunk the main     *)
(* thread still has in _task, which is what it is taken for: nothing but   *)
(* the one-chunk-at-a-time discipline ties a reply to its chunk.           *)
RepliesMatch ==
  \A w \in Worker : \A i \in 1..Len(events[w]) :
    events[w][i] # Failed => i = 1 /\ events[w][i] = task[w]

(* A chunk on a thread will be settled: the thread is alive and has it or  *)
(* its reply is under way, or the 'error' event of its death is.           *)
InGoodHands ==
  \A w \in Worker :
    task[w] # None =>
      \/ thread[w] \in {"starting", "ready"} /\ port[w] = task[w]
      \/ \E i \in 1..Len(events[w]) : events[w][i] \in {task[w], Failed}

(* "Replace crashed worker": once its 'error' has been handled a dead      *)
(* thread is out of use and no chunk is handed to it again.                *)
DeadStayReplaced ==
  \A w \in Worker :
    thread[w] = "dead" /\ events[w] = <<>> => task[w] = None

(* The pool keeps its size: every slot is filled by a live thread or by    *)
(* one whose death the main thread is about to learn of, and live threads  *)
(* are neither idle twice nor idle while they hold a chunk.                *)
FullStrength ==
  /\ \A s \in Slot : LET w == workers[s] IN
       thread[w] \in {"starting", "ready"} \/ Failed \in {events[w][i] : i \in 1..Len(events[w])}
  /\ \A i, j \in 1..Len(idle) : idle[i] = idle[j] => i = j
  /\ \A i \in 1..Len(idle) : task[idle[i]] = None

(* The pool is the service the strategies rely on: the chunks handed in    *)
(* and their answers are those of run()'s callers, all else is hidden.     *)
Service == INSTANCE ChunkService
  WITH Task <- Task, Failed <- Failed, None <- None,
       submitted <- submitted, answer <- answer

(* A chunk is answered at most once, by its own comparison or by the       *)
(* TRANSFORM_ERROR of its thread's death.                                  *)
ServiceSafety == Service!Safety

(* Every chunk handed in is answered, so no caller of run() waits forever. *)
ServiceComplete == Service!Spec
=============================================================================
