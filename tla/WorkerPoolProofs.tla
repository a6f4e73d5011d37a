-------------------------- MODULE WorkerPoolProofs --------------------------
(***************************************************************************)
(* Proofs about the worker pool, for every set of chunks, pool size and    *)
(* number of thread deaths, idle threads' included: the type invariant,    *)
(* the conservation of chunks (OneHome), the matching of replies, work     *)
(* conservation, the strength of the pool, and the safety part of          *)
(* ChunkService; and, when only threads that owe a reply die, that every   *)
(* chunk on a thread will be settled.                                      *)
(***************************************************************************)
EXTENDS WorkerPool, SequenceTheorems, TLAPS

-----------------------------------------------------------------------------
(* The inductive invariant, one named part per data structure.             *)

Alive(w) == thread[w] \in {"starting", "ready"}

(* The thread in a slot is its newest; the ones to come are untouched, the *)
(* ones before it are dead.                                                *)
ThreadInv ==
  /\ \A s \in Slot : workers[s][1] = s
  /\ \A w \in Worker : thread[w] = "unborn" <=> workers[w[1]][2] < w[2]
  /\ \A w \in Worker : Alive(w) => workers[w[1]] = w
  /\ \A w \in Worker : thread[w] = "unborn" =>
                          task[w] = None /\ port[w] = None /\ events[w] = <<>>

(* At most one reply, of the chunk in _task, and after it at most one      *)
(* 'error', of the thread now in the slot.                                 *)
EventInv ==
  \A w \in Worker : \A i \in 1..Len(events[w]) :
    /\ events[w][i] = Failed =>
         /\ i = Len(events[w])
         /\ thread[w] = "dead"
         /\ workers[w[1]] = w
         /\ w[2] < MaxRestarts
    /\ events[w][i] # Failed =>
         /\ i = 1
         /\ events[w][i] = task[w]
         /\ port[w] = None

PortInv ==
  \A w \in Worker : port[w] # None => port[w] = task[w] /\ Alive(w)

IdleInv ==
  /\ \A i \in 1..Len(idle) : task[idle[i]] = None /\ thread[idle[i]] # "unborn"
  /\ \A i, j \in 1..Len(idle) : idle[i] = idle[j] => i = j

Open(t) == t \in submitted /\ answer[t] = None

QueueInv ==
  /\ \A i \in 1..Len(queue) : Open(queue[i]) /\ \A w \in Worker : task[w] # queue[i]
  /\ \A i, j \in 1..Len(queue) : queue[i] = queue[j] => i = j

HolderInv ==
  /\ \A w \in Worker : task[w] # None => Open(task[w])
  /\ \A v, w \in Worker : task[v] # None /\ task[v] = task[w] => v = w

NoneLost ==
  \A t \in Task :
    Open(t) => \/ \E i \in 1..Len(queue) : queue[i] = t
               \/ \E w \in Worker : task[w] = t

SettledInv == \A t \in Task : answer[t] # None => t \in submitted

IInv == /\ TypeOK
        /\ ThreadInv /\ EventInv /\ PortInv
        /\ IdleInv /\ QueueInv /\ HolderInv /\ NoneLost /\ SettledInv

-----------------------------------------------------------------------------
(* Facts about sequences and threads.                                      *)

LEMMA AppendFacts ==
  ASSUME NEW S, NEW q \in Seq(S), NEW e \in S
  PROVE  /\ Append(q, e) \in Seq(S)
         /\ Len(Append(q, e)) = Len(q) + 1
         /\ \A i \in 1..Len(q) : Append(q, e)[i] = q[i]
         /\ Append(q, e)[Len(q) + 1] = e
OBVIOUS

LEMMA TailFacts ==
  ASSUME NEW S, NEW q \in Seq(S), q # <<>>
  PROVE  /\ Tail(q) \in Seq(S)
         /\ Len(q) \in Nat /\ Len(q) > 0
         /\ Len(Tail(q)) = Len(q) - 1
         /\ \A i \in 1..Len(Tail(q)) :
              i \in Nat /\ i + 1 \in 1..Len(q) /\ i + 1 # 1 /\ Tail(q)[i] = q[i + 1]
         /\ Head(q) = q[1] /\ Head(q) \in S
OBVIOUS

LEMMA FrontFacts ==
  ASSUME NEW S, NEW q \in Seq(S), q # <<>>
  PROVE  /\ SubSeq(q, 1, Len(q) - 1) \in Seq(S)
         /\ Len(q) \in Nat /\ Len(q) > 0
         /\ Len(SubSeq(q, 1, Len(q) - 1)) = Len(q) - 1
         /\ \A i \in 1..(Len(q) - 1) : SubSeq(q, 1, Len(q) - 1)[i] = q[i]
         /\ q[Len(q)] \in S
<1>1. Len(q) \in Nat /\ Len(q) > 0
  OBVIOUS
<1>2. \A i \in 1..Len(q) : q[i] \in S
  BY ElementOfSeq
<1>3. /\ SubSeq(q, 1, Len(q) - 1) \in Seq(S)
      /\ Len(SubSeq(q, 1, Len(q) - 1)) = IF 1 <= Len(q) - 1 THEN Len(q) - 1 - 1 + 1 ELSE 0
      /\ \A i \in 1..(Len(q) - 1 - 1 + 1) : SubSeq(q, 1, Len(q) - 1)[i] = q[1 + i - 1]
  <2>1. \A i \in 1..(Len(q) - 1) : q[i] \in S
    BY <1>1, <1>2
  <2>2. 1 \in Int /\ Len(q) - 1 \in Int
    BY <1>1
  <2>. HIDE <1>1, <1>2
  <2> QED
    BY <2>1, <2>2, SubSeqProperties
<1>4. \A i \in 1..(Len(q) - 1) : SubSeq(q, 1, Len(q) - 1)[i] = q[i]
  <2> TAKE i \in 1..(Len(q) - 1)
  <2>1. i \in 1..(Len(q) - 1 - 1 + 1) /\ 1 + i - 1 = i
    BY <1>1
  <2> QED
    BY <1>3, <2>1
<1>5. Len(SubSeq(q, 1, Len(q) - 1)) = Len(q) - 1
  <2> DEFINE n == Len(q) - 1
             l == Len(SubSeq(q, 1, n))
  <2>1. n \in Nat /\ l = IF 1 <= n THEN n - 1 + 1 ELSE 0
    BY <1>1, <1>3
  <2> HIDE DEF n, l
  <2>2. l = n
    BY <2>1
  <2> QED
    BY <2>2 DEF n, l
<1>6. q[Len(q)] \in S
  BY <1>1, <1>2
<1> QED
  BY <1>1, <1>3, <1>4, <1>5, <1>6

LEMMA ReplacementFacts ==
  ASSUME NEW w \in Worker, w[2] < MaxRestarts
  PROVE  /\ Replacement(w) \in Worker
         /\ Replacement(w)[1] = w[1]
         /\ Replacement(w)[2] = w[2] + 1
         /\ Replacement(w) # w
BY RestartAssumption DEF Worker, Replacement

LEMMA WorkerFacts ==
  ASSUME NEW w \in Worker
  PROVE  w[1] \in Slot /\ w[2] \in 0..MaxRestarts /\ w = <<w[1], w[2]>>
BY DEF Worker

LEMMA InitIInv == Init => IInv
<1> SUFFICES ASSUME Init PROVE IInv
  OBVIOUS
<1> USE PoolSizeAssumption, RestartAssumption, NoneAssumption
<1>1. TypeOK
  <2>1. \A s \in Slot : <<s, 0>> \in Worker
    BY DEF Worker
  <2>2. idle \in Seq(Worker)
    BY <2>1 DEF Init, Slot
  <2> QED
    BY <2>1, <2>2 DEF Init, TypeOK
<1>2. ThreadInv
  BY WorkerFacts DEF Init, ThreadInv, Alive, Worker
<1>3. EventInv /\ PortInv
  BY DEF Init, EventInv, PortInv
<1>4. IdleInv
  <2>1. Len(idle) = PoolSize /\ \A i \in 1..Len(idle) : idle[i] = <<i, 0>> /\ idle[i] \in Worker
    BY DEF Init, Slot, Worker
  <2> QED
    BY <2>1 DEF Init, IdleInv, Slot, Worker
<1>5. QueueInv /\ HolderInv /\ NoneLost /\ SettledInv
  BY DEF Init, QueueInv, HolderInv, NoneLost, SettledInv, Open
<1> QED
  BY <1>1, <1>2, <1>3, <1>4, <1>5 DEF IInv

-----------------------------------------------------------------------------
(* Each action keeps the invariant.                                        *)

LEMMA RunIInv ==
  ASSUME IInv, NEW t \in Task, Run(t)
  PROVE  IInv'
<1> USE NoneAssumption
<1>0. /\ TypeOK /\ ThreadInv /\ EventInv /\ PortInv
      /\ IdleInv /\ QueueInv /\ HolderInv /\ NoneLost /\ SettledInv
  BY DEF IInv
<1>1. /\ t \notin submitted /\ submitted' = submitted \cup {t}
      /\ workers' = workers /\ thread' = thread /\ events' = events /\ answer' = answer
  BY DEF Run
<1>2. /\ \A u \in Task : Open(u) => Open(u)'
      /\ \A u \in Task : Open(u)' => Open(u) \/ u = t
      /\ \A w \in Worker : task[w] # t
      /\ \A i \in 1..Len(queue) : queue[i] # t
  BY <1>0, <1>1 DEF HolderInv, QueueInv, Open
<1>2a. Open(t)' /\ SettledInv'
  BY <1>0, <1>1 DEF Open, SettledInv, TypeOK
<1>3. CASE idle # <<>>
  <2> DEFINE w == IdleTop
  <2>1. /\ task' = [task EXCEPT ![w] = t] /\ Post(w, t)
        /\ idle' = SubSeq(idle, 1, Len(idle) - 1) /\ queue' = queue
    BY <1>3 DEF Run, IdlePopped
  <2>2. idle \in Seq(Worker)
    BY <1>0 DEF TypeOK
  <2>3. /\ idle' \in Seq(Worker)
        /\ Len(idle) \in Nat /\ Len(idle) > 0
        /\ Len(idle') = Len(idle) - 1
        /\ \A i \in 1..(Len(idle) - 1) : idle'[i] = idle[i]
        /\ w \in Worker /\ w = idle[Len(idle)]
    BY <1>3, <2>1, <2>2, FrontFacts DEF IdleTop
  <2>4. task[w] = None /\ thread[w] # "unborn"
    BY <1>0, <2>3 DEF IdleInv
  <2> HIDE DEF w
  <2>5. /\ task' \in [Worker -> Task \cup {None}]
        /\ task'[w] = t
        /\ \A v \in Worker : v # w => task'[v] = task[v]
    BY <1>0, <2>1, <2>3 DEF TypeOK
  <2>6. /\ port' \in [Worker -> Task \cup {None}]
        /\ \A v \in Worker : v # w => port'[v] = port[v]
        /\ port'[w] # None => port'[w] = t /\ Alive(w)
    BY <1>0, <2>1, <2>3, <2>4 DEF TypeOK, Post, Alive, PortInv
  <2>7. TypeOK'
    BY <1>0, <1>1, <2>1, <2>3, <2>5, <2>6 DEF TypeOK
  <2>8. ThreadInv'
    BY <1>0, <1>1, <2>4, <2>5, <2>6 DEF ThreadInv, Alive
  <2>9. \A i \in 1..Len(events[w]) : events[w][i] = Failed
    BY <1>0, <2>3, <2>4 DEF EventInv, TypeOK
  <2>10. EventInv'
    BY <1>0, <1>1, <2>5, <2>6, <2>9 DEF EventInv
  <2>11. PortInv'
    BY <1>0, <1>1, <2>5, <2>6 DEF PortInv, Alive
  <2>12. IdleInv'
    <3>1. ASSUME NEW i \in 1..Len(idle')
          PROVE  /\ i \in 1..Len(idle) /\ i # Len(idle)
                 /\ idle'[i] = idle[i] /\ idle[i] \in Worker /\ idle[i] # w
      BY <1>0, <2>2, <2>3, ElementOfSeq DEF IdleInv
    <3> QED
      BY <1>0, <1>1, <2>5, <3>1 DEF IdleInv
  <2>13. QueueInv'
    BY <1>0, <1>2, <2>1, <2>5, ElementOfSeq DEF QueueInv, TypeOK
  <2>14. HolderInv'
    BY <1>0, <1>2, <1>2a, <2>5 DEF HolderInv, TypeOK
  <2>15. NoneLost'
    BY <1>0, <1>2, <2>1, <2>3, <2>4, <2>5 DEF NoneLost
  <2> QED
    BY <2>7, <2>8, <2>10, <2>11, <2>12, <2>13, <2>14, <2>15, <1>2a DEF IInv
<1>4. CASE idle = <<>>
  <2>1. /\ queue' = Append(queue, t)
        /\ idle' = idle /\ task' = task /\ port' = port
    BY <1>4 DEF Run
  <2>2. /\ queue' \in Seq(Task)
        /\ Len(queue) \in Nat
        /\ Len(queue') = Len(queue) + 1
        /\ \A i \in 1..Len(queue) : queue'[i] = queue[i] /\ queue[i] \in Task
        /\ queue'[Len(queue) + 1] = t
    BY <1>0, <2>1, AppendFacts, ElementOfSeq DEF TypeOK
  <2>3. TypeOK'
    BY <1>0, <1>1, <2>1, <2>2 DEF TypeOK
  <2>4. ThreadInv' /\ EventInv' /\ PortInv' /\ IdleInv'
    BY <1>0, <1>1, <2>1 DEF ThreadInv, EventInv, PortInv, IdleInv, Alive
  <2>6. QueueInv'
    BY <1>0, <1>2, <1>2a, <2>1, <2>2 DEF QueueInv
  <2>7. HolderInv'
    BY <1>0, <1>1, <1>2, <2>1 DEF HolderInv, TypeOK, Open
  <2>8. NoneLost'
    BY <1>0, <1>2, <2>1, <2>2 DEF NoneLost
  <2> QED
    BY <2>3, <2>4, <2>6, <2>7, <2>8, <1>2a DEF IInv
<1> QED
  BY <1>3, <1>4

(* The end of both handlers, for the thread h that is given work and the   *)
(* thread d whose chunk was settled: the same thread after a 'message', a  *)
(* fresh one and the dead one after an 'error'.                            *)
LEMMA ServeOrRestKeeps ==
  ASSUME IInv, NEW h \in Worker, NEW d \in Worker,
         task[h] = None \/ h = d,
         ServeOrRest(h, [task EXCEPT ![d] = None]),
         \A t \in Task : Open(t)' <=> Open(t) /\ t # task[d],
         \A i \in 1..Len(idle) : idle[i] # h,
         thread'[h] # "unborn",
         \A v \in Worker : thread[v] # "unborn" => thread'[v] # "unborn"
  PROVE  /\ task' \in [Worker -> Task \cup {None}]
         /\ queue' \in Seq(Task) /\ idle' \in Seq(Worker)
         /\ \A v \in Worker : v # h /\ v # d => task'[v] = task[v]
         /\ h # d => task'[d] = None
         /\ \/ port' = port /\ task'[h] = None
            \/ task'[h] \in Task /\ Post(h, task'[h])
         /\ IdleInv' /\ QueueInv' /\ HolderInv' /\ NoneLost'
<1> USE NoneAssumption
<1>0. /\ TypeOK /\ IdleInv /\ QueueInv /\ HolderInv /\ NoneLost
  BY DEF IInv
<1> DEFINE freed == [task EXCEPT ![d] = None]
<1>1. /\ freed \in [Worker -> Task \cup {None}]
      /\ freed[d] = None /\ freed[h] = None
      /\ \A v \in Worker : v # d => freed[v] = task[v]
  BY <1>0 DEF TypeOK
<1>2. CASE queue # <<>>
  <2> DEFINE c == Head(queue)
  <2>1. /\ task' = [freed EXCEPT ![h] = c] /\ Post(h, c)
        /\ queue' = Tail(queue) /\ idle' = idle
    BY <1>2 DEF ServeOrRest
  <2>2. /\ queue \in Seq(Task) /\ queue' \in Seq(Task)
        /\ Len(queue) \in Nat /\ Len(queue) > 0
        /\ Len(queue') = Len(queue) - 1
        /\ \A i \in 1..Len(queue') : /\ i + 1 \in 1..Len(queue) /\ i + 1 # 1
                                    /\ queue'[i] = queue[i + 1]
        /\ c = queue[1] /\ c \in Task
    BY <1>0, <1>2, <2>1, TailFacts DEF TypeOK
  <2> HIDE DEF c
  <2>3. /\ task' \in [Worker -> Task \cup {None}] /\ task'[h] = c
        /\ \A v \in Worker : v # h => task'[v] = freed[v]
    BY <1>1, <2>1, <2>2
  <2> HIDE DEF freed
  <2>4. /\ \A v \in Worker : v # h /\ v # d => task'[v] = task[v]
        /\ h # d => task'[d] = None
    BY <1>1, <2>3
  <2>5. IdleInv'
    <3>1. \A i \in 1..Len(idle) : idle[i] \in Worker
      BY <1>0, ElementOfSeq DEF TypeOK
    <3> QED
      BY <1>0, <2>1, <2>4, <3>1 DEF IdleInv
  <2>6. Open(c) /\ \A v \in Worker : task[v] # c
    BY <1>0, <2>2 DEF QueueInv
  <2>7. QueueInv'
    <3>1. \A k \in 1..Len(queue) : queue[k] \in Task
      BY <1>0, ElementOfSeq DEF TypeOK
    <3>2. ASSUME NEW i \in 1..Len(queue')
          PROVE  /\ Open(queue[i])'
                 /\ \A v \in Worker : task'[v] # queue'[i]
      <4> DEFINE k == i + 1
      <4>1. k \in 1..Len(queue) /\ k # 1 /\ queue'[i] = queue[k]
        BY <2>2, <3>2
      <4> HIDE DEF k
      <4>2. /\ queue[k] \in Task /\ Open(queue[k]) /\ queue[k] # c
            /\ \A v \in Worker : task[v] # queue[k]
        BY <1>0, <2>2, <3>1, <4>1 DEF QueueInv
      <4>3. /\ task[d] # queue[k] /\ task'[d] # queue[k] /\ task'[h] # queue[k]
        BY <2>3, <2>4, <4>2
      <4>4. \A v \in Worker : task'[v] # queue[k]
        BY <2>4, <4>2, <4>3
      <4>5. queue[k] \in submitted' /\ answer'[queue[k]] = None
        BY <4>2, <4>3 DEF Open
      <4> QED
        BY <4>1, <4>4, <4>5 DEF Open
    <3>3. ASSUME NEW i \in 1..Len(queue'), NEW j \in 1..Len(queue'), queue'[i] = queue'[j]
          PROVE  i = j
      <4>1. i + 1 = j + 1
        BY <1>0, <2>2, <3>3 DEF QueueInv
      <4> QED
        BY <4>1
    <3> QED
      BY <3>2, <3>3 DEF QueueInv
  <2>8. HolderInv'
    <3>1. c \in submitted' /\ answer'[c] = None /\ (c # task[d])
      BY <2>2, <2>6 DEF Open
    <3>2. \A v \in Worker : v # h => task'[v] = None \/ (task'[v] = task[v] /\ v # d)
      BY <2>4
    <3>3. ASSUME NEW v \in Worker, v # h, task'[v] # None
          PROVE  /\ task'[v] = task[v] /\ task[v] \in Task /\ task[v] # c
                 /\ task[v] \in submitted' /\ answer'[task[v]] = None
      <4>1. task'[v] = task[v] /\ v # d /\ task[v] \in Task
        BY <1>0, <3>2, <3>3 DEF TypeOK
      <4>2. Open(task[v]) /\ task[v] # task[d] /\ task[v] # c
        BY <1>0, <2>6, <3>3, <4>1 DEF HolderInv
      <4> QED
        BY <4>1, <4>2 DEF Open
    <3>4. \A v \in Worker : task'[v] # None => task'[v] \in submitted' /\ answer'[task'[v]] = None
      BY <2>3, <3>1, <3>3
    <3>5. \A v, x \in Worker : task'[v] # None /\ task'[v] = task'[x] => v = x
      BY <1>0, <2>2, <2>3, <3>3 DEF HolderInv
    <3> QED
      BY <3>4, <3>5 DEF HolderInv, Open
  <2>9. NoneLost'
    <3> SUFFICES ASSUME NEW t \in Task, Open(t)', t # c
                 PROVE  \/ \E i \in 1..Len(queue') : queue'[i] = t
                        \/ \E v \in Worker : task'[v] = t
      BY <2>3 DEF NoneLost
    <3>1. Open(t) /\ t # task[d]
      OBVIOUS
    <3>2. CASE \E i \in 1..Len(queue) : queue[i] = t
      <4>1. PICK i \in 1..Len(queue) : queue[i] = t
        BY <3>2
      <4>2. i - 1 \in 1..Len(queue') /\ queue'[i - 1] = t
        BY <2>2, <4>1
      <4> QED
        BY <4>2
    <3>3. CASE \E v \in Worker : task[v] = t
      BY <1>1, <2>4, <3>1, <3>3
    <3> QED
      BY <1>0, <3>1, <3>2, <3>3 DEF NoneLost
  <2> QED
    BY <1>0, <2>1, <2>2, <2>3, <2>4, <2>5, <2>7, <2>8, <2>9 DEF TypeOK
<1>3. CASE queue = <<>>
  <2>1. task' = freed /\ idle' = Append(idle, h) /\ queue' = queue /\ port' = port
    BY <1>3 DEF ServeOrRest
  <2>2. /\ idle' \in Seq(Worker)
        /\ Len(idle) \in Nat
        /\ Len(idle') = Len(idle) + 1
        /\ \A i \in 1..Len(idle) : idle'[i] = idle[i] /\ idle[i] \in Worker
        /\ idle'[Len(idle) + 1] = h
    BY <1>0, <2>1, AppendFacts, ElementOfSeq DEF TypeOK
  <2> HIDE DEF freed
  <2>3. IdleInv'
    BY <1>0, <1>1, <2>1, <2>2 DEF IdleInv
  <2>4. QueueInv'
    BY <1>3, <2>1 DEF QueueInv
  <2>5. HolderInv'
    BY <1>0, <1>1, <2>1 DEF HolderInv, TypeOK
  <2>6. NoneLost'
    BY <1>0, <1>1, <2>1 DEF NoneLost
  <2> QED
    BY <1>0, <1>1, <2>1, <2>2, <2>3, <2>4, <2>5, <2>6 DEF TypeOK
<1> QED
  BY <1>2, <1>3

LEMMA OnMessageIInv ==
  ASSUME IInv, NEW w \in Worker, OnMessage(w)
  PROVE  IInv'
<1> USE NoneAssumption
<1>0. /\ TypeOK /\ ThreadInv /\ EventInv /\ PortInv
      /\ IdleInv /\ QueueInv /\ HolderInv /\ NoneLost /\ SettledInv
  BY DEF IInv
<1> DEFINE u == task[w]
<1>1. /\ events[w] # <<>> /\ Head(events[w]) # Failed
      /\ events' = [events EXCEPT ![w] = Tail(@)]
      /\ Resolve(u, Head(events[w]))
      /\ ServeOrRest(w, [task EXCEPT ![w] = None])
      /\ workers' = workers /\ thread' = thread /\ submitted' = submitted
  BY DEF OnMessage
<1>2. /\ events[w] \in Seq(Task \cup {Failed})
      /\ Len(events[w]) \in Nat /\ Len(events[w]) > 0
      /\ events'[w] \in Seq(Task \cup {Failed})
      /\ Len(events'[w]) = Len(events[w]) - 1
      /\ \A i \in 1..Len(events'[w]) :
           i \in Nat /\ i + 1 \in 1..Len(events[w]) /\ i + 1 # 1 /\ events'[w][i] = events[w][i + 1]
      /\ Head(events[w]) = events[w][1]
      /\ events' \in [Worker -> Seq(Task \cup {Failed})]
      /\ \A v \in Worker : v # w => events'[v] = events[v]
  <2>1. events[w] \in Seq(Task \cup {Failed})
    BY <1>0 DEF TypeOK
  <2>2. events'[w] = Tail(events[w]) /\ \A v \in Worker : v # w => events'[v] = events[v]
    BY <1>0, <1>1 DEF TypeOK
  <2> QED
    BY <1>0, <1>1, <2>1, <2>2, TailFacts DEF TypeOK
<1>3. /\ Head(events[w]) = u /\ u \in Task /\ port[w] = None
      /\ \A i \in 1..Len(events'[w]) : events'[w][i] = Failed
  BY <1>0, <1>1, <1>2 DEF EventInv, TypeOK
<1>4. /\ answer' \in [Task -> Task \cup {None, Failed}]
      /\ answer'[u] = u
      /\ \A t \in Task : t # u => answer'[t] = answer[t]
      /\ Open(u)
  BY <1>0, <1>1, <1>3 DEF Resolve, TypeOK, HolderInv
<1>5. \A t \in Task : Open(t)' <=> Open(t) /\ t # u
  BY <1>1, <1>3, <1>4 DEF Open
<1>6. \A i \in 1..Len(idle) : idle[i] # w
  BY <1>0, <1>3 DEF IdleInv
<1>7. thread'[w] # "unborn"
  BY <1>0, <1>1, <1>3 DEF ThreadInv
<1> HIDE DEF u
<1>8. /\ task' \in [Worker -> Task \cup {None}]
      /\ queue' \in Seq(Task) /\ idle' \in Seq(Worker)
      /\ \A v \in Worker : v # w => task'[v] = task[v]
      /\ \/ port' = port /\ task'[w] = None
         \/ task'[w] \in Task /\ Post(w, task'[w])
      /\ IdleInv' /\ QueueInv' /\ HolderInv' /\ NoneLost'
  BY <1>1, <1>5, <1>6, <1>7, ServeOrRestKeeps DEF u
<1>9. /\ port' \in [Worker -> Task \cup {None}]
      /\ \A v \in Worker : v # w => port'[v] = port[v]
      /\ port'[w] # None => port'[w] = task'[w] /\ Alive(w)
  BY <1>0, <1>3, <1>7, <1>8, <1>1 DEF Post, TypeOK, Alive
<1>10. TypeOK'
  BY <1>0, <1>1, <1>2, <1>4, <1>8, <1>9 DEF TypeOK
<1>11. ThreadInv'
  BY <1>0, <1>1, <1>2, <1>7, <1>8, <1>9 DEF ThreadInv, Alive
<1>12. EventInv'
  <2>1. \A i \in 1..Len(events'[w]) :
          /\ i + 1 = Len(events[w]) /\ i \in Nat /\ Len(events[w]) \in Nat
          /\ thread[w] = "dead" /\ workers[w[1]] = w /\ w[2] < MaxRestarts
    BY <1>0, <1>2, <1>3 DEF EventInv
  <2>2. \A i \in 1..Len(events'[w]) : i = Len(events'[w])
    BY <1>2, <2>1
  <2>3. ASSUME NEW v \in Worker, v # w
        PROVE  /\ events'[v] = events[v] /\ thread'[v] = thread[v] /\ workers' = workers
               /\ task'[v] = task[v] /\ port'[v] = port[v]
    BY <1>1, <1>2, <1>8, <1>9, <2>3
  <2> QED
    BY <1>0, <1>1, <1>3, <2>1, <2>2, <2>3 DEF EventInv
<1>13. PortInv'
  BY <1>0, <1>1, <1>8, <1>9 DEF PortInv, Alive
<1>14. SettledInv'
  BY <1>0, <1>1, <1>4 DEF SettledInv, Open
<1> QED
  BY <1>8, <1>10, <1>11, <1>12, <1>13, <1>14 DEF IInv

LEMMA OnErrorIInv ==
  ASSUME IInv, NEW w \in Worker, OnError(w)
  PROVE  IInv'
<1> USE NoneAssumption
<1>0. /\ TypeOK /\ ThreadInv /\ EventInv /\ PortInv
      /\ IdleInv /\ QueueInv /\ HolderInv /\ NoneLost /\ SettledInv
  BY DEF IInv
<1> DEFINE u == task[w]
           fresh == Replacement(w)
<1>1. /\ events[w] # <<>> /\ Head(events[w]) = Failed
      /\ events' = [events EXCEPT ![w] = Tail(@)]
      /\ Resolve(u, Failed)
      /\ Refill(w, fresh)
      /\ thread' = [thread EXCEPT ![fresh] = "starting"]
      /\ ServeOrRest(fresh, [task EXCEPT ![w] = None])
      /\ submitted' = submitted
  BY DEF OnError
<1>2. /\ Len(events[w]) \in Nat /\ Len(events[w]) > 0
      /\ events[w][1] = Failed
      /\ Len(Tail(events[w])) = Len(events[w]) - 1
      /\ Tail(events[w]) \in Seq(Task \cup {Failed})
  BY <1>0, <1>1, TailFacts DEF TypeOK
<1>3. /\ Len(events[w]) = 1
      /\ thread[w] = "dead" /\ workers[w[1]] = w /\ w[2] < MaxRestarts
  <2>1. 1 \in 1..Len(events[w])
    BY <1>2
  <2> QED
    BY <1>0, <1>2, <2>1 DEF EventInv
<1>4. /\ events' \in [Worker -> Seq(Task \cup {Failed})]
      /\ Len(events'[w]) = 0
      /\ \A v \in Worker : v # w => events'[v] = events[v]
  BY <1>0, <1>1, <1>2, <1>3 DEF TypeOK
<1>5. /\ fresh \in Worker /\ fresh[1] = w[1] /\ fresh[2] = w[2] + 1 /\ fresh # w
  BY <1>3, ReplacementFacts
<1>6. thread[fresh] = "unborn"
  BY <1>0, <1>3, <1>5, WorkerFacts DEF ThreadInv
<1>7. /\ task[fresh] = None /\ port[fresh] = None /\ events[fresh] = <<>>
      /\ \A i \in 1..Len(idle) : idle[i] # fresh
  BY <1>0, <1>5, <1>6 DEF ThreadInv, IdleInv
<1> HIDE DEF fresh
<1>8. /\ thread' \in [Worker -> {"unborn", "starting", "ready", "dead"}]
      /\ thread'[fresh] = "starting"
      /\ \A v \in Worker : v # fresh => thread'[v] = thread[v]
  BY <1>0, <1>1, <1>5 DEF TypeOK
<1>9. /\ answer' \in [Task -> Task \cup {None, Failed}]
      /\ \A t \in Task : Open(t)' <=> Open(t) /\ t # u
      /\ SettledInv'
  <2>1. u = None \/ (u \in Task /\ Open(u))
    BY <1>0 DEF TypeOK, HolderInv
  <2>2. answer' \in [Task -> Task \cup {None, Failed}]
    BY <1>0, <1>1 DEF Resolve, TypeOK
  <2>3. \A t \in Task : answer'[t] = IF t = u THEN Failed ELSE answer[t]
    BY <1>0, <1>1 DEF Resolve, TypeOK
  <2> HIDE DEF u
  <2> QED
    BY <1>0, <1>1, <2>1, <2>2, <2>3 DEF Open, SettledInv
<1>10. /\ task' \in [Worker -> Task \cup {None}]
       /\ queue' \in Seq(Task) /\ idle' \in Seq(Worker)
       /\ \A v \in Worker : v # fresh /\ v # w => task'[v] = task[v]
       /\ task'[w] = None
       /\ \/ port' = port /\ task'[fresh] = None
          \/ task'[fresh] \in Task /\ Post(fresh, task'[fresh])
       /\ IdleInv' /\ QueueInv' /\ HolderInv' /\ NoneLost'
  BY <1>1, <1>5, <1>7, <1>8, <1>9, ServeOrRestKeeps
<1> HIDE DEF u
<1>11. /\ port' \in [Worker -> Task \cup {None}]
       /\ \A v \in Worker : v # fresh => port'[v] = port[v]
       /\ port'[fresh] # None => port'[fresh] = task'[fresh]
  BY <1>0, <1>5, <1>7, <1>10 DEF Post, TypeOK
<1>12. /\ workers' \in [Slot -> Worker]
       /\ workers'[w[1]] = fresh
       /\ \A s \in Slot : s # w[1] => workers'[s] = workers[s]
  <2>1. \A s \in Slot : workers[s] = w <=> s = w[1]
    BY <1>0, <1>3 DEF ThreadInv
  <2> QED
    BY <1>0, <1>1, <1>5, <2>1, WorkerFacts DEF Refill, TypeOK
<1>13. TypeOK'
  BY <1>0, <1>1, <1>4, <1>8, <1>9, <1>10, <1>11, <1>12 DEF TypeOK
<1>14. port[w] = None
  BY <1>0, <1>3 DEF PortInv, Alive
<1>15. ThreadInv'
  <2>1. \A s \in Slot : workers'[s][1] = s
    BY <1>0, <1>5, <1>12 DEF ThreadInv
  <2>2. ASSUME NEW v \in Worker
        PROVE  thread'[v] = "unborn" <=> workers'[v[1]][2] < v[2]
    <3>1. CASE v[1] # w[1]
      BY <1>0, <1>5, <1>8, <1>12, <3>1, WorkerFacts DEF ThreadInv
    <3>2. CASE v[1] = w[1]
      <4>1. v = fresh <=> v[2] = w[2] + 1
        BY <1>5, <3>2, WorkerFacts
      <4>2. v[2] \in Nat /\ w[2] \in Nat
        BY WorkerFacts
      <4>3. thread[v] = "unborn" <=> w[2] < v[2]
        BY <1>0, <1>3, <3>2 DEF ThreadInv
      <4> QED
        BY <1>5, <1>8, <1>12, <3>2, <4>1, <4>2, <4>3
    <3> QED
      BY <3>1, <3>2
  <2>3. ASSUME NEW v \in Worker, Alive(v)'
        PROVE  workers'[v[1]] = v
    <3>1. CASE v = fresh
      BY <1>5, <1>12, <3>1
    <3>2. CASE v # fresh
      <4>1. Alive(v) /\ workers[v[1]] = v /\ v # w
        BY <1>0, <1>3, <1>8, <2>3, <3>2 DEF ThreadInv, Alive
      <4>2. v[1] # w[1] /\ v[1] \in Slot
        BY <1>3, <4>1, WorkerFacts
      <4> QED
        BY <1>12, <4>1, <4>2
    <3> QED
      BY <3>1, <3>2
  <2>4. ASSUME NEW v \in Worker, thread'[v] = "unborn"
        PROVE  task'[v] = None /\ port'[v] = None /\ events'[v] = <<>>
    <3>1. v # fresh /\ v # w /\ thread[v] = "unborn"
      BY <1>3, <1>8, <1>5, <2>4
    <3> QED
      BY <1>0, <1>4, <1>10, <1>11, <3>1 DEF ThreadInv
  <2> QED
    BY <2>1, <2>2, <2>3, <2>4 DEF ThreadInv, Alive
<1>16. EventInv'
  <2>1. /\ \A i \in 1..Len(events'[w]) : FALSE
        /\ \A i \in 1..Len(events'[fresh]) : FALSE
    BY <1>4, <1>5, <1>7
  <2>2. ASSUME NEW v \in Worker, NEW i \in 1..Len(events[v]), v # w, v # fresh
        PROVE  /\ events[v][i] = Failed => v[1] # w[1] /\ v[1] \in Slot
               /\ events'[v] = events[v] /\ thread'[v] = thread[v]
               /\ task'[v] = task[v] /\ port'[v] = port[v]
    <3>1. events[v][i] = Failed => workers[v[1]] = v
      BY <1>0 DEF EventInv
    <3> QED
      BY <1>3, <1>4, <1>8, <1>10, <1>11, <2>2, <3>1, WorkerFacts
  <2>3. ASSUME NEW v \in Worker, NEW i \in 1..Len(events'[v])
        PROVE  v # w /\ v # fresh /\ i \in 1..Len(events[v])
    BY <1>4, <2>1
  <2> QED
    BY <1>0, <1>12, <2>2, <2>3 DEF EventInv
<1>17. PortInv'
  BY <1>0, <1>5, <1>8, <1>10, <1>11, <1>14 DEF PortInv, Alive
<1> QED
  BY <1>9, <1>10, <1>13, <1>15, <1>16, <1>17 DEF IInv

LEMMA BootIInv ==
  ASSUME IInv, NEW w \in Worker, Boot(w)
  PROVE  IInv'
<1>1. /\ TypeOK /\ ThreadInv /\ EventInv /\ PortInv
      /\ IdleInv /\ QueueInv /\ HolderInv /\ NoneLost /\ SettledInv
  BY DEF IInv
<1>2. /\ thread[w] = "starting"
      /\ thread' \in [Worker -> {"unborn", "starting", "ready", "dead"}]
      /\ thread'[w] = "ready"
      /\ \A v \in Worker : v # w => thread'[v] = thread[v]
      /\ UNCHANGED <<workers, idle, queue, task, port, events, submitted, answer>>
  BY <1>1 DEF Boot, TypeOK, pool
<1>3. \A v \in Worker : Alive(v)' <=> Alive(v)
  BY <1>2 DEF Alive
<1>4. TypeOK' /\ ThreadInv'
  BY <1>1, <1>2, <1>3 DEF TypeOK, ThreadInv
<1>5. EventInv' /\ PortInv'
  BY <1>1, <1>2, <1>3 DEF EventInv, PortInv
<1>6. IdleInv'
  <2>1. \A i \in 1..Len(idle) : idle[i] \in Worker
    BY <1>1, ElementOfSeq DEF TypeOK
  <2> QED
    BY <1>1, <1>2, <2>1 DEF IdleInv
<1>7. QueueInv' /\ HolderInv' /\ NoneLost' /\ SettledInv'
  BY <1>1, <1>2 DEF QueueInv, HolderInv, NoneLost, SettledInv, Open
<1> QED
  BY <1>4, <1>5, <1>6, <1>7 DEF IInv

(* What posting one event e of thread w does to the events.                *)
LEMMA EventAppended ==
  ASSUME TypeOK, NEW w \in Worker, NEW e \in Task \cup {Failed},
         events' = [events EXCEPT ![w] = Append(@, e)]
  PROVE  /\ events' \in [Worker -> Seq(Task \cup {Failed})]
         /\ \A v \in Worker : v # w => events'[v] = events[v]
         /\ Len(events[w]) \in Nat /\ Len(events'[w]) = Len(events[w]) + 1
         /\ \A i \in 1..Len(events[w]) : events'[w][i] = events[w][i]
         /\ events'[w][Len(events[w]) + 1] = e
<1>1. events[w] \in Seq(Task \cup {Failed}) /\ events'[w] = Append(events[w], e)
  BY DEF TypeOK
<1>2. /\ Append(events[w], e) \in Seq(Task \cup {Failed})
      /\ Len(Append(events[w], e)) = Len(events[w]) + 1
      /\ \A i \in 1..Len(events[w]) : Append(events[w], e)[i] = events[w][i]
      /\ Append(events[w], e)[Len(events[w]) + 1] = e
      /\ Len(events[w]) \in Nat
  BY <1>1, AppendFacts
<1> QED
  BY <1>1, <1>2 DEF TypeOK

LEMMA CompareIInv ==
  ASSUME IInv, NEW w \in Worker, Compare(w)
  PROVE  IInv'
<1> USE NoneAssumption
<1>0. /\ TypeOK /\ ThreadInv /\ EventInv /\ PortInv
      /\ IdleInv /\ QueueInv /\ HolderInv /\ NoneLost /\ SettledInv
  BY DEF IInv
<1>1. /\ thread[w] = "ready" /\ port[w] # None
      /\ port' = [port EXCEPT ![w] = None]
      /\ events' = [events EXCEPT ![w] = Append(@, port[w])]
      /\ UNCHANGED <<workers, idle, queue, task, thread, submitted, answer>>
  BY DEF Compare, pool
<1>2. port[w] = task[w] /\ task[w] \in Task
  BY <1>0, <1>1 DEF PortInv, TypeOK
<1>3. Len(events[w]) = 0
  <2>1. \A i \in 1..Len(events[w]) : FALSE
    BY <1>0, <1>1 DEF EventInv
  <2>2. Len(events[w]) \in Nat
    BY <1>0 DEF TypeOK
  <2> QED
    BY <2>1, <2>2
<1>4. /\ events' \in [Worker -> Seq(Task \cup {Failed})]
      /\ \A v \in Worker : v # w => events'[v] = events[v]
      /\ Len(events'[w]) = 1 /\ events'[w][1] = task[w]
  <2>1. events' = [events EXCEPT ![w] = Append(@, task[w])]
    BY <1>1, <1>2
  <2>2. task[w] \in Task \cup {Failed}
    BY <1>2
  <2>3. /\ events' \in [Worker -> Seq(Task \cup {Failed})]
        /\ \A v \in Worker : v # w => events'[v] = events[v]
        /\ Len(events'[w]) = Len(events[w]) + 1
        /\ events'[w][Len(events[w]) + 1] = task[w]
    BY <1>0, <2>1, <2>2, EventAppended
  <2> QED
    BY <1>3, <2>3
<1>5. /\ port' \in [Worker -> Task \cup {None}] /\ port'[w] = None
      /\ \A v \in Worker : v # w => port'[v] = port[v]
  BY <1>0, <1>1 DEF TypeOK
<1>6. TypeOK'
  BY <1>0, <1>1, <1>4, <1>5 DEF TypeOK
<1>7. ThreadInv'
  BY <1>0, <1>1, <1>4, <1>5 DEF ThreadInv, Alive
<1>8. EventInv'
  BY <1>0, <1>1, <1>2, <1>4, <1>5 DEF EventInv
<1>9. PortInv'
  BY <1>0, <1>1, <1>5 DEF PortInv, Alive
<1>10. IdleInv' /\ QueueInv' /\ HolderInv' /\ NoneLost' /\ SettledInv'
  BY <1>0, <1>1 DEF IdleInv, QueueInv, HolderInv, NoneLost, SettledInv, Open
<1> QED
  BY <1>6, <1>7, <1>8, <1>9, <1>10 DEF IInv

LEMMA CrashIInv ==
  ASSUME IInv, NEW w \in Worker, Crash(w)
  PROVE  IInv'
<1> USE NoneAssumption
<1>0. /\ TypeOK /\ ThreadInv /\ EventInv /\ PortInv
      /\ IdleInv /\ QueueInv /\ HolderInv /\ NoneLost /\ SettledInv
  BY DEF IInv
<1>1. /\ Alive(w) /\ w[2] < MaxRestarts
      /\ thread' = [thread EXCEPT ![w] = "dead"]
      /\ port' = [port EXCEPT ![w] = None]
      /\ events' = [events EXCEPT ![w] = Append(@, Failed)]
      /\ UNCHANGED <<workers, idle, queue, task, submitted, answer>>
  BY DEF Crash, pool, Alive
<1>2. workers[w[1]] = w
  BY <1>0, <1>1 DEF ThreadInv
<1>3. \A i \in 1..Len(events[w]) :
        events[w][i] # Failed /\ i = 1 /\ events[w][i] = task[w]
  BY <1>0, <1>1 DEF EventInv, Alive
<1>4. /\ events' \in [Worker -> Seq(Task \cup {Failed})]
      /\ \A v \in Worker : v # w => events'[v] = events[v]
      /\ Len(events[w]) \in Nat /\ Len(events'[w]) = Len(events[w]) + 1
      /\ \A i \in 1..Len(events[w]) : events'[w][i] = events[w][i]
      /\ events'[w][Len(events[w]) + 1] = Failed
  BY <1>0, <1>1, EventAppended
<1>5. /\ port' \in [Worker -> Task \cup {None}] /\ port'[w] = None
      /\ \A v \in Worker : v # w => port'[v] = port[v]
      /\ thread' \in [Worker -> {"unborn", "starting", "ready", "dead"}]
      /\ thread'[w] = "dead"
      /\ \A v \in Worker : v # w => thread'[v] = thread[v]
  BY <1>0, <1>1 DEF TypeOK
<1>6. TypeOK'
  BY <1>0, <1>1, <1>4, <1>5 DEF TypeOK
<1>7. ThreadInv'
  BY <1>0, <1>1, <1>4, <1>5 DEF ThreadInv, Alive
<1>8. EventInv'
  <2>1. ASSUME NEW i \in 1..Len(events'[w])
        PROVE  \/ i = Len(events'[w]) /\ events'[w][i] = Failed
               \/ i \in 1..Len(events[w]) /\ events'[w][i] = events[w][i]
    BY <1>4
  <2> QED
    BY <1>0, <1>1, <1>2, <1>3, <1>4, <1>5, <2>1 DEF EventInv
<1>9. PortInv'
  BY <1>0, <1>1, <1>5 DEF PortInv, Alive
<1>10. IdleInv'
  <2>1. \A i \in 1..Len(idle) : idle[i] \in Worker
    BY <1>0, ElementOfSeq DEF TypeOK
  <2> QED
    BY <1>0, <1>1, <1>5, <2>1 DEF IdleInv
<1>11. QueueInv' /\ HolderInv' /\ NoneLost' /\ SettledInv'
  BY <1>0, <1>1 DEF QueueInv, HolderInv, NoneLost, SettledInv, Open
<1> QED
  BY <1>6, <1>7, <1>8, <1>9, <1>10, <1>11 DEF IInv

LEMMA NextIInv == IInv /\ [Next]_vars => IInv'
<1>1. ASSUME IInv, Next
      PROVE  IInv'
  BY <1>1, RunIInv, OnMessageIInv, OnErrorIInv, BootIInv, CompareIInv, CrashIInv
     DEF Next, Main, Thread
<1>2. IInv /\ UNCHANGED vars => IInv'
  BY DEF IInv, vars, TypeOK, ThreadInv, EventInv, PortInv, IdleInv, QueueInv,
         HolderInv, NoneLost, SettledInv, Open, Alive
<1> QED
  BY <1>1, <1>2

LEMMA SafetyIInv == Safety => []IInv
BY InitIInv, NextIInv, PTL DEF Safety

-----------------------------------------------------------------------------
(* The theorems.                                                           *)

(* The main thread's and the threads' data keep their types.               *)
THEOREM TypeCorrect == Safety => []TypeOK
<1>1. IInv => TypeOK
  BY DEF IInv
<1> QED
  BY <1>1, SafetyIInv, PTL

(* However threads die, each open chunk is in exactly one place.           *)
THEOREM ChunksConserved == Safety => []OneHome
<1>1. IInv => OneHome
  <2> SUFFICES ASSUME IInv, NEW t \in Task
               PROVE  /\ Open(t) => \/ /\ \E i \in QueuePlaces(t) : QueuePlaces(t) = {i}
                                       /\ Holders(t) = {}
                                    \/ /\ \E w \in Holders(t) : Holders(t) = {w}
                                       /\ QueuePlaces(t) = {}
                      /\ ~Open(t) => QueuePlaces(t) = {} /\ Holders(t) = {}
    BY DEF OneHome, Open
  <2>1. QueueInv /\ HolderInv /\ NoneLost
    BY DEF IInv
  <2>2. CASE Open(t)
    <3>1. CASE \E i \in 1..Len(queue) : queue[i] = t
      <4>1. PICK i \in 1..Len(queue) : queue[i] = t
        BY <3>1
      <4>2. QueuePlaces(t) = {i}
        BY <2>1, <4>1 DEF QueueInv, QueuePlaces
      <4>3. Holders(t) = {}
        BY <2>1, <4>1 DEF QueueInv, Holders
      <4> QED
        BY <2>2, <4>2, <4>3
    <3>2. CASE \E w \in Worker : task[w] = t
      <4>1. PICK w \in Worker : task[w] = t
        BY <3>2
      <4>2. Holders(t) = {w}
        BY <2>1, <4>1, NoneAssumption DEF HolderInv, Holders
      <4>3. QueuePlaces(t) = {}
        BY <2>1, <4>1 DEF QueueInv, QueuePlaces
      <4> QED
        BY <2>2, <4>2, <4>3
    <3> QED
      BY <2>1, <2>2, <3>1, <3>2 DEF NoneLost
  <2>3. CASE ~Open(t)
    BY <2>1, <2>3, NoneAssumption DEF QueueInv, HolderInv, QueuePlaces, Holders
  <2> QED
    BY <2>2, <2>3
<1> QED
  BY <1>1, SafetyIInv, PTL

(* A reply is always that of the chunk it will be taken for.               *)
THEOREM RepliesMatched == Safety => []RepliesMatch
<1>1. IInv => RepliesMatch
  BY DEF IInv, EventInv, RepliesMatch
<1> QED
  BY <1>1, SafetyIInv, PTL

(* No chunk waits while a thread is believed idle.                         *)
THEOREM WorkConserved == Safety => []WorkConserving
<1>1. Init => WorkConserving
  BY DEF Init, WorkConserving
<1>2. WorkConserving /\ [Next]_vars => WorkConserving'
  <2> SUFFICES ASSUME WorkConserving, [Next]_vars
               PROVE  WorkConserving'
    OBVIOUS
  <2>1. ASSUME NEW t \in Task, Run(t)
        PROVE  WorkConserving'
    BY <2>1 DEF Run, WorkConserving
  <2>2. ASSUME NEW w \in Worker, OnMessage(w)
        PROVE  WorkConserving'
    BY <2>2 DEF OnMessage, ServeOrRest, WorkConserving
  <2>3. ASSUME NEW w \in Worker, OnError(w)
        PROVE  WorkConserving'
    BY <2>3 DEF OnError, ServeOrRest, WorkConserving
  <2>4. ASSUME NEW w \in Worker, Thread(w) \/ Crash(w)
        PROVE  WorkConserving'
    BY <2>4 DEF Thread, Boot, Compare, Crash, pool, WorkConserving
  <2>5. CASE UNCHANGED vars
    BY <2>5 DEF vars, WorkConserving
  <2> QED
    BY <2>1, <2>2, <2>3, <2>4, <2>5 DEF Next, Main
<1> QED
  BY <1>1, <1>2, PTL DEF Safety

(* The pool answers each chunk at most once, and with its own comparison   *)
(* or the TRANSFORM_ERROR of its thread: the safety of ChunkService.       *)
THEOREM ImplementsService == Safety => ServiceSafety
<1>1. Init => Service!Init
  BY DEF Init, Service!Init
<1>2. IInv /\ [Next]_vars => [Service!Next]_(Service!vars)
  <2> SUFFICES ASSUME IInv, [Next]_vars
               PROVE  Service!Next \/ UNCHANGED <<submitted, answer>>
    BY DEF Service!vars
  <2> USE NoneAssumption
  <2>1. ASSUME NEW t \in Task, Run(t)
        PROVE  Service!Next
    BY <2>1 DEF Run, Service!Next, Service!Submit
  <2>2. ASSUME NEW w \in Worker, Main(w), task[w] # None
        PROVE  Service!Next
    <3>1. task[w] \in Task /\ Open(task[w])
      BY <2>2 DEF IInv, TypeOK, HolderInv
    <3>2. Head(events[w]) \in {task[w], Failed}
      <4>1. events[w] # <<>> /\ events[w] \in Seq(Task \cup {Failed})
        BY <2>2 DEF Main, OnMessage, OnError, IInv, TypeOK
      <4>2. 1 \in 1..Len(events[w]) /\ Head(events[w]) = events[w][1]
        BY <4>1, TailFacts
      <4> QED
        BY <4>2 DEF IInv, EventInv
    <3>3. Resolve(task[w], Head(events[w])) /\ UNCHANGED submitted
      BY <2>2 DEF Main, OnMessage, OnError
    <3> QED
      BY <2>2, <3>1, <3>2, <3>3 DEF Resolve, Open, Service!Next, Service!Answer
  <2>3. ASSUME NEW w \in Worker, Main(w), task[w] = None
        PROVE  UNCHANGED <<submitted, answer>>
    BY <2>3 DEF Main, OnMessage, OnError, Resolve
  <2>4. ASSUME NEW w \in Worker, Thread(w) \/ Crash(w)
        PROVE  UNCHANGED <<submitted, answer>>
    BY <2>4 DEF Thread, Boot, Compare, Crash
  <2>5. CASE UNCHANGED vars
    BY <2>5 DEF vars
  <2> QED
    BY <2>1, <2>2, <2>3, <2>4, <2>5 DEF Next
<1> QED
  BY <1>1, <1>2, SafetyIInv, PTL DEF Safety, ServiceSafety, Service!Safety

-----------------------------------------------------------------------------
(* Threads that die.                                                       *)

Pending(w, e) == \E i \in 1..Len(events[w]) : events[w][i] = e

(* The main thread is about to learn that the dead thread in a slot is.    *)
DeathInv ==
  \A w \in Worker : thread[w] = "dead" /\ workers[w[1]] = w => Pending(w, Failed)

(* Taking the first event of a thread leaves its others and those of the   *)
(* other threads.                                                          *)
LEMMA EventTaken ==
  ASSUME TypeOK, NEW w \in Worker, events[w] # <<>>,
         events' = [events EXCEPT ![w] = Tail(@)]
  PROVE  /\ \A v \in Worker : v # w => events'[v] = events[v]
         /\ \A i \in 1..Len(events'[w]) :
              i + 1 \in 1..Len(events[w]) /\ events'[w][i] = events[w][i + 1]
         /\ \A e : Pending(w, e) /\ e # Head(events[w]) => Pending(w, e)'
         /\ 1 \in 1..Len(events[w]) /\ Head(events[w]) = events[w][1]
<1>1. events[w] \in Seq(Task \cup {Failed})
  BY DEF TypeOK
<1>2. events'[w] = Tail(events[w]) /\ \A v \in Worker : v # w => events'[v] = events[v]
  BY DEF TypeOK
<1>3. /\ Len(events[w]) \in Nat /\ Len(events[w]) > 0
      /\ Len(events'[w]) = Len(events[w]) - 1
      /\ \A i \in 1..Len(events'[w]) :
           i + 1 \in 1..Len(events[w]) /\ events'[w][i] = events[w][i + 1]
      /\ Head(events[w]) = events[w][1]
  <2> DEFINE q == events[w]
             S == Task \cup {Failed}
  <2>1. q \in Seq(S) /\ q # <<>> /\ events'[w] = Tail(q)
    BY <1>1, <1>2
  <2> HIDE DEF q, S
  <2>2. /\ Len(q) \in Nat /\ Len(q) > 0
        /\ Len(events'[w]) = Len(q) - 1
        /\ \A i \in 1..Len(events'[w]) : i + 1 \in 1..Len(q) /\ events'[w][i] = q[i + 1]
        /\ Head(q) = q[1]
    BY <2>1, TailFacts
  <2> QED
    BY <2>2 DEF q
<1>4. ASSUME NEW e, Pending(w, e), e # Head(events[w])
      PROVE  \E i \in 1..Len(events'[w]) : events'[w][i] = e
  <2>1. PICK i \in 1..Len(events[w]) : events[w][i] = e
    BY <1>4 DEF Pending
  <2>2. i # 1
    BY <1>3, <1>4, <2>1
  <2>3. i - 1 \in 1..Len(events'[w]) /\ (i - 1) + 1 = i
    BY <1>3, <2>2
  <2> QED
    BY <1>3, <2>1, <2>3
<1>5. \A e : Pending(w, e) /\ e # Head(events[w]) => Pending(w, e)'
  BY <1>4 DEF Pending
<1>6. 1 \in 1..Len(events[w])
  BY <1>3
<1> QED
  BY <1>2, <1>3, <1>5, <1>6

(* Adding an event keeps those there are.                                  *)
LEMMA EventAdded ==
  ASSUME TypeOK, NEW w \in Worker, NEW e \in Task \cup {Failed},
         events' = [events EXCEPT ![w] = Append(@, e)]
  PROVE  /\ \A v \in Worker : v # w => events'[v] = events[v]
         /\ \A i \in 1..Len(events'[w]) :
              events'[w][i] = e \/ (i \in 1..Len(events[w]) /\ events'[w][i] = events[w][i])
         /\ \A f : Pending(w, f) => Pending(w, f)'
         /\ Pending(w, e)'
<1>1. /\ \A v \in Worker : v # w => events'[v] = events[v]
      /\ Len(events[w]) \in Nat /\ Len(events'[w]) = Len(events[w]) + 1
      /\ \A i \in 1..Len(events[w]) : events'[w][i] = events[w][i]
      /\ events'[w][Len(events[w]) + 1] = e
  BY EventAppended
<1>2. ASSUME NEW f, Pending(w, f)
      PROVE  \E i \in 1..Len(events'[w]) : events'[w][i] = f
  BY <1>1, <1>2 DEF Pending
<1>3. \E i \in 1..Len(events'[w]) : events'[w][i] = e
  <2>1. Len(events[w]) + 1 \in 1..Len(events'[w])
    BY <1>1
  <2> QED
    BY <1>1, <2>1
<1>4. \A i \in 1..Len(events'[w]) :
        events'[w][i] = e \/ (i \in 1..Len(events[w]) /\ events'[w][i] = events[w][i])
  BY <1>1
<1> QED
  BY <1>1, <1>2, <1>3, <1>4 DEF Pending

(* The thread that an 'error' is of, and the one that replaces it.         *)
LEMMA ErrorFacts ==
  ASSUME IInv, NEW w \in Worker, OnError(w)
  PROVE  /\ thread[w] = "dead"
         /\ Replacement(w) \in Worker /\ Replacement(w) # w
         /\ thread[Replacement(w)] = "unborn" /\ task[Replacement(w)] = None
         /\ thread' = [thread EXCEPT ![Replacement(w)] = "starting"]
<1>1. /\ events[w] # <<>> /\ Head(events[w]) = Failed
      /\ events' = [events EXCEPT ![w] = Tail(@)]
      /\ thread' = [thread EXCEPT ![Replacement(w)] = "starting"]
  BY DEF OnError
<1>2. 1 \in 1..Len(events[w]) /\ events[w][1] = Failed
  BY <1>1, EventTaken DEF IInv
<1>3. thread[w] = "dead" /\ workers[w[1]] = w /\ w[2] < MaxRestarts
  BY <1>2 DEF IInv, EventInv
<1>4. /\ Replacement(w) \in Worker /\ Replacement(w) # w
      /\ Replacement(w)[1] = w[1] /\ Replacement(w)[2] = w[2] + 1
  BY <1>3, ReplacementFacts
<1>5. thread[Replacement(w)] = "unborn"
  BY <1>3, <1>4, WorkerFacts DEF IInv, ThreadInv
<1> QED
  BY <1>1, <1>3, <1>4, <1>5 DEF IInv, ThreadInv

LEMMA NextDeathInv == IInv /\ DeathInv /\ [Next]_vars => DeathInv'
<1> SUFFICES ASSUME IInv, DeathInv, [Next]_vars
             PROVE  DeathInv'
  OBVIOUS
<1>1. ASSUME workers' = workers, events' = events,
             \A v \in Worker : thread'[v] = "dead" => thread[v] = "dead"
      PROVE  DeathInv'
  BY <1>1 DEF DeathInv, Pending
<1>2. ASSUME NEW w \in Worker, OnMessage(w)
      PROVE  DeathInv'
  <2>1. /\ events[w] # <<>> /\ Head(events[w]) # Failed
        /\ events' = [events EXCEPT ![w] = Tail(@)]
        /\ workers' = workers /\ thread' = thread
    BY <1>2 DEF OnMessage
  <2>2. /\ \A v \in Worker : v # w => events'[v] = events[v]
        /\ Pending(w, Failed) => Pending(w, Failed)'
    BY <2>1, EventTaken DEF IInv
  <2> SUFFICES ASSUME NEW v \in Worker, thread[v] = "dead", workers[v[1]] = v
               PROVE  Pending(v, Failed)'
    BY <2>1 DEF DeathInv
  <2>3. Pending(v, Failed)
    BY DEF DeathInv
  <2>4. CASE v = w
    BY <2>2, <2>3, <2>4
  <2>5. CASE v # w
    BY <2>2, <2>3, <2>5 DEF Pending
  <2> QED
    BY <2>4, <2>5
<1>3. ASSUME NEW w \in Worker, OnError(w)
      PROVE  DeathInv'
  <2> DEFINE fresh == Replacement(w)
  <2>1. /\ events[w] # <<>> /\ events' = [events EXCEPT ![w] = Tail(@)]
        /\ Refill(w, fresh)
    BY <1>3 DEF OnError
  <2>2. fresh \in Worker /\ thread' = [thread EXCEPT ![fresh] = "starting"]
    BY <1>3, ErrorFacts
  <2> HIDE DEF fresh
  <2>3. \A v \in Worker : v # w => events'[v] = events[v]
    BY <2>1, EventTaken DEF IInv
  <2> SUFFICES ASSUME NEW v \in Worker, thread'[v] = "dead", workers'[v[1]] = v
               PROVE  \E i \in 1..Len(events'[v]) : events'[v][i] = Failed
    BY DEF DeathInv, Pending
  <2>4. v # fresh /\ thread[v] = "dead"
    BY <2>2 DEF IInv, TypeOK
  <2>5. v # w /\ workers[v[1]] = v
    BY <2>1, <2>4, WorkerFacts DEF Refill
  <2> QED
    BY <2>3, <2>4, <2>5 DEF DeathInv, Pending
<1>4. ASSUME NEW w \in Worker, Boot(w)
      PROVE  DeathInv'
  <2>1. /\ thread' = [thread EXCEPT ![w] = "ready"]
        /\ workers' = workers /\ events' = events
    BY <1>4 DEF Boot, pool
  <2>2. \A v \in Worker : thread'[v] = "dead" => thread[v] = "dead"
    BY <2>1 DEF IInv, TypeOK
  <2> QED
    BY <1>1, <2>1, <2>2
<1>5. ASSUME NEW w \in Worker, Compare(w)
      PROVE  DeathInv'
  <2>1. /\ port[w] # None /\ events' = [events EXCEPT ![w] = Append(@, port[w])]
        /\ workers' = workers /\ thread' = thread
    BY <1>5 DEF Compare, pool
  <2>2. port[w] \in Task \cup {Failed}
    BY <2>1 DEF IInv, TypeOK
  <2>3. /\ \A v \in Worker : v # w => events'[v] = events[v]
        /\ Pending(w, Failed) => Pending(w, Failed)'
    BY <2>1, <2>2, EventAdded DEF IInv
  <2> QED
    BY <2>1, <2>3 DEF DeathInv, Pending
<1>6. ASSUME NEW w \in Worker, Crash(w)
      PROVE  DeathInv'
  <2>1. /\ events' = [events EXCEPT ![w] = Append(@, Failed)]
        /\ thread' = [thread EXCEPT ![w] = "dead"] /\ workers' = workers
    BY <1>6 DEF Crash, pool
  <2>2. /\ \A v \in Worker : v # w => events'[v] = events[v]
        /\ Pending(w, Failed)'
    BY <2>1, EventAdded DEF IInv
  <2> QED
    <3>1. \A v \in Worker : v # w => thread'[v] = thread[v]
      BY <2>1 DEF IInv, TypeOK
    <3> QED
      BY <2>1, <2>2, <3>1 DEF DeathInv, Pending
<1>7. ASSUME NEW t \in Task, Run(t)
      PROVE  DeathInv'
  BY <1>1, <1>7 DEF Run
<1>8. CASE UNCHANGED vars
  BY <1>1, <1>8 DEF vars
<1> QED
  BY <1>2, <1>3, <1>4, <1>5, <1>6, <1>7, <1>8 DEF Next, Main, Thread

(* The pool keeps its size: the thread in a slot lives or its 'error' is   *)
(* on the way, and the idle threads are distinct and hold no chunk.        *)
THEOREM PoolKeepsStrength == Safety => []FullStrength
<1>1. Init => DeathInv
  <2> SUFFICES ASSUME Init, NEW w \in Worker, workers[w[1]] = w
               PROVE  thread[w] # "dead"
    BY DEF DeathInv
  <2> QED
    BY DEF Init
<1>2. ASSUME IInv, DeathInv
      PROVE  FullStrength
  <2>1. ASSUME NEW s \in Slot
        PROVE  \/ thread[workers[s]] \in {"starting", "ready"}
               \/ Failed \in {events[workers[s]][i] : i \in 1..Len(events[workers[s]])}
    <3> DEFINE w == workers[s]
    <3>1. w \in Worker /\ w[1] = s
      BY <1>2 DEF IInv, TypeOK, ThreadInv
    <3>2. thread[w] # "unborn"
      <4>1. w[2] \in Nat
        BY <3>1, WorkerFacts
      <4> QED
        BY <1>2, <3>1, <4>1 DEF IInv, ThreadInv
    <3>3. thread[w] \in {"unborn", "starting", "ready", "dead"}
      BY <1>2, <3>1 DEF IInv, TypeOK
    <3>4. thread[w] = "dead" => Pending(w, Failed)
      BY <1>2, <3>1 DEF DeathInv
    <3> QED
      BY <3>2, <3>3, <3>4 DEF Pending
  <2> QED
    BY <1>2, <2>1 DEF FullStrength, IInv, IdleInv
<1>3. IInv /\ DeathInv => FullStrength
  BY <1>2
<1> QED
  BY <1>1, <1>3, SafetyIInv, NextDeathInv, PTL DEF Safety

-----------------------------------------------------------------------------
(* Threads that die only while they hold a chunk.                          *)

(* A chunk on a thread is on its port or an event about it is on the way;  *)
(* the idle threads live, and so does a thread with a reply on the way.    *)
HandsInv ==
  /\ \A w \in Worker : task[w] # None =>
       \/ Alive(w) /\ port[w] = task[w]
       \/ Pending(w, task[w]) \/ Pending(w, Failed)
  /\ \A i \in 1..Len(idle) : Alive(idle[i])
  /\ \A w \in Worker : \A i \in 1..Len(events[w]) : events[w][i] # Failed => Alive(w)

(* What the end of a handler does to the chunks, ports and idle threads.   *)
LEMMA ServeOrRestShape ==
  ASSUME TypeOK, NEW h \in Worker, NEW d \in Worker,
         ServeOrRest(h, [task EXCEPT ![d] = None]),
         task[h] = None \/ h = d
  PROVE  /\ \A v \in Worker : v # h /\ v # d => task'[v] = task[v]
         /\ \A v \in Worker : v # h => port'[v] = port[v]
         /\ h # d => task'[d] = None
         /\ task'[h] = None \/ Post(h, task'[h])
         /\ idle' = idle \/ idle' = Append(idle, h)
<1>1. CASE queue # <<>>
  <2>1. /\ task' = [[task EXCEPT ![d] = None] EXCEPT ![h] = Head(queue)]
        /\ Post(h, Head(queue)) /\ idle' = idle
    BY <1>1 DEF ServeOrRest
  <2>2. task'[h] = Head(queue)
    BY <2>1 DEF TypeOK
  <2>3. \A v \in Worker : v # h => port'[v] = port[v]
    BY <2>1 DEF Post, TypeOK
  <2>4. /\ \A v \in Worker : v # h /\ v # d => task'[v] = task[v]
        /\ h # d => task'[d] = None
    BY <2>1 DEF TypeOK
  <2> QED
    BY <2>1, <2>2, <2>3, <2>4
<1>2. CASE queue = <<>>
  <2>1. /\ task' = [task EXCEPT ![d] = None]
        /\ port' = port /\ idle' = Append(idle, h)
    BY <1>2 DEF ServeOrRest
  <2> QED
    BY <2>1 DEF TypeOK
<1> QED
  BY <1>1, <1>2

(* A thread that joins the idle ones.                                      *)
LEMMA IdleJoined ==
  ASSUME TypeOK, NEW h \in Worker, idle' = idle \/ idle' = Append(idle, h),
         NEW i \in 1..Len(idle')
  PROVE  idle'[i] = h \/ (i \in 1..Len(idle) /\ idle'[i] = idle[i] /\ idle[i] \in Worker)
<1>1. idle \in Seq(Worker) /\ \A j \in 1..Len(idle) : idle[j] \in Worker
  BY ElementOfSeq DEF TypeOK
<1>2. CASE idle' = idle
  BY <1>1, <1>2
<1>3. CASE idle' = Append(idle, h)
  BY <1>1, <1>3, AppendFacts
<1> QED
  BY <1>2, <1>3

LEMMA RunHands ==
  ASSUME IInv, HandsInv, NEW t \in Task, Run(t)
  PROVE  HandsInv'
<1> USE NoneAssumption
<1>1. thread' = thread /\ events' = events
  BY DEF Run
<1>2. CASE idle = <<>>
  <2>1. UNCHANGED <<idle, task, port>>
    BY <1>2 DEF Run
  <2> QED
    BY <1>1, <2>1 DEF HandsInv, Alive, Pending
<1>3. CASE idle # <<>>
  <2> DEFINE w == IdleTop
  <2>1. /\ task' = [task EXCEPT ![w] = t] /\ Post(w, t)
        /\ idle' = SubSeq(idle, 1, Len(idle) - 1)
    BY <1>3 DEF Run, IdlePopped
  <2>2. /\ Len(idle) \in Nat /\ Len(idle) > 0 /\ w \in Worker
        /\ Len(idle') = Len(idle) - 1
        /\ \A i \in 1..(Len(idle) - 1) : idle'[i] = idle[i]
    BY <1>3, <2>1, FrontFacts DEF IInv, TypeOK, IdleTop
  <2>3. Alive(w)
    BY <2>2 DEF HandsInv, IdleTop
  <2> HIDE DEF w
  <2>4. /\ task'[w] = t /\ port'[w] = t
        /\ \A v \in Worker : v # w => task'[v] = task[v] /\ port'[v] = port[v]
    BY <2>1, <2>2, <2>3 DEF IInv, TypeOK, Post, Alive
  <2>5. \A i \in 1..Len(idle') : Alive(idle'[i])
    BY <2>2 DEF HandsInv
  <2> QED
    BY <1>1, <2>3, <2>4, <2>5 DEF HandsInv, Alive, Pending
<1> QED
  BY <1>2, <1>3

LEMMA OnMessageHands ==
  ASSUME IInv, HandsInv, NEW w \in Worker, OnMessage(w)
  PROVE  HandsInv'
<1>1. /\ events[w] # <<>> /\ Head(events[w]) # Failed
      /\ events' = [events EXCEPT ![w] = Tail(@)]
      /\ ServeOrRest(w, [task EXCEPT ![w] = None])
      /\ thread' = thread
  BY DEF OnMessage
<1>2. /\ \A v \in Worker : v # w => events'[v] = events[v]
      /\ \A i \in 1..Len(events'[w]) :
           i + 1 \in 1..Len(events[w]) /\ events'[w][i] = events[w][i + 1]
      /\ 1 \in 1..Len(events[w]) /\ Head(events[w]) = events[w][1]
  BY <1>1, EventTaken DEF IInv
<1>3. Alive(w)
  BY <1>1, <1>2 DEF HandsInv
<1>4. /\ \A v \in Worker : v # w => task'[v] = task[v] /\ port'[v] = port[v]
      /\ task'[w] = None \/ Post(w, task'[w])
      /\ idle' = idle \/ idle' = Append(idle, w)
  BY <1>1, ServeOrRestShape DEF IInv
<1>5. task'[w] # None => port'[w] = task'[w]
  BY <1>3, <1>4 DEF IInv, TypeOK, Post, Alive
<1>6. \A i \in 1..Len(idle') : Alive(idle'[i])
  BY <1>3, <1>4, IdleJoined DEF HandsInv, IInv
<1>7. \A v \in Worker : \A i \in 1..Len(events'[v]) : events'[v][i] # Failed => Alive(v)
  BY <1>2, <1>3 DEF HandsInv
<1>8. ASSUME NEW v \in Worker, task'[v] # None
      PROVE  \/ Alive(v) /\ port'[v] = task'[v]
             \/ \E i \in 1..Len(events'[v]) : events'[v][i] = task'[v]
             \/ \E i \in 1..Len(events'[v]) : events'[v][i] = Failed
  <2>1. CASE v = w
    BY <1>3, <1>5, <1>8, <2>1
  <2>2. CASE v # w
    BY <1>2, <1>4, <1>8, <2>2 DEF HandsInv, Pending
  <2> QED
    BY <2>1, <2>2
<1> QED
  BY <1>1, <1>6, <1>7, <1>8 DEF HandsInv, Alive, Pending

LEMMA OnErrorHands ==
  ASSUME IInv, HandsInv, NEW w \in Worker, OnError(w)
  PROVE  HandsInv'
<1> USE NoneAssumption
<1> DEFINE fresh == Replacement(w)
<1>1. /\ events[w] # <<>> /\ Head(events[w]) = Failed
      /\ events' = [events EXCEPT ![w] = Tail(@)]
      /\ ServeOrRest(fresh, [task EXCEPT ![w] = None])
  BY DEF OnError
<1>2. /\ thread[w] = "dead" /\ fresh \in Worker /\ fresh # w
      /\ thread[fresh] = "unborn" /\ task[fresh] = None
      /\ thread' = [thread EXCEPT ![fresh] = "starting"]
  BY ErrorFacts
<1> HIDE DEF fresh
<1>3. /\ \A v \in Worker : v # w => events'[v] = events[v]
      /\ \A i \in 1..Len(events'[w]) :
           i + 1 \in 1..Len(events[w]) /\ events'[w][i] = events[w][i + 1]
  BY <1>1, EventTaken DEF IInv
<1>4. /\ \A v \in Worker : v # fresh /\ v # w => task'[v] = task[v]
      /\ \A v \in Worker : v # fresh => port'[v] = port[v]
      /\ task'[w] = None
      /\ task'[fresh] = None \/ Post(fresh, task'[fresh])
      /\ idle' = idle \/ idle' = Append(idle, fresh)
  BY <1>1, <1>2, ServeOrRestShape DEF IInv
<1>5. task'[fresh] # None => port'[fresh] = task'[fresh]
  BY <1>2, <1>4 DEF IInv, TypeOK, Post
<1>6. /\ thread'[fresh] = "starting"
      /\ \A v \in Worker : Alive(v) => thread'[v] \in {"starting", "ready"}
  BY <1>2 DEF IInv, TypeOK, Alive
<1>7. \A i \in 1..Len(idle') : thread'[idle'[i]] \in {"starting", "ready"}
  BY <1>2, <1>4, <1>6, IdleJoined DEF HandsInv, IInv
<1>8. ASSUME NEW v \in Worker, NEW i \in 1..Len(events'[v]), events'[v][i] # Failed
      PROVE  thread'[v] \in {"starting", "ready"}
  <2>1. CASE v = w
    BY <1>2, <1>3, <1>8, <2>1 DEF HandsInv, Alive
  <2>2. CASE v # w
    BY <1>3, <1>6, <1>8, <2>2 DEF HandsInv
  <2> QED
    BY <2>1, <2>2
<1>9. ASSUME NEW v \in Worker, task'[v] # None
      PROVE  \/ thread'[v] \in {"starting", "ready"} /\ port'[v] = task'[v]
             \/ \E i \in 1..Len(events'[v]) : events'[v][i] = task'[v]
             \/ \E i \in 1..Len(events'[v]) : events'[v][i] = Failed
  <2>1. CASE v = fresh
    BY <1>5, <1>6, <1>9, <2>1
  <2>2. CASE v # fresh
    <3>1. v # w
      BY <1>4, <1>9
    <3> QED
      BY <1>3, <1>4, <1>6, <1>9, <2>2, <3>1 DEF HandsInv, Pending
  <2> QED
    BY <2>1, <2>2
<1> QED
  BY <1>7, <1>8, <1>9 DEF HandsInv, Alive, Pending

LEMMA BootHands ==
  ASSUME IInv, HandsInv, NEW w \in Worker, Boot(w)
  PROVE  HandsInv'
<1>1. /\ thread' = [thread EXCEPT ![w] = "ready"]
      /\ UNCHANGED <<idle, task, port, events>>
  BY DEF Boot, pool
<1>2. \A v \in Worker : Alive(v) => thread'[v] \in {"starting", "ready"}
  BY <1>1 DEF IInv, TypeOK, Alive
<1>3. \A i \in 1..Len(idle) : idle[i] \in Worker
  BY ElementOfSeq DEF IInv, TypeOK
<1> QED
  BY <1>1, <1>2, <1>3 DEF HandsInv, Alive, Pending

LEMMA CompareHands ==
  ASSUME IInv, HandsInv, NEW w \in Worker, Compare(w)
  PROVE  HandsInv'
<1>1. /\ thread[w] = "ready" /\ port[w] # None
      /\ port' = [port EXCEPT ![w] = None]
      /\ events' = [events EXCEPT ![w] = Append(@, port[w])]
      /\ UNCHANGED <<idle, task, thread>>
  BY DEF Compare, pool
<1>2. port[w] = task[w] /\ port[w] \in Task \cup {Failed}
  BY <1>1 DEF IInv, TypeOK, PortInv
<1>3. /\ \A v \in Worker : v # w => events'[v] = events[v]
      /\ \A i \in 1..Len(events'[w]) :
           events'[w][i] = port[w] \/ (i \in 1..Len(events[w]) /\ events'[w][i] = events[w][i])
  BY <1>1, <1>2, EventAdded DEF IInv
<1>4. \A v \in Worker : v # w => port'[v] = port[v]
  BY <1>1 DEF IInv, TypeOK
<1>5. ASSUME NEW v \in Worker, task[v] # None
      PROVE  \/ Alive(v) /\ port'[v] = task[v]
             \/ \E i \in 1..Len(events'[v]) : events'[v][i] = task[v]
             \/ \E i \in 1..Len(events'[v]) : events'[v][i] = Failed
  <2>1. CASE v = w
    <3>1. \E i \in 1..Len(events'[w]) : events'[w][i] = port[w]
      <4>1. /\ Len(events[w]) \in Nat /\ Len(events'[w]) = Len(events[w]) + 1
            /\ events'[w][Len(events[w]) + 1] = port[w]
        BY <1>1, <1>2, EventAppended DEF IInv
      <4>2. Len(events[w]) + 1 \in 1..Len(events'[w])
        BY <4>1
      <4> QED
        BY <4>1, <4>2
    <3> QED
      BY <1>2, <2>1, <3>1
  <2>2. CASE v # w
    BY <1>3, <1>4, <1>5, <2>2 DEF HandsInv, Pending
  <2> QED
    BY <2>1, <2>2
<1>6. \A v \in Worker : \A i \in 1..Len(events'[v]) : events'[v][i] # Failed => Alive(v)
  BY <1>1, <1>3 DEF HandsInv, Alive
<1> QED
  BY <1>1, <1>5, <1>6 DEF HandsInv, Alive, Pending

(* A thread that holds a chunk dies: it is not idle, and its 'error' is on *)
(* the way.                                                                *)
LEMMA CrashHands ==
  ASSUME IInv, HandsInv, NEW w \in Worker, Crash(w), ~IdleCrashes
  PROVE  HandsInv'
<1>1. /\ port[w] # None
      /\ thread' = [thread EXCEPT ![w] = "dead"]
      /\ port' = [port EXCEPT ![w] = None]
      /\ events' = [events EXCEPT ![w] = Append(@, Failed)]
      /\ UNCHANGED <<idle, task>>
  BY DEF Crash, pool
<1>2. /\ \A v \in Worker : v # w => events'[v] = events[v]
      /\ \A i \in 1..Len(events'[w]) :
           events'[w][i] = Failed \/ (i \in 1..Len(events[w]) /\ events'[w][i] = events[w][i])
      /\ Pending(w, Failed)'
  BY <1>1, EventAdded DEF IInv
<1>3. /\ \A v \in Worker : v # w => port'[v] = port[v] /\ thread'[v] = thread[v]
      /\ \A i \in 1..Len(events[w]) : events[w][i] = Failed
      /\ task[w] # None
  BY <1>1 DEF IInv, TypeOK, EventInv, PortInv
<1>4. \A i \in 1..Len(idle) : idle[i] \in Worker /\ idle[i] # w
  <2>1. \A i \in 1..Len(idle) : idle[i] \in Worker
    BY ElementOfSeq DEF IInv, TypeOK
  <2> QED
    BY <1>3, <2>1 DEF IInv, IdleInv
<1>5. ASSUME NEW v \in Worker, task[v] # None
      PROVE  \/ thread'[v] \in {"starting", "ready"} /\ port'[v] = task[v]
             \/ Pending(v, task[v])' \/ Pending(v, Failed)'
  <2>1. CASE v = w
    BY <1>2, <2>1
  <2>2. CASE v # w
    <3>1. \/ Alive(v) /\ port[v] = task[v]
          \/ \E i \in 1..Len(events[v]) : events[v][i] = task[v]
          \/ \E i \in 1..Len(events[v]) : events[v][i] = Failed
      BY <1>5 DEF HandsInv, Pending
    <3>2. events'[v] = events[v] /\ task'[v] = task[v]
      BY <1>1, <1>2, <2>2
    <3> QED
      BY <1>3, <2>2, <3>1, <3>2 DEF Alive, Pending
  <2> QED
    BY <2>1, <2>2
<1>6. ASSUME NEW v \in Worker, NEW i \in 1..Len(events'[v]), events'[v][i] # Failed
      PROVE  thread'[v] \in {"starting", "ready"}
  BY <1>2, <1>3, <1>6 DEF HandsInv, Alive
<1>7. \A i \in 1..Len(idle) : thread'[idle[i]] \in {"starting", "ready"}
  BY <1>3, <1>4 DEF HandsInv, Alive
<1> QED
  BY <1>1, <1>5, <1>6, <1>7 DEF HandsInv, Alive, Pending

LEMMA NextHands == ~IdleCrashes /\ IInv /\ HandsInv /\ [Next]_vars => HandsInv'
<1>1. ASSUME ~IdleCrashes, IInv, HandsInv, Next
      PROVE  HandsInv'
  BY <1>1, RunHands, OnMessageHands, OnErrorHands, BootHands, CompareHands, CrashHands
     DEF Next, Main, Thread
<1>2. HandsInv /\ UNCHANGED vars => HandsInv'
  BY DEF vars, HandsInv, Alive, Pending
<1> QED
  BY <1>1, <1>2

LEMMA SafetyHands == ~IdleCrashes /\ Safety => []HandsInv
<1>1. Init => HandsInv
  <2> SUFFICES ASSUME Init
               PROVE  HandsInv
    OBVIOUS
  <2>1. \A i \in 1..Len(idle) : Alive(idle[i])
    BY PoolSizeAssumption, RestartAssumption DEF Init, Alive, Slot, Worker
  <2>2. \A w \in Worker : task[w] = None /\ Len(events[w]) = 0
    BY DEF Init
  <2> QED
    BY <2>1, <2>2 DEF HandsInv
<1>2. CASE ~IdleCrashes
  <2>1. IInv /\ HandsInv /\ [Next]_vars => HandsInv'
    BY <1>2, NextHands
  <2> QED
    BY <1>1, <2>1, SafetyIInv, PTL DEF Safety
<1>3. CASE IdleCrashes
  BY <1>3
<1> QED
  BY <1>2, <1>3

(* When threads die only while they hold a chunk, a chunk on a thread is   *)
(* on a living thread's port, or a reply or an 'error' about it is on the  *)
(* way: the main thread will hear of it.                                   *)
THEOREM ChunksInGoodHands == ~IdleCrashes /\ Safety => []InGoodHands
<1>1. HandsInv => InGoodHands
  BY DEF HandsInv, InGoodHands, Pending, Alive
<1> QED
  BY <1>1, SafetyHands, PTL

(* Then "replace crashed worker" does what it says: a dead thread whose    *)
(* 'error' has been handled never holds a chunk.  Idle deaths break it.    *)
THEOREM DeadAreReplaced == ~IdleCrashes /\ Safety => []DeadStayReplaced
<1>1. HandsInv => DeadStayReplaced
  BY DEF HandsInv, DeadStayReplaced, Pending, Alive
<1> QED
  BY <1>1, SafetyHands, PTL
=============================================================================
