--------------------------- MODULE FactoryProofs ----------------------------
(***************************************************************************)
(* Proofs about Thread and Factory, for any number of workers, producers   *)
(* and jobs: a thread's struct and data outlive its use of them and join   *)
(* delivers its result; the list is the queue of the jobs added and not    *)
(* taken, and each job is run at most once.                                *)
(***************************************************************************)
EXTENDS Factory, TLAPS

\* Where a thread is decides what it may use: its data and its struct while it
\* exists, its local data while the procedure or its end may refer to it, and a
\* result in the struct from the end of the procedure to the join.
ThreadPlaces ==
  \A t \in Threads :
    /\ t \in tls <=> place[t] \in {"running", "returned", "exiting"}
    /\ place[t] \in Alive => data[t] = "live" /\ t \in structs
    /\ place[t] \in {"returned", "cleared", "exiting", "gone"}
         => ret[t] = returned[t]
    /\ place[t] = "joined" => got[t] = returned[t]

\* The loop of destroy has joined the workers it is past, so that their structs
\* are freed when no worker is left.
JoinedSoFar ==
  /\ Producers \subseteq structs
  /\ mpc = "broadcast" => i = 1
  /\ mpc = "join" => \A w \in Workers : w < i => place[w] \in {"joined", "failed"}
  /\ mpc = "free" => \A w \in Workers : place[w] \in {"joined", "failed"}

\* A worker holds a job from the POP to the free, and runs it once in between; what
\* is on the list is allocated, there once, and has not been run.
JobsHeld ==
  /\ \A w \in Workers :
       /\ wpc[w] \in {"run", "free"} => job[w] # NULL
       /\ job[w] # NULL => wpc[w] \in {"test", "run", "free"}
       /\ job[w] # NULL /\ wpc[w] # "free" => ran[job[w]] = 0
  /\ \A k \in 1 .. Len(queue) : queue[k] \in heap /\ ran[queue[k]] = 0
  /\ \A k, l \in 1 .. Len(queue) : queue[k] = queue[l] => k = l

\* The inductive invariants: of the threads, and of the list and its jobs.
PlacesInv == ThreadPlaces /\ JoinedSoFar
ListInv == ListIsQueue /\ JobsRunOnce /\ JobsHeld

-----------------------------------------------------------------------------
(***************************************************************************)
(* The operations of Thread.                                               *)
(***************************************************************************)

\* The operations of Thread on a thread t of the program.
Operation(t) ==
  \/ ThreadInit(t) \/ ThreadInitFails(t) \/ ThreadSteps(t) \/ Join(t)
  \/ \E v \in Result : Return(t, v) \/ Exit(t, v)

\* Each operation of thread.c keeps the types, moves its own thread only, leaves
\* every struct where it is, and keeps the relation of place to memory and result.
LEMMA OperationKeeps ==
  ASSUME NEW t \in Threads, ThreadTypeOK, ThreadPlaces, Operation(t)
  PROVE  /\ ThreadTypeOK' /\ ThreadPlaces'
         /\ structs' = structs
         /\ \A u \in Threads \ {t} : place'[u] = place[u]
<1> USE DEF ThreadTypeOK, ThreadPlaces, Goto, Alive, Status, Data, Result
<1>1. CASE ThreadInit(t)
  BY <1>1 DEF ThreadInit
<1>2. CASE ThreadInitFails(t)
  BY <1>2 DEF ThreadInitFails
<1>3. CASE Start(t)
  BY <1>3 DEF Start
<1>4. CASE ClearTls(t)
  BY <1>4 DEF ClearTls
<1>5. CASE FreeData(t)
  BY <1>5 DEF FreeData
<1>6. CASE ExitEnds(t)
  BY <1>6 DEF ExitEnds
<1>7. CASE Join(t)
  BY <1>7 DEF Join
<1>8. ASSUME NEW v \in Result, Return(t, v)
      PROVE  /\ ThreadTypeOK' /\ ThreadPlaces'
             /\ structs' = structs
             /\ \A u \in Threads \ {t} : place'[u] = place[u]
  BY <1>8 DEF Return
<1>9. ASSUME NEW v \in Result, Exit(t, v)
      PROVE  /\ ThreadTypeOK' /\ ThreadPlaces'
             /\ structs' = structs
             /\ \A u \in Threads \ {t} : place'[u] = place[u]
  BY <1>9 DEF Exit
<1>10. QED
  BY <1>1, <1>2, <1>3, <1>4, <1>5, <1>6, <1>7, <1>8, <1>9
     DEF Operation, ThreadSteps

-----------------------------------------------------------------------------
(***************************************************************************)
(* Types.                                                                  *)
(***************************************************************************)

\* The steps of main keep the types.
LEMMA MainTypes == TypeOK /\ Main => TypeOK'
<1> SUFFICES ASSUME TypeOK, Main PROVE TypeOK'
  OBVIOUS
<1> USE FactoryAssumption DEF TypeOK, Workers, Pointer, WorkerStatus, listVars
<1>1. CASE Allocate
  BY <1>1 DEF Allocate
<1>2. CASE InitFails
  BY <1>2 DEF InitFails
<1>3. CASE InitWorker
  BY <1>3 DEF InitWorker
<1>4. CASE Terminate
  BY <1>4 DEF Terminate
<1>5. CASE Broadcast
  BY <1>5 DEF Broadcast
<1>6. CASE JoinWorker
  BY <1>6 DEF JoinWorker
<1>7. CASE FreeWorkers
  BY <1>7 DEF FreeWorkers
<1>8. QED
  BY <1>1, <1>2, <1>3, <1>4, <1>5, <1>6, <1>7 DEF Main

\* What PUSH writes are pointers.
LEMMA PushTypes ==
  ASSUME TypeOK, NEW j \in Job, jobs # NULL, Push(j)
  PROVE  /\ jobs' \in Pointer
         /\ prev' \in [Job -> Pointer] /\ next' \in [Job -> Pointer]
  BY DEF TypeOK, Push, Pointer

\* What POP writes are pointers.
LEMMA PopTypes ==
  ASSUME TypeOK, NEW j \in Job, Pop(j)
  PROVE  /\ jobs' \in Pointer
         /\ prev' \in [Job -> Pointer] /\ next' \in [Job -> Pointer]
  BY DEF TypeOK, Pop, Pointer

\* The steps of a worker keep the types.
LEMMA WorkerTypes ==
  ASSUME TypeOK, NEW w \in Workers, WorkerSteps(w) \/ SpuriousWake(w)
  PROVE  TypeOK'
<1> USE DEF TypeOK, Pointer, WorkerStatus, listVars, Working
<1>1. CASE Around(w)
  BY <1>1 DEF Around
<1>2. CASE Wait(w)
  BY <1>2 DEF Wait
<1>3. CASE Take(w)
  <2>1. /\ jobs' \in Pointer /\ queue' \in Seq(Job)
        /\ prev' \in [Job -> Pointer] /\ next' \in [Job -> Pointer]
    <3>1. CASE jobs = NULL
      BY <1>3, <3>1 DEF Take
    <3>2. CASE jobs # NULL
      <4>1. jobs \in Job /\ Pop(jobs) /\ queue' = SubSeq(queue, 2, Len(queue))
        BY <1>3, <3>2 DEF Take
      <4>2. queue' \in Seq(Job)
        BY <4>1
      <4>3. QED
        BY <4>1, <4>2, PopTypes
    <3>3. QED
      BY <3>1, <3>2
  <2>2. QED
    BY <1>3, <2>1 DEF Take
<1>4. CASE Test(w)
  BY <1>4 DEF Test
<1>5. CASE Run(w)
  <2>1. \A j \in Job : ran[j] + 1 \in Nat
    OBVIOUS
  <2>2. ran' \in [Job -> Nat]
    BY <1>5, <2>1 DEF Run
  <2>3. QED
    BY <1>5, <2>2 DEF Run
<1>6. CASE FreeJob(w)
  BY <1>6 DEF FreeJob
<1>7. CASE SpuriousWake(w)
  BY <1>7 DEF SpuriousWake
<1>8. QED
  BY <1>1, <1>2, <1>3, <1>4, <1>5, <1>6, <1>7 DEF WorkerSteps

\* The steps of a producer keep the types.
LEMMA ProducerTypes ==
  ASSUME TypeOK, NEW p \in Producers, ProducerSteps(p)
  PROVE  TypeOK'
<1> USE DEF TypeOK, Pointer, WorkerStatus, listVars
<1>1. CASE InitProducer(p)
  BY <1>1 DEF InitProducer
<1>2. CASE Around(p)
  BY <1>2 DEF Around
<1>3. CASE ProducerReturns(p)
  BY <1>3 DEF ProducerReturns
<1>4. CASE JoinProducer(p)
  BY <1>4 DEF JoinProducer
<1>5. ASSUME NEW j \in Job, AddJob(p, j) PROVE TypeOK'
  <2>1. CASE jobs = NULL
    <3>1. fault' \in BOOLEAN
      BY <1>5, <2>1, Zenon DEF AddJob
    <3>2. QED
      BY <1>5, <2>1, <3>1 DEF AddJob
  <2>2. CASE jobs # NULL
    <3>1. Push(j) /\ Signal /\ queue' = <<j>> \o queue
      BY <1>5, <2>2 DEF AddJob
    <3>2. queue' \in Seq(Job)
      BY <3>1
    <3>3. missed' \in Nat
      BY <3>1 DEF Signal
    <3>4. wpc' \in [Workers -> {"loop", "waiting", "woken", "test", "run", "free"}]
      BY <3>1 DEF Signal, Waiting
    <3>5. QED
      BY <1>5, <2>2, <3>1, <3>2, <3>3, <3>4, PushTypes DEF AddJob
  <2>3. QED
    BY <2>1, <2>2
<1>6. QED
  BY <1>1, <1>2, <1>3, <1>4, <1>5 DEF ProducerSteps

\* Every step keeps the types of the factory.
LEMMA TypeStep == TypeOK /\ [Next]_vars => TypeOK'
<1> SUFFICES ASSUME TypeOK, [Next]_vars PROVE TypeOK'
  OBVIOUS
<1>1. CASE UNCHANGED vars
  BY <1>1 DEF vars, listVars, TypeOK
<1>2. QED
  BY <1>1, MainTypes, WorkerTypes, ProducerTypes DEF Next

-----------------------------------------------------------------------------
(***************************************************************************)
(* Threads.                                                                *)
(***************************************************************************)

\* A step that is an operation of a thread that is not yet joined, and that main
\* takes in none of its loops, keeps the invariant of the threads.
LEMMA OperationStep ==
  ASSUME TypeOK, ThreadTypeOK, PlacesInv, NEW t \in Threads, Operation(t),
         place[t] \notin {"joined", "failed"}, UNCHANGED <<mpc, i>>
  PROVE  ThreadTypeOK' /\ PlacesInv'
<1>1. /\ ThreadTypeOK' /\ ThreadPlaces' /\ structs' = structs
      /\ \A u \in Threads \ {t} : place'[u] = place[u]
  BY OperationKeeps DEF PlacesInv
<1>2. \A w \in Workers : w \in Threads
  BY FactoryAssumption
<1>3. JoinedSoFar'
  BY <1>1, <1>2 DEF PlacesInv, JoinedSoFar
<1>4. QED
  BY <1>1, <1>3 DEF PlacesInv

\* The steps of main keep the invariant of the threads: the structs are freed
\* after the last join.
LEMMA MainPlaces ==
  ASSUME TypeOK, ThreadTypeOK, PlacesInv, Main
  PROVE  ThreadTypeOK' /\ PlacesInv'
<1>0. i \in Workers /\ i \in Threads /\ Workers \subseteq Threads /\ N \in Nat
  BY FactoryAssumption DEF TypeOK
<1> USE DEF PlacesInv, JoinedSoFar
<1>1. CASE Allocate
  BY <1>0, <1>1, FactoryAssumption DEF Allocate, ThreadTypeOK, ThreadPlaces
<1>2. CASE InitFails \/ Broadcast \/ Terminate
  <2>1. UNCHANGED threadVars /\ mpc' # "free"
    BY <1>2 DEF InitFails, Broadcast, Terminate
  <2>2. mpc' \in {"broadcast", "join"} => i' = 1
    BY <1>2 DEF InitFails, Broadcast, Terminate
  <2>3. QED
    BY <2>1, <2>2 DEF threadVars, ThreadTypeOK, ThreadPlaces, Workers
<1>3. CASE InitWorker
  <2>1. Operation(i) /\ mpc' \in {"up", "init"}
    BY <1>3 DEF InitWorker, Operation
  <2>2. QED
    BY <1>0, <2>1, OperationKeeps
<1>4. CASE JoinWorker
  <2>1. /\ ThreadTypeOK' /\ ThreadPlaces' /\ structs' = structs
        /\ \A u \in Threads \ {i} : place'[u] = place[u]
        /\ place'[i] \in {"joined", "failed"}
    <3>1. CASE Join(i)
      <4>1. place'[i] = "joined"
        BY <1>0, <3>1 DEF Join, Goto, ThreadTypeOK
      <4>2. QED
        BY <1>0, <3>1, <4>1, OperationKeeps DEF Operation
    <3>2. CASE place[i] = "failed" /\ UNCHANGED threadVars
      BY <3>2 DEF threadVars, ThreadTypeOK, ThreadPlaces
    <3>3. QED
      BY <1>4, <3>1, <3>2 DEF JoinWorker
  <2>2. /\ mpc = "join" /\ i' = IF i = N THEN 1 ELSE i + 1
        /\ mpc' = IF i = N THEN "free" ELSE "join"
    BY <1>4 DEF JoinWorker
  <2>3. \A w \in Workers : w <= i => place'[w] \in {"joined", "failed"}
    BY <1>0, <2>1, <2>2 DEF Workers
  <2>4. JoinedSoFar'
    BY <1>0, <2>1, <2>2, <2>3 DEF Workers
  <2>5. QED
    BY <2>1, <2>4
<1>5. CASE FreeWorkers
  <2>1. /\ UNCHANGED <<status, ret, data, tls, place, got, returned>>
        /\ structs' = structs \ Workers /\ mpc = "free" /\ mpc' = "destroyed"
    BY <1>5 DEF FreeWorkers
  <2>2. \A t \in Threads : place[t] \in Alive => t \in structs'
    BY <2>1 DEF Alive, ThreadPlaces
  <2>3. ThreadPlaces' /\ ThreadTypeOK'
    BY <2>1, <2>2 DEF ThreadPlaces, ThreadTypeOK
  <2>4. QED
    BY <2>1, <2>3, FactoryAssumption
<1>6. QED
  BY <1>1, <1>2, <1>3, <1>4, <1>5 DEF Main

\* Every step keeps the invariant of the threads.
LEMMA PlacesStep ==
  ASSUME TypeOK, ThreadTypeOK, PlacesInv, [Next]_vars
  PROVE  ThreadTypeOK' /\ PlacesInv'
<1>1. CASE UNCHANGED <<threadVars, mpc, i>>
  BY <1>1 DEF threadVars, PlacesInv, JoinedSoFar, ThreadPlaces, ThreadTypeOK
<1>2. CASE Main
  BY <1>2, MainPlaces
<1>3. ASSUME NEW w \in Workers, WorkerSteps(w) \/ SpuriousWake(w)
      PROVE  ThreadTypeOK' /\ PlacesInv'
  <2>1. w \in Threads /\ UNCHANGED <<mpc, i>>
    BY <1>3, FactoryAssumption
       DEF WorkerSteps, Around, Wait, Take, Test, Run, FreeJob, SpuriousWake
  <2>2. UNCHANGED threadVars \/ (Operation(w) /\ place[w] \notin {"joined", "failed"})
    BY <1>3 DEF WorkerSteps, Around, Wait, Take, Test, Run, FreeJob, SpuriousWake,
       Operation, ThreadSteps, Start, ClearTls, FreeData, ExitEnds, Working, Result
  <2>3. QED
    BY <1>1, <2>1, <2>2, OperationStep
<1>4. ASSUME NEW p \in Producers, ProducerSteps(p)
      PROVE  ThreadTypeOK' /\ PlacesInv'
  <2>1. p \in Threads /\ UNCHANGED <<mpc, i>>
    BY <1>4, FactoryAssumption
       DEF ProducerSteps, InitProducer, Around, ProducerReturns, JoinProducer, AddJob
  <2>2. UNCHANGED threadVars \/ (Operation(p) /\ place[p] \notin {"joined", "failed"})
    BY <1>4 DEF ProducerSteps, InitProducer, Around, ProducerReturns, JoinProducer,
       AddJob, Operation, ThreadSteps, Start, ClearTls, FreeData, ExitEnds,
       ThreadInit, Join, Return, Exit
  <2>3. QED
    BY <1>1, <2>1, <2>2, OperationStep
<1>5. QED
  BY <1>1, <1>2, <1>3, <1>4 DEF Next, vars

\* What holds initially.
LEMMA InitPlaces == Init => TypeOK /\ ThreadTypeOK /\ PlacesInv
<1> SUFFICES ASSUME Init PROVE TypeOK /\ ThreadTypeOK /\ PlacesInv
  OBVIOUS
<1>1. heard \in BOOLEAN /\ fault \in BOOLEAN
  BY Zenon DEF Init
<1>2. jobs \in Pointer /\ queue \in Seq(Job) /\ missed \in Nat /\ heap \subseteq Job
  BY FactoryAssumption DEF Init, Pointer
<1>3. TypeOK
  BY <1>1, <1>2, FactoryAssumption DEF Init, TypeOK, Pointer, WorkerStatus, Workers
<1>4. ThreadTypeOK /\ PlacesInv
  BY FactoryAssumption DEF Init, ThreadsInit, ThreadTypeOK, PlacesInv, ThreadPlaces,
     JoinedSoFar, Alive, Status, Data, Result
<1>5. QED
  BY <1>3, <1>4

\* The fields of the factory keep their types.
THEOREM TypeCorrect == Spec => []TypeOK
<1>1. Init => TypeOK
  BY InitPlaces
<1>2. QED
  BY <1>1, TypeStep, PTL DEF Spec

\* Init, the wrapper, exit and join keep what a thread uses and deliver its result,
\* whatever the procedures of the threads do and however many there are.
THEOREM ThreadsKeepTheirPromise == Spec => []ThreadInv
<1>1. TypeOK /\ ThreadTypeOK /\ PlacesInv /\ [Next]_vars
        => TypeOK' /\ ThreadTypeOK' /\ PlacesInv'
  BY TypeStep, PlacesStep
<1>2. ThreadTypeOK /\ PlacesInv => ThreadInv
  BY DEF PlacesInv, ThreadPlaces, ThreadInv, JoinGetsResult, ThreadMemory, Alive
<1>3. QED
  BY <1>1, <1>2, InitPlaces, PTL DEF Spec

-----------------------------------------------------------------------------
(***************************************************************************)
(* The list and its jobs.                                                  *)
(***************************************************************************)

\* The jobs on the list are valid, and the head is the first of the queue.
LEMMA QueueHead ==
  ASSUME TypeOK, ListInv, ~fault
  PROVE  /\ DOMAIN queue = 1 .. Len(queue) /\ Len(queue) \in Nat
         /\ \A k \in 1 .. Len(queue) : queue[k] \in Job
         /\ jobs = NULL => Len(queue) = 0
         /\ jobs # NULL => jobs \in Job /\ Len(queue) > 0 /\ jobs = queue[1]
  BY FactoryAssumption DEF TypeOK, ListInv, ListIsQueue, Pointer

\* PUSH keeps the list: the links of the old list are untouched, although the
\* prev of the old head is not the new one.
LEMMA PushKeeps ==
  ASSUME TypeOK, ListInv, ~fault, NEW j \in Job, j \notin heap, ran[j] = 0,
         jobs # NULL, Push(j), queue' = <<j>> \o queue, heap' = heap \cup {j},
         UNCHANGED <<job, ran, fault>>,
         \A w \in Workers : wpc'[w] = wpc[w]
                              \/ (wpc[w] = "waiting" /\ wpc'[w] = "woken")
  PROVE  ListInv'
<1>1. /\ DOMAIN queue = 1 .. Len(queue) /\ Len(queue) \in Nat /\ Len(queue) > 0
      /\ \A k \in 1 .. Len(queue) : queue[k] \in Job
      /\ jobs \in Job /\ jobs = queue[1] /\ queue \in Seq(Job)
  BY QueueHead DEF TypeOK
<1>2. /\ queue' \in Seq(Job) /\ Len(queue') = Len(queue) + 1 /\ queue'[1] = j
      /\ \A k \in 1 .. Len(queue) : queue'[k + 1] = queue[k]
      /\ DOMAIN (queue') = 1 .. (Len(queue) + 1)
  BY <1>1
<1>3. \A k \in 2 .. (Len(queue) + 1) :
        k - 1 \in 1 .. Len(queue) /\ queue'[k] = queue[k - 1]
  BY <1>1, <1>2
<1>4. \A k \in 1 .. Len(queue) : queue[k] # j /\ queue[k] \in heap
  BY DEF ListInv, JobsHeld
<1>5. /\ jobs' = j /\ next'[j] = jobs /\ prev'[j] = NULL
      /\ \A k \in Job \ {j} : next'[k] = next[k]
  BY <1>1, <1>4 DEF Push, TypeOK
<1>6. ListIsQueue'
  <2>1. queue' # <<>> /\ Head(queue') = j
    BY <1>2
  <2>2. ASSUME NEW k \in 1 .. (Len(queue) + 1)
        PROVE  next'[queue'[k]] = IF k < Len(queue') THEN queue'[k + 1] ELSE NULL
    <3>1. CASE k = 1
      BY <1>1, <1>2, <1>5, <3>1
    <3>2. CASE k # 1
      <4>1. /\ k - 1 \in 1 .. Len(queue) /\ queue'[k] = queue[k - 1]
            /\ next[queue[k - 1]] = IF k - 1 < Len(queue) THEN queue[k] ELSE NULL
        BY <1>1, <1>3, <3>2 DEF ListInv, ListIsQueue
      <4>2. k < Len(queue') => queue'[k + 1] = queue[k]
        BY <1>1, <1>2
      <4>3. next'[queue'[k]] = next[queue[k - 1]]
        BY <1>1, <1>4, <1>5, <4>1
      <4>4. QED
        BY <1>1, <1>2, <4>1, <4>2, <4>3
    <3>3. QED
      BY <3>1, <3>2
  <2>3. QED
    BY <1>2, <1>5, <2>1, <2>2 DEF ListIsQueue
<1>7. JobsRunOnce'
  BY <1>2, <1>3 DEF ListInv, JobsRunOnce
<1>8. JobsHeld'
  <2>1. \A k \in 1 .. Len(queue') : queue'[k] \in heap' /\ ran'[queue'[k]] = 0
    BY <1>1, <1>2, <1>3 DEF ListInv, JobsHeld
  <2>2. \A k, l \in 1 .. Len(queue') : queue'[k] = queue'[l] => k = l
    <3> SUFFICES ASSUME NEW k \in 1 .. Len(queue'), NEW l \in 1 .. Len(queue'),
                        queue'[k] = queue'[l]
                 PROVE  k = l
      OBVIOUS
    <3>1. CASE k = 1 \/ l = 1
      BY <1>1, <1>2, <1>3, <1>4, <3>1
    <3>2. CASE k # 1 /\ l # 1
      <4>1. k - 1 = l - 1
        BY <1>1, <1>2, <1>3, <3>2 DEF ListInv, JobsHeld
      <4>2. QED
        BY <1>1, <1>2, <4>1
    <3>3. QED
      BY <3>1, <3>2
  <2>3. QED
    BY <2>1, <2>2 DEF ListInv, JobsHeld
<1>9. QED
  BY <1>6, <1>7, <1>8 DEF ListInv

\* POP of the head gives the job to the worker, and what is left is the rest of the
\* queue: the head has no prev, so that POP changes no link but the next head's.
LEMMA TakeKeeps ==
  ASSUME TypeOK, ListInv, ~fault, NEW w \in Workers, Take(w)
  PROVE  ListInv'
<1>1. /\ DOMAIN queue = 1 .. Len(queue) /\ Len(queue) \in Nat
      /\ \A k \in 1 .. Len(queue) : queue[k] \in Job
      /\ queue \in Seq(Job)
  BY QueueHead DEF TypeOK
<1>2. /\ job[w] = NULL /\ job' = [job EXCEPT ![w] = jobs] /\ job'[w] = jobs
      /\ \A v \in Workers \ {w} : job'[v] = job[v] /\ wpc'[v] = wpc[v]
      /\ wpc'[w] = "test"
      /\ UNCHANGED <<heap, ran, fault>>
  BY DEF Take, Working, ListInv, JobsHeld, TypeOK
<1>3. CASE jobs = NULL
  <2>1. UNCHANGED <<jobs, prev, next, queue>>
    BY <1>3 DEF Take
  <2>2. QED
    BY <1>2, <1>3, <2>1 DEF ListInv, ListIsQueue, JobsRunOnce, JobsHeld
<1>4. CASE jobs # NULL
  <2>1. /\ jobs \in Job /\ Len(queue) > 0 /\ jobs = queue[1] /\ prev[jobs] = NULL
        /\ Pop(jobs) /\ queue' = SubSeq(queue, 2, Len(queue)) /\ queue # <<>>
    <3>1. jobs \in Job /\ Len(queue) > 0 /\ jobs = queue[1]
      BY <1>4, QueueHead
    <3>2. queue # <<>>
      BY <3>1
    <3>3. QED
      BY <1>4, <3>1, <3>2 DEF Take, ListInv, ListIsQueue
  <2>2. /\ queue' \in Seq(Job) /\ Len(queue') = Len(queue) - 1
        /\ \A k \in 1 .. (Len(queue) - 1) : queue'[k] = queue[k + 1]
        /\ DOMAIN (queue') = 1 .. (Len(queue) - 1)
    BY <1>1, <2>1
  <2>3. \A k \in 1 .. (Len(queue) - 1) : k + 1 \in 1 .. Len(queue) /\ queue'[k] # jobs
    BY <1>1, <2>1, <2>2 DEF ListInv, JobsHeld
  <2>4. /\ \A k \in Job \ {jobs} : next'[k] = next[k]
        /\ jobs' = next[jobs] /\ (next[jobs] \in Job \ {jobs} => prev'[next[jobs]] = NULL)
    BY <2>1, FactoryAssumption DEF Pop
  <2>5. next[jobs] = IF 1 < Len(queue) THEN queue[2] ELSE NULL
    BY <1>1, <2>1 DEF ListInv, ListIsQueue
  <2>6. ListIsQueue'
    <3>0. /\ 1 < Len(queue) => queue' # <<>> /\ Head(queue') = queue[2]
          /\ ~(1 < Len(queue)) => queue' = <<>>
      <4>1. CASE 1 < Len(queue)
        <5>1. 1 \in 1 .. (Len(queue) - 1) /\ Len(queue') > 0
          BY <1>1, <2>2, <4>1
        <5>2. queue'[1] = queue[1 + 1] /\ queue' # <<>>
          BY <2>2, <5>1
        <5>3. Head(queue') = queue'[1]
          BY <2>2, <5>2
        <5>4. QED
          BY <4>1, <5>2, <5>3
      <4>2. CASE ~(1 < Len(queue))
        <5>1. Len(queue') = 0
          BY <1>1, <2>1, <2>2, <4>2
        <5>2. QED
          BY <2>2, <4>2, <5>1
      <4>3. QED
        BY <4>1, <4>2
    <3>1. jobs' = IF queue' = <<>> THEN NULL ELSE Head(queue')
      BY <2>4, <2>5, <3>0
    <3>2. queue' # <<>> => prev'[jobs'] = NULL
      <4> SUFFICES ASSUME queue' # <<>> PROVE prev'[jobs'] = NULL
        OBVIOUS
      <4>1. 1 < Len(queue)
        BY <3>0
      <4>2. queue[2] \in Job /\ queue[2] # queue[1]
        BY <1>1, <4>1 DEF ListInv, JobsHeld
      <4>3. QED
        BY <2>1, <2>4, <2>5, <4>1, <4>2
    <3>3. ASSUME NEW k \in 1 .. (Len(queue) - 1)
          PROVE  next'[queue'[k]] = IF k < Len(queue') THEN queue'[k + 1] ELSE NULL
      <4>1. /\ k + 1 \in 1 .. Len(queue) /\ queue'[k] = queue[k + 1]
            /\ next[queue[k + 1]] = IF k + 1 < Len(queue) THEN queue[k + 2] ELSE NULL
        BY <1>1, <2>2, <2>3 DEF ListInv, ListIsQueue
      <4>2. next'[queue'[k]] = next[queue[k + 1]]
        BY <1>1, <2>3, <2>4, <4>1
      <4>3. k < Len(queue') => queue'[k + 1] = queue[k + 2]
        BY <1>1, <2>2
      <4>4. QED
        BY <1>1, <2>2, <4>1, <4>2, <4>3
    <3>4. QED
      BY <2>2, <3>1, <3>2, <3>3 DEF ListIsQueue
  <2>7. JobsRunOnce'
    <3>0. 1 \in 1 .. Len(queue)
      BY <1>1, <2>1
    <3>1. jobs \in heap /\ \A v \in Workers \ {w} : job[v] # jobs
      BY <1>1, <1>4, <2>1, <3>0 DEF ListInv, JobsRunOnce, JobsHeld
    <3>2. \A v \in Workers \ {w} : job[v] # NULL =>
             \A k \in DOMAIN (queue') : queue'[k] # job[v]
      BY <1>1, <2>2, <2>3 DEF ListInv, JobsRunOnce
    <3>3. \A k \in DOMAIN (queue') : queue'[k] # jobs
      BY <2>2, <2>3
    <3>4. QED
      BY <1>2, <3>1, <3>2, <3>3 DEF ListInv, JobsRunOnce
  <2>8. JobsHeld'
    <3>1. ran[jobs] = 0
      BY <1>1, <2>1 DEF ListInv, JobsHeld
    <3>2. \A k \in 1 .. Len(queue') : queue'[k] \in heap' /\ ran'[queue'[k]] = 0
      BY <1>1, <1>2, <2>2, <2>3 DEF ListInv, JobsHeld
    <3>3. \A k, l \in 1 .. Len(queue') : queue'[k] = queue'[l] => k = l
      <4> SUFFICES ASSUME NEW k \in 1 .. Len(queue'), NEW l \in 1 .. Len(queue'),
                          queue'[k] = queue'[l]
                   PROVE  k = l
        OBVIOUS
      <4>1. k + 1 = l + 1
        BY <1>1, <2>2, <2>3 DEF ListInv, JobsHeld
      <4>2. QED
        BY <1>1, <2>2, <4>1
    <3>4. QED
      BY <1>2, <3>1, <3>2, <3>3 DEF ListInv, JobsHeld
  <2>9. QED
    BY <2>6, <2>7, <2>8 DEF ListInv
<1>5. QED
  BY <1>3, <1>4

\* The other steps of a worker keep the list and its jobs.
LEMMA WorkerKeepsList ==
  ASSUME TypeOK, ListInv, ~fault, NEW w \in Workers,
         WorkerSteps(w) \/ SpuriousWake(w)
  PROVE  ListInv'
<1>0. /\ DOMAIN queue = 1 .. Len(queue)
      /\ \A k \in 1 .. Len(queue) : queue[k] \in Job
      /\ job[w] # NULL => \A k \in 1 .. Len(queue) : queue[k] # job[w]
  BY QueueHead DEF ListInv, JobsRunOnce
<1> USE DEF ListInv, ListIsQueue, JobsRunOnce, JobsHeld, listVars, Working
<1>1. CASE Around(w)
  BY <1>1 DEF Around
<1>2. CASE Wait(w)
  BY <1>2 DEF Wait, TypeOK
<1>3. CASE Take(w)
  BY <1>3, TakeKeeps
<1>4. CASE Test(w)
  BY <1>4 DEF Test, TypeOK
<1>5. CASE Run(w)
  <2>1. /\ job[w] \in Job /\ ran[job[w]] = 0
        /\ \A j \in Job \ {job[w]} : ran'[j] = ran[j]
        /\ ran'[job[w]] = 1 /\ wpc'[w] = "free"
        /\ \A v \in Workers \ {w} : wpc'[v] = wpc[v]
        /\ UNCHANGED <<jobs, prev, next, heap, queue, job, fault>>
        /\ job[w] # NULL
    BY <1>5 DEF Run, TypeOK, Pointer
  <2>2. \A k \in 1 .. Len(queue) : queue[k] \in Job /\ queue[k] # job[w]
    BY <1>0, <2>1
  <2>3. \A v \in Workers \ {w} : job[v] # NULL => job[v] \in Job \ {job[w]}
    BY <2>1 DEF TypeOK, Pointer
  <2>4. ListIsQueue'
    BY <2>1
  <2>5. JobsRunOnce'
    <3>1. \A j \in Job : ran'[j] <= 1
      BY <2>1
    <3>2. QED
      BY <2>1, <3>1
  <2>6. JobsHeld'
    <3>1. \A k \in 1 .. Len(queue) : ran'[queue[k]] = 0
      BY <2>1, <2>2
    <3>2. \A v \in Workers \ {w} : job[v] # NULL => ran'[job[v]] = ran[job[v]]
      BY <2>1, <2>3
    <3>3. QED
      BY <2>1, <3>1, <3>2
  <2>7. QED
    BY <2>4, <2>5, <2>6
<1>6. CASE FreeJob(w)
  <2>1. /\ job[w] \in Job /\ heap' = heap \ {job[w]}
        /\ job'[w] = NULL /\ wpc'[w] = "loop"
        /\ \A v \in Workers \ {w} : wpc'[v] = wpc[v] /\ job'[v] = job[v]
        /\ UNCHANGED <<jobs, prev, next, queue, ran, fault>>
        /\ job[w] # NULL
    BY <1>6 DEF FreeJob, TypeOK, Pointer
  <2>2. \A k \in 1 .. Len(queue) : queue[k] # job[w]
    BY <1>0, <2>1
  <2>3. ListIsQueue'
    BY <2>1
  <2>4. JobsRunOnce'
    BY <2>1
  <2>5. JobsHeld'
    BY <2>1, <2>2
  <2>6. QED
    BY <2>3, <2>4, <2>5
<1>7. CASE SpuriousWake(w)
  BY <1>7 DEF SpuriousWake, TypeOK
<1>8. QED
  BY <1>1, <1>2, <1>3, <1>4, <1>5, <1>6, <1>7 DEF WorkerSteps

\* The steps of a producer keep them: add_job puts a new job in front, unless the
\* list is empty and PUSH crashes.
LEMMA ProducerKeepsList ==
  ASSUME TypeOK, ListInv, ~fault, NEW p \in Producers, ProducerSteps(p)
  PROVE  ListInv'
<1>1. ASSUME UNCHANGED <<jobs, prev, next, heap, queue, wpc, job, ran, fault>>
      PROVE  ListInv'
  BY <1>1 DEF ListInv, ListIsQueue, JobsRunOnce, JobsHeld
<1>2. ASSUME NEW j \in Job, AddJob(p, j) PROVE ListInv'
  <2>1. CASE jobs = NULL
    <3>1. /\ fault' /\ heap' = heap \cup {j}
          /\ UNCHANGED <<queue, wpc, job, ran>>
      BY <1>2, <2>1 DEF AddJob
    <3>2. QED
      BY <3>1 DEF ListInv, ListIsQueue, JobsRunOnce, JobsHeld
  <2>2. CASE jobs # NULL
    <3>1. \A w \in Workers : wpc'[w] = wpc[w]
                               \/ (wpc[w] = "waiting" /\ wpc'[w] = "woken")
      BY <1>2, <2>2 DEF AddJob, Signal, Waiting, TypeOK
    <3>2. QED
      BY <1>2, <2>2, <3>1, PushKeeps DEF AddJob
  <2>3. QED
    BY <2>1, <2>2
<1>3. QED
  BY <1>1, <1>2 DEF ProducerSteps, InitProducer, Around, ProducerReturns,
     JoinProducer, listVars

\* The steps of main keep them: the broadcast drops the list.
LEMMA MainKeepsList ==
  ASSUME TypeOK, ListInv, ~fault, Main
  PROVE  ListInv'
<1> USE DEF ListInv, ListIsQueue, JobsRunOnce, JobsHeld
<1>1. CASE Broadcast
  <2>1. /\ jobs' = NULL /\ queue' = <<>> /\ Len(queue') = 0 /\ DOMAIN (queue') = {}
        /\ \A w \in Workers : wpc'[w] = IF wpc[w] = "waiting" THEN "woken" ELSE wpc[w]
        /\ UNCHANGED <<heap, job, ran>>
    BY <1>1 DEF Broadcast
  <2>2. QED
    BY <2>1
<1>2. CASE JoinWorker
  BY <1>2 DEF JoinWorker, listVars
<1>3. CASE ~Broadcast /\ ~JoinWorker
  <2>1. UNCHANGED <<listVars, wpc, job, ran, fault>>
    BY <1>3 DEF Main, Allocate, InitFails, InitWorker, Terminate, FreeWorkers
  <2>2. QED
    BY <2>1 DEF listVars
<1>4. QED
  BY <1>1, <1>2, <1>3

\* Every step keeps the list and its jobs.
LEMMA ListStep == TypeOK /\ ListInv /\ [Next]_vars => ListInv'
<1> SUFFICES ASSUME TypeOK, ListInv, [Next]_vars PROVE ListInv'
  OBVIOUS
<1>1. CASE UNCHANGED vars
  BY <1>1 DEF vars, listVars, ListInv, ListIsQueue, JobsRunOnce, JobsHeld
<1>2. QED
  BY <1>1, MainKeepsList, WorkerKeepsList, ProducerKeepsList DEF Next

\* The list that the application leaves, of one job or none, satisfies it.
LEMMA InitList == Init => ListInv
<1> SUFFICES ASSUME Init PROVE ListInv
  OBVIOUS
<1>1. CASE jobs = NULL
  <2>1. queue = <<>> /\ Len(queue) = 0 /\ DOMAIN queue = {}
    BY <1>1 DEF Init
  <2>2. QED
    BY <1>1, <2>1 DEF Init, ListInv, ListIsQueue, JobsRunOnce, JobsHeld
<1>2. CASE jobs # NULL
  <2>1. /\ jobs = First /\ queue = <<jobs>> /\ heap = {jobs} /\ jobs \in Job
        /\ Len(queue) = 1 /\ DOMAIN queue = {1} /\ queue[1] = jobs
        /\ queue # <<>> /\ Head(queue) = jobs
    BY <1>2, FactoryAssumption DEF Init
  <2>2. ListIsQueue
    BY <2>1 DEF Init, ListIsQueue
  <2>3. JobsRunOnce /\ JobsHeld
    BY <2>1 DEF Init, JobsRunOnce, JobsHeld
  <2>4. QED
    BY <2>2, <2>3 DEF ListInv
<1>3. QED
  BY <1>1, <1>2

\* The inductive invariant of the list holds in every state.
LEMMA ListInvariant == Spec => [](TypeOK /\ ListInv)
<1>1. Init => TypeOK /\ ListInv
  BY InitPlaces, InitList
<1>2. TypeOK /\ ListInv /\ [Next]_vars => (TypeOK /\ ListInv)'
  BY TypeStep, ListStep
<1>3. QED
  BY <1>1, <1>2, PTL DEF Spec

\* Until PUSH or a join crashes, the links from factory->jobs lead through the jobs
\* that were added and not taken, in order, and the head has no prev.
THEOREM ListIsTheQueue == Spec => []ListIsQueue
<1>1. ListInv => ListIsQueue
  BY DEF ListInv
<1>2. QED
  BY <1>1, ListInvariant, PTL

\* A job is run at most once, by the one worker that holds it, while it is
\* allocated and no longer on the list.
THEOREM EachJobRunOnce == Spec => []JobsRunOnce
<1>1. ListInv => JobsRunOnce
  BY DEF ListInv
<1>2. QED
  BY <1>1, ListInvariant, PTL
=============================================================================
