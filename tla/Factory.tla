------------------------------ MODULE Factory -------------------------------
(***************************************************************************)
(* The factory (src/excom/factory.c): a pool of workers that take jobs off *)
(* a linked list.  The workers, and the application's threads that add     *)
(* jobs, are threads of module Thread; main initialises and destroys the   *)
(* factory.                                                                *)
(*                                                                         *)
(* job.mutex guards every access to the list and to the condition, and no  *)
(* one blocks while holding it: from a lock to the next unlock or wait is  *)
(* one step.  The status of a worker is read and written without it.       *)
(***************************************************************************)
EXTENDS Naturals, Sequences, Thread

CONSTANTS N,          \* factory->num
          Producers,  \* the threads that add jobs
          Job,        \* the jobs that malloc may return, each once
          First       \* the job an application may have put on the list itself

Workers == 1 .. N

ASSUME FactoryAssumption ==
  /\ N \in Nat \ {0} /\ Workers \cap Producers = {}
  /\ Threads = Workers \cup Producers
  /\ First \in Job /\ NULL \notin Job

VARIABLES jobs,         \* factory->jobs
          prev, next,   \* the links of a job
          heap,         \* the jobs that are allocated
          worker,       \* worker->status
          wpc, job,     \* place of a worker, and its local job
          mpc, i,       \* place of main, and its loop counter
          ran,          \* history: how often each job has been run
          queue,        \* history: the jobs added and not taken, first one first
          missed,       \* history: jobs added while no worker was waiting
          heard,        \* history: the broadcast of destroy reached all workers
          fault         \* a NULL or invalid pointer was followed

listVars == <<jobs, prev, next, heap, queue, missed>>
vars == <<threadVars, listVars, worker, wpc, job, mpc, i, ran, heard, fault>>

\* The links of a job, and the status of a worker.
Pointer == Job \cup {NULL}
WorkerStatus == {"undefined", "WORK", "FAIL", "TERM"}

Waiting == {w \in Workers : wpc[w] = "waiting"}

\* excom_factory_init sets everything but jobs, which is what the application
\* has left there: NULL, or the first job of a list.
Init ==
  /\ ThreadsInit /\ structs = Producers
  /\ jobs \in {NULL, First}
  /\ prev = [j \in Job |-> NULL] /\ next = [j \in Job |-> NULL]
  /\ heap = {jobs} \ {NULL}
  /\ queue = IF jobs = NULL THEN <<>> ELSE <<jobs>>
  /\ missed = Len(queue)
  /\ worker = [w \in Workers |-> "undefined"]
  /\ wpc = [w \in Workers |-> "loop"] /\ job = [w \in Workers |-> NULL]
  /\ mpc = "start" /\ i = 1
  /\ ran = [j \in Job |-> 0] /\ heard = FALSE /\ fault = FALSE

-----------------------------------------------------------------------------
(***************************************************************************)
(* excom_factory_init.                                                     *)
(***************************************************************************)

\* The workers' structs are allocated in one block.
Allocate ==
  /\ mpc = "start"
  /\ structs' = structs \cup Workers
  /\ mpc' = "init"
  /\ UNCHANGED <<status, ret, data, tls, place, got, returned, listVars,
                 worker, wpc, job, i, ran, heard, fault>>

\* An errno that an earlier call has left, or a malloc that fails.
InitFails ==
  /\ mpc = "start"
  /\ mpc' = "failed"
  /\ UNCHANGED <<threadVars, listVars, worker, wpc, job, i, ran, heard, fault>>

\* Mutant: the counter goes past the last worker.
MutInitWorker ==
  /\ mpc = "init"
  /\ ThreadInit(i)
  /\ worker' = [worker EXCEPT ![i] = "WORK"]
  /\ i' = i + 1
  /\ mpc' = IF i = N THEN "up" ELSE "init"
  /\ UNCHANGED <<listVars, wpc, job, ran, heard, fault>>

\* Each worker in turn; a thread that cannot be created is a worker that failed.
InitWorker ==
  /\ mpc = "init"
  /\ \/ /\ ThreadInit(i)
        /\ worker' = [worker EXCEPT ![i] = "WORK"]
     \/ /\ ThreadInitFails(i)
        /\ worker' = [worker EXCEPT ![i] = "FAIL"]
  /\ i' = IF i = N THEN 1 ELSE i + 1
  /\ mpc' = IF i = N THEN "up" ELSE "init"
  /\ UNCHANGED <<listVars, wpc, job, ran, heard, fault>>

-----------------------------------------------------------------------------
(***************************************************************************)
(* The application: threads that add jobs.                                 *)
(***************************************************************************)

InitProducer(p) ==
  /\ mpc = "up"
  /\ ThreadInit(p)
  /\ UNCHANGED <<listVars, worker, wpc, job, mpc, i, ran, heard, fault>>

\* Mutant: the old head keeps no link from the new one.
MutPush(j) ==
  /\ prev' = [[prev EXCEPT ![j] = NULL] EXCEPT ![jobs] = jobs]
  /\ next' = [next EXCEPT ![j] = NULL]
  /\ jobs' = j

\* PUSH: the job becomes the head.  The old head's prev is set to the old head.
Push(j) ==
  /\ prev' = [[prev EXCEPT ![j] = NULL] EXCEPT ![jobs] = jobs]
  /\ next' = [next EXCEPT ![j] = jobs]
  /\ jobs' = j

\* Mutant: no worker is woken.
MutSignal == UNCHANGED <<wpc, missed>>

\* excom_cond_signal wakes a worker, if one is waiting.
Signal ==
  \/ /\ Waiting = {} /\ missed' = missed + 1
     /\ UNCHANGED wpc
  \/ /\ \E w \in Waiting : wpc' = [wpc EXCEPT ![w] = "woken"]
     /\ UNCHANGED missed

\* excom_factory_add_job.  PUSH follows the pointer to the old head, which must
\* not be NULL.
AddJob(p, j) ==
  /\ p \in Producers /\ place[p] = "running"
  /\ j \notin heap /\ ran[j] = 0
  /\ heap' = heap \cup {j}
  /\ IF jobs = NULL
       THEN fault' = TRUE /\ UNCHANGED <<jobs, prev, next, queue, missed, wpc>>
       ELSE /\ Push(j)
            /\ queue' = <<j>> \o queue
            /\ Signal
            /\ UNCHANGED fault
  /\ UNCHANGED <<threadVars, worker, job, mpc, i, ran, heard>>

\* The procedure returns, or calls excom_thread_exit.
ProducerReturns(p) ==
  /\ p \in Producers
  /\ \E v \in Result : Return(p, v) \/ Exit(p, v)
  /\ UNCHANGED <<listVars, worker, wpc, job, mpc, i, ran, heard, fault>>

JoinProducer(p) ==
  /\ mpc = "up" /\ p \in Producers
  /\ Join(p)
  /\ UNCHANGED <<listVars, worker, wpc, job, mpc, i, ran, heard, fault>>

\* The steps of any thread around its procedure.
Around(t) ==
  /\ ThreadSteps(t)
  /\ UNCHANGED <<listVars, worker, wpc, job, mpc, i, ran, heard, fault>>

-----------------------------------------------------------------------------
(***************************************************************************)
(* excom_factory_work.                                                     *)
(***************************************************************************)

Working(w, p) == w \in Workers /\ place[w] = "running" /\ wpc[w] = p

\* The worker locks and waits, without a look at the list.
Wait(w) ==
  /\ Working(w, "loop")
  /\ wpc' = [wpc EXCEPT ![w] = "waiting"]
  /\ UNCHANGED <<threadVars, listVars, worker, job, mpc, i, ran, heard, fault>>

\* A condition may wake a thread that nobody signalled.
SpuriousWake(w) ==
  /\ Working(w, "waiting")
  /\ wpc' = [wpc EXCEPT ![w] = "woken"]
  /\ UNCHANGED <<threadVars, listVars, worker, job, mpc, i, ran, heard, fault>>

\* Mutant: the head of the list stays.
MutPop(j) ==
  /\ next' = [next EXCEPT ![j] = NULL]
  /\ prev' = [prev EXCEPT ![j] = NULL]
  /\ UNCHANGED jobs

\* POP: the neighbours are linked to each other, and the head moves on.
Pop(j) ==
  /\ next' = [k \in Job |-> CASE k = j       -> NULL
                              [] k = prev[j] -> next[j]
                              [] OTHER       -> next[k]]
  /\ prev' = [k \in Job |-> CASE k = j       -> NULL
                              [] k = next[j] -> prev[j]
                              [] OTHER       -> prev[k]]
  /\ jobs' = IF jobs = j THEN next[j] ELSE jobs

\* The woken worker has the mutex again and takes the first job, if there is one.
Take(w) ==
  /\ Working(w, "woken")
  /\ job' = [job EXCEPT ![w] = jobs]
  /\ IF jobs = NULL
       THEN UNCHANGED <<jobs, prev, next, queue>>
       ELSE Pop(jobs) /\ queue' = SubSeq(queue, 2, Len(queue))
  /\ wpc' = [wpc EXCEPT ![w] = "test"]
  /\ UNCHANGED <<threadVars, heap, missed, worker, mpc, i, ran, heard, fault>>

\* Mutant: the worker goes on when it should terminate.
MutTest(w) ==
  /\ Working(w, "test")
  /\ wpc' = [wpc EXCEPT ![w] = IF job[w] = NULL THEN "loop" ELSE "run"]
  /\ UNCHANGED <<threadVars, listVars, worker, job, mpc, i, ran, heard, fault>>

\* TERM ends the worker, whose job is then dropped; without a job it waits again.
Test(w) ==
  /\ Working(w, "test")
  /\ \/ /\ worker[w] = "TERM"
        /\ Exit(w, NULL) /\ UNCHANGED wpc
     \/ /\ worker[w] # "TERM"
        /\ wpc' = [wpc EXCEPT ![w] = IF job[w] = NULL THEN "loop" ELSE "run"]
        /\ UNCHANGED threadVars
  /\ UNCHANGED <<listVars, worker, job, mpc, i, ran, heard, fault>>

Run(w) ==
  /\ Working(w, "run")
  /\ ran' = [ran EXCEPT ![job[w]] = @ + 1]
  /\ wpc' = [wpc EXCEPT ![w] = "free"]
  /\ UNCHANGED <<threadVars, listVars, worker, job, mpc, i, heard, fault>>

FreeJob(w) ==
  /\ Working(w, "free")
  /\ heap' = heap \ {job[w]}
  /\ job' = [job EXCEPT ![w] = NULL]
  /\ wpc' = [wpc EXCEPT ![w] = "loop"]
  /\ UNCHANGED <<threadVars, jobs, prev, next, queue, missed, worker, mpc, i,
                 ran, heard, fault>>

-----------------------------------------------------------------------------
(***************************************************************************)
(* excom_factory_destroy, once the application's threads have been joined. *)
(***************************************************************************)

\* The statuses are set one by one, without the mutex.
Terminate ==
  /\ \/ mpc = "up" /\ \A p \in Producers : place[p] \in {"none", "joined"}
     \/ mpc = "terminate"
  /\ worker' = [worker EXCEPT ![i] = "TERM"]
  /\ i' = IF i = N THEN 1 ELSE i + 1
  /\ mpc' = IF i = N THEN "broadcast" ELSE "terminate"
  /\ UNCHANGED <<threadVars, listVars, wpc, job, ran, heard, fault>>

\* The list is dropped and whoever waits is woken.
Broadcast ==
  /\ mpc = "broadcast"
  /\ jobs' = NULL /\ queue' = <<>>
  /\ wpc' = [w \in Workers |-> IF wpc[w] = "waiting" THEN "woken" ELSE wpc[w]]
  /\ heard' = \A w \in Workers : wpc[w] \in {"waiting", "woken", "test"}
  /\ mpc' = "join"
  /\ UNCHANGED <<threadVars, prev, next, heap, missed, worker, job, i, ran, fault>>

\* Mutant: a worker that has seen TERM counts as ended.
MutJoinWorker ==
  /\ mpc = "join"
  /\ place[i] \in {"exiting", "gone"}
  /\ i' = IF i = N THEN 1 ELSE i + 1
  /\ mpc' = IF i = N THEN "free" ELSE "join"
  /\ UNCHANGED <<threadVars, listVars, worker, wpc, job, ran, heard, fault>>

\* Every worker is joined, its result, NULL, is not asked for.  One whose thread was
\* never created is joined too: pthread_join then crashes or returns an error.
JoinWorker ==
  /\ mpc = "join"
  /\ \/ Join(i) /\ UNCHANGED fault
     \/ place[i] = "failed" /\ fault' \in BOOLEAN /\ UNCHANGED threadVars
  /\ i' = IF i = N THEN 1 ELSE i + 1
  /\ mpc' = IF i = N THEN "free" ELSE "join"
  /\ UNCHANGED <<listVars, worker, wpc, job, ran, heard>>

FreeWorkers ==
  /\ mpc = "free"
  /\ structs' = structs \ Workers
  /\ mpc' = "destroyed"
  /\ UNCHANGED <<status, ret, data, tls, place, got, returned, listVars,
                 worker, wpc, job, i, ran, heard, fault>>

-----------------------------------------------------------------------------
Main == Allocate \/ InitFails \/ InitWorker \/ Terminate \/ Broadcast
          \/ JoinWorker \/ FreeWorkers

\* What a worker does by itself.
WorkerSteps(w) ==
  Around(w) \/ Wait(w) \/ Take(w) \/ Test(w) \/ Run(w) \/ FreeJob(w)

ProducerSteps(p) ==
  \/ InitProducer(p) \/ Around(p) \/ ProducerReturns(p) \/ JoinProducer(p)
  \/ \E j \in Job : AddJob(p, j)

Next ==
  /\ ~fault
  /\ \/ Main
     \/ \E w \in Workers : WorkerSteps(w) \/ SpuriousWake(w)
     \/ \E p \in Producers : ProducerSteps(p)

Spec == Init /\ [][Next]_vars

\* Every thread keeps running; producers may add as much or as little as they
\* like, and main may keep the factory for ever, but ends a destroy it has begun.
FairSpec ==
  /\ Spec
  /\ \A w \in Workers : WF_vars(~fault /\ WorkerSteps(w))
  /\ WF_vars(~fault /\ (Broadcast \/ JoinWorker \/ FreeWorkers))

-----------------------------------------------------------------------------
(***************************************************************************)
(* Properties.                                                             *)
(***************************************************************************)

\* Every field of the factory, its workers and jobs keeps its type.
TypeOK ==
  /\ jobs \in Pointer
  /\ prev \in [Job -> Pointer] /\ next \in [Job -> Pointer]
  /\ heap \subseteq Job
  /\ worker \in [Workers -> WorkerStatus]
  /\ wpc \in [Workers -> {"loop", "waiting", "woken", "test", "run", "free"}]
  /\ job \in [Workers -> Pointer]
  /\ mpc \in {"start", "failed", "init", "up", "terminate", "broadcast", "join",
              "free", "destroyed"}
  /\ i \in Workers
  /\ ran \in [Job -> Nat] /\ queue \in Seq(Job) /\ missed \in Nat
  /\ heard \in BOOLEAN /\ fault \in BOOLEAN

\* The links from factory->jobs lead through the jobs that were added and not
\* taken, and the head has no prev: the prev that PUSH gets wrong is put right
\* by the POP in front of it, so POP never changes a job that is in use.
ListIsQueue ==
  ~fault =>
  /\ jobs = IF queue = <<>> THEN NULL ELSE Head(queue)
  /\ queue # <<>> => prev[jobs] = NULL
  /\ \A k \in DOMAIN queue :
       next[queue[k]] = IF k < Len(queue) THEN queue[k + 1] ELSE NULL

\* A job is run at most once and by one worker, while it is allocated: it is on
\* the list, or one worker has it, and never both.
JobsRunOnce ==
  /\ \A j \in Job : ran[j] <= 1
  /\ \A w \in Workers :
       job[w] # NULL =>
         /\ job[w] \in heap
         /\ \A k \in DOMAIN queue : queue[k] # job[w]
         /\ \A v \in Workers \ {w} : job[v] # job[w]

\* The signal of add_job goes to one worker, and each woken worker takes a job:
\* jobs in excess of those added while no worker was waiting are taken, unless
\* PUSH crashes.
SignalledJobsTaken == (Len(queue) > missed) ~> (Len(queue) <= missed \/ fault)

\* A destroy that finds every worker waiting, woken or about to look at its
\* status joins them all and ends.
DestroyOfWaitingEnds == heard ~> (mpc = "destroyed")
=============================================================================
