------------------------------- MODULE Thread -------------------------------
(***************************************************************************)
(* Threads (src/excom/thread.c): init, the wrapper around the procedure,   *)
(* exit and join, with the data that thread-local storage refers to.  What *)
(* the procedures do is left to the modules that extend this one.          *)
(***************************************************************************)
CONSTANTS Threads,    \* the excom_thread_t structs
          Value,      \* what procedures return
          NULL

ASSUME NullAssumption == NULL \notin Value

VARIABLES status,     \* thread->status
          ret,        \* thread->ret
          data,       \* the excom_thread_data_t of the thread: "none", "live"
                      \* or "freed"
          tls,        \* the threads whose local_data refers to their data
          place,      \* where the thread is
          got,        \* what join stored in *result
          returned,   \* history: what the procedure returned
          structs     \* the excom_thread_t that are valid memory

threadVars == <<status, ret, data, tls, place, got, returned, structs>>

\* What a procedure returns (excom_thread_proc_t), the status and the local data.
Result == Value \cup {NULL}
Status == {"undefined", "RUNNING", "STOPPED"}
Data == {"none", "live", "freed"}

\* The places at which the pthread exists.
Alive == {"created", "running", "returned", "cleared", "exiting"}

\* After excom_thread_load, which creates the key: no thread has a value for it.
ThreadsInit ==
  /\ status = [t \in Threads |-> "undefined"]
  /\ ret = [t \in Threads |-> NULL]
  /\ data = [t \in Threads |-> "none"]
  /\ tls = {}
  /\ place = [t \in Threads |-> "none"]
  /\ got = [t \in Threads |-> NULL]
  /\ returned = [t \in Threads |-> NULL]

Goto(t, p) == place' = [place EXCEPT ![t] = p]

\* excom_thread_init; the caller provides the struct.
ThreadInit(t) ==
  /\ place[t] = "none" /\ t \in structs
  /\ ret' = [ret EXCEPT ![t] = NULL]
  /\ status' = [status EXCEPT ![t] = "RUNNING"]
  /\ data' = [data EXCEPT ![t] = "live"]
  /\ Goto(t, "created")
  /\ UNCHANGED <<tls, got, returned, structs>>

\* excom_thread_init when pthread_create fails: the data stays allocated.
ThreadInitFails(t) ==
  /\ place[t] = "none" /\ t \in structs
  /\ ret' = [ret EXCEPT ![t] = NULL]
  /\ status' = [status EXCEPT ![t] = "STOPPED"]
  /\ data' = [data EXCEPT ![t] = "live"]
  /\ Goto(t, "failed")
  /\ UNCHANGED <<tls, got, returned, structs>>

\* The thread runs: the wrapper sets the local data and calls the procedure.
Start(t) ==
  /\ place[t] = "created"
  /\ tls' = tls \cup {t}
  /\ Goto(t, "running")
  /\ UNCHANGED <<status, ret, data, got, returned, structs>>

\* The procedure returns, and the wrapper stores the result through the data.
Return(t, v) ==
  /\ place[t] = "running"
  /\ ret' = [ret EXCEPT ![t] = v]
  /\ returned' = [returned EXCEPT ![t] = v]
  /\ Goto(t, "returned")
  /\ UNCHANGED <<status, data, tls, got, structs>>

\* The wrapper clears the local data ...
ClearTls(t) ==
  /\ place[t] = "returned"
  /\ tls' = tls \ {t}
  /\ Goto(t, "cleared")
  /\ UNCHANGED <<status, ret, data, got, returned, structs>>

\* ... frees it, and the thread ends.  status is left as it is.
FreeData(t) ==
  /\ place[t] = "cleared"
  /\ data' = [data EXCEPT ![t] = "freed"]
  /\ Goto(t, "gone")
  /\ UNCHANGED <<status, ret, tls, got, returned, structs>>

\* excom_thread_exit, called by the procedure: the result ...
Exit(t, v) ==
  /\ place[t] = "running"
  /\ returned' = [returned EXCEPT ![t] = v]
  /\ ret' = IF t \in tls THEN [ret EXCEPT ![t] = v] ELSE ret
  /\ Goto(t, "exiting")
  /\ UNCHANGED <<status, data, tls, got, structs>>

\* ... the status, and pthread_exit.
ExitEnds(t) ==
  /\ place[t] = "exiting"
  /\ status' = IF t \in tls THEN [status EXCEPT ![t] = "STOPPED"] ELSE status
  /\ tls' = tls \ {t}
  /\ Goto(t, "gone")
  /\ UNCHANGED <<ret, data, got, returned, structs>>

\* excom_thread_join waits until the thread has ended.
Join(t) ==
  /\ place[t] = "gone"
  /\ got' = [got EXCEPT ![t] = ret[t]]
  /\ Goto(t, "joined")
  /\ UNCHANGED <<status, ret, data, tls, returned, structs>>

\* The steps of a thread outside its procedure.
ThreadSteps(t) == Start(t) \/ ClearTls(t) \/ FreeData(t) \/ ExitEnds(t)

-----------------------------------------------------------------------------
(***************************************************************************)
(* Properties.                                                             *)
(***************************************************************************)

\* The fields of every thread keep their types.
ThreadTypeOK ==
  /\ status \in [Threads -> Status]
  /\ ret \in [Threads -> Result] /\ got \in [Threads -> Result]
  /\ returned \in [Threads -> Result]
  /\ data \in [Threads -> Data]
  /\ place \in [Threads -> Alive \cup {"none", "failed", "gone", "joined"}]
  /\ tls \subseteq Threads /\ structs \subseteq Threads

\* Join gives what the procedure returned or passed to excom_thread_exit,
\* although the store into the struct is made by the other thread.
JoinGetsResult ==
  \A t \in Threads : place[t] = "joined" => got[t] = returned[t]

\* A thread that may still follow its local data, or store through it into its
\* struct, finds both: the wrapper frees the data, and the owner of the struct
\* frees it, only when the thread no longer can.
ThreadMemory ==
  \A t \in Threads :
    /\ t \in tls => data[t] = "live"
    /\ place[t] \in Alive => t \in structs

\* What threads promise to their users: init, the wrapper, exit and join keep the
\* struct and the data a thread uses, and deliver its result.
ThreadInv == ThreadTypeOK /\ JoinGetsResult /\ ThreadMemory

=============================================================================
