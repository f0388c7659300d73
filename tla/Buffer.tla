------------------------------- MODULE Buffer -------------------------------
(***************************************************************************)
(* One excom_buffer_t (src/excom/buffer.c) used by several threads.  In    *)
(* the server the outgoing buffer of a client is appended to by that       *)
(* client's worker thread and written to the socket by the event thread;   *)
(* the buffer's mutex is what keeps the two apart.                         *)
(*                                                                         *)
(* A call is split at every point where another thread can get in between: *)
(* the checks made before the mutex is taken, the mutex operations, the    *)
(* iterations of the resize loop, malloc, the copy, write(2), and the      *)
(* unlocked free of excom_buffer_destroy.  `data' holds the `used' bytes   *)
(* of the allocation and `pos' is the offset of the pos pointer in it.     *)
(***************************************************************************)
EXTENDS Integers, Sequences

CONSTANTS Byte,           \* the values a byte is taken from
          Strings,        \* the byte strings an append may carry
          Threads,        \* the threads that share the buffer
          NoThread,       \* the holder of a free mutex
          Ops,            \* Ops[t]: the operations thread t performs
          InitSize,       \* the size given to excom_buffer_init
          Freeable,       \* the freeable flag its owner chose after init
          MallocMayFail,  \* whether malloc may return NULL
          FitSizes,       \* the sizes excom_buffer_resize is called with
          MaxAppended,    \* bound: no append starts beyond this many bytes
          MaxCapacity     \* bound: no bare resize beyond this capacity

Appends == {"cappend", "sappend", "bappend"}

Operations == Appends \cup {"write", "reset", "destroy", "resize", "freeze"}

ASSUME StringsAssumption == Strings \subseteq Seq(Byte)
ASSUME ThreadsAssumption == NoThread \notin Threads
ASSUME OpsAssumption == Ops \in [Threads -> SUBSET Operations]
ASSUME SizeAssumption == InitSize \in Nat /\ FitSizes \subseteq Nat
ASSUME FlagAssumption == Freeable \in BOOLEAN /\ MallocMayFail \in BOOLEAN

VARIABLES max,        \* capacity of the allocation
          data,       \* its used bytes: Len(data) is the field `used'
          pos,        \* pos - buf
          mem,        \* what buf points to: live memory, freed memory, NULL
          unmutable, freeable,
          mutex,      \* the thread that holds buffer->mutex
          pc,         \* pc[t]: what thread t does next
          op,         \* op[t]: the operation thread t is in, or was in last
          str,        \* str[t]: the bytes of its append
          to_fit,     \* to_fit[t]: the argument of its excom_buffer_resize
          new_size,   \* new_size[t]: the local variable of that function
          ret,        \* ret[t]: the value its last call returned
          appended,   \* history: every byte copied into the buffer and kept
          sent,       \* history: every byte write(2) took
          fault       \* a step touched freed memory or NULL

memory  == <<max, data, pos, mem>>
flags   == <<unmutable, freeable>>
locals  == <<op, str, to_fit, new_size>>
history == <<appended, sent>>
vars    == <<memory, flags, mutex, pc, locals, ret, history, fault>>

Used == Len(data)

Remaining == Used - pos

Goto(t, where) == pc' = [pc EXCEPT ![t] = where]

Return(t, value) == ret' = [ret EXCEPT ![t] = value]

Init ==
  /\ max = InitSize /\ data = <<>> /\ pos = 0 /\ mem = "live"
  /\ unmutable = FALSE /\ freeable = Freeable
  /\ mutex = NoThread
  /\ pc = [t \in Threads |-> "idle"]
  /\ op = [t \in Threads |-> "none"]
  /\ str = [t \in Threads |-> <<>>]
  /\ to_fit = [t \in Threads |-> 0]
  /\ new_size = [t \in Threads |-> 0]
  /\ ret = [t \in Threads |-> "0"]
  /\ appended = <<>> /\ sent = <<>>
  /\ fault = FALSE

-----------------------------------------------------------------------------
(***************************************************************************)
(* The mutex.                                                              *)
(***************************************************************************)

\* The first step of the critical section of each operation.
Entry(o) == CASE o \in Appends -> "fit"
              [] o = "write"   -> "write"
              [] o = "reset"   -> "free"

\* Mutant: a lock that does not wait.
MutLock(t) ==
  /\ pc[t] = "lock"
  /\ mutex' = t
  /\ Goto(t, Entry(op[t]))
  /\ UNCHANGED <<memory, flags, locals, ret, history, fault>>

Lock(t) ==
  /\ pc[t] = "lock" /\ mutex = NoThread
  /\ mutex' = t
  /\ Goto(t, Entry(op[t]))
  /\ UNCHANGED <<memory, flags, locals, ret, history, fault>>

Unlock(t) ==
  /\ pc[t] = "unlock"
  /\ mutex' = NoThread
  /\ Goto(t, "idle")
  /\ UNCHANGED <<memory, flags, locals, ret, history, fault>>

-----------------------------------------------------------------------------
(***************************************************************************)
(* cappend, sappend and the bappend family.  They differ in what they do   *)
(* with nothing to append and with a failed resize.  The source of a       *)
(* bappend is a buffer no other thread is changing, as in all its uses, so *)
(* its bytes are those it held when the call was made.                     *)
(***************************************************************************)

Begin(t, o) ==
  /\ pc[t] = "idle" /\ o \in Ops[t]
  /\ op' = [op EXCEPT ![t] = o]

\* The tests an append makes before it takes the mutex.
AppendCall(t, o, s) ==
  /\ o \in Appends /\ Begin(t, o)
  /\ Len(appended) < MaxAppended
  /\ str' = [str EXCEPT ![t] = s]
  /\ \/ /\ unmutable
        /\ Return(t, "EACCES") /\ UNCHANGED pc
     \/ /\ ~unmutable /\ o = "bappend" /\ s = <<>>
        /\ Return(t, "0") /\ UNCHANGED pc
     \/ /\ ~unmutable /\ ~(o = "bappend" /\ s = <<>>)
        /\ Return(t, "0") /\ Goto(t, "lock")
  /\ UNCHANGED <<memory, flags, mutex, to_fit, new_size, history, fault>>

\* The head of excom_buffer_resize.
EnterResize(t, n) ==
  /\ to_fit' = [to_fit EXCEPT ![t] = n]
  /\ new_size' = [new_size EXCEPT ![t] = IF max = 0 THEN 1 ELSE max]
  /\ Goto(t, "grow")

\* Mutant: the bytes already in the buffer are forgotten.
MutFit(t) ==
  /\ pc[t] = "fit"
  /\ \/ /\ Len(str[t]) > max
        /\ EnterResize(t, Used + Len(str[t]))
     \/ /\ Len(str[t]) <= max
        /\ Goto(t, "copy") /\ UNCHANGED <<to_fit, new_size>>
  /\ UNCHANGED <<memory, flags, mutex, op, str, ret, history, fault>>

Fit(t) ==
  /\ pc[t] = "fit"
  /\ \/ /\ Used + Len(str[t]) > max
        /\ EnterResize(t, Used + Len(str[t]))
     \/ /\ Used + Len(str[t]) <= max
        /\ Goto(t, "copy") /\ UNCHANGED <<to_fit, new_size>>
  /\ UNCHANGED <<memory, flags, mutex, op, str, ret, history, fault>>

\* One iteration of the do loop of excom_buffer_resize.
Grow(t) ==
  /\ pc[t] = "grow"
  /\ new_size' = [new_size EXCEPT ![t] = 2 * @]
  /\ Goto(t, IF new_size'[t] < to_fit[t] THEN "grow" ELSE "malloc")
  /\ UNCHANGED <<memory, flags, mutex, op, str, to_fit, ret, history, fault>>

\* Mutant: pos is set to the start of the new block.
MutAllocate(t) ==
  /\ pc[t] = "malloc"
  /\ max' = new_size[t] /\ pos' = 0
  /\ mem' = "live"
  /\ fault' = (mem = "freed")
  /\ Goto(t, IF op[t] = "resize" THEN "idle" ELSE "copy")
  /\ UNCHANGED <<data, flags, mutex, locals, ret, history>>

\* malloc succeeds: the used bytes are copied and the old block is freed.
Allocate(t) ==
  /\ pc[t] = "malloc"
  /\ max' = new_size[t]
  /\ mem' = "live"
  /\ fault' = (mem = "freed")
  /\ Goto(t, IF op[t] = "resize" THEN "idle" ELSE "copy")
  /\ UNCHANGED <<data, pos, flags, mutex, locals, ret, history>>

\* malloc fails: excom_buffer_resize returns errno and clears it.  sappend
\* does not look at the result; the other appends return errno, now 0.
AllocateFails(t) ==
  /\ pc[t] = "malloc" /\ MallocMayFail
  /\ Goto(t, CASE op[t] = "resize"  -> "idle"
               [] op[t] = "sappend" -> "copy"
               [] OTHER             -> "unlock")
  /\ Return(t, IF op[t] = "resize" THEN "ENOMEM" ELSE "0")
  /\ UNCHANGED <<memory, flags, mutex, locals, history, fault>>

Copy(t) ==
  /\ pc[t] = "copy"
  /\ data' = data \o str[t]
  /\ appended' = appended \o str[t]
  /\ fault' = (mem # "live" /\ str[t] # <<>>)
  /\ Goto(t, "unlock")
  /\ UNCHANGED <<max, pos, mem, flags, mutex, locals, ret, sent>>

-----------------------------------------------------------------------------
(***************************************************************************)
(* excom_buffer_write.  Its first test reads used, pos and buf without the *)
(* mutex; while another thread is changing them the test may come out      *)
(* either way.                                                             *)
(***************************************************************************)

Changing(t) == \E u \in Threads \ {t} : pc[u] \notin {"idle", "lock", "relock"}

\* Mutant: a last byte is not worth a write.
MutWriteCall(t) ==
  /\ Begin(t, "write")
  /\ Return(t, "0")
  /\ \/ /\ Remaining > 1
        /\ Goto(t, "lock")
     \/ /\ Remaining <= 1
        /\ UNCHANGED pc
  /\ UNCHANGED <<memory, flags, mutex, str, to_fit, new_size, history, fault>>

WriteCall(t) ==
  /\ Begin(t, "write")
  /\ Return(t, "0")
  /\ \/ /\ Remaining # 0 \/ Changing(t)
        /\ Goto(t, "lock")
     \/ /\ Remaining = 0 \/ Changing(t)
        /\ UNCHANGED pc
  /\ UNCHANGED <<memory, flags, mutex, str, to_fit, new_size, history, fault>>

\* Mutant: write(2) is given buf instead of pos.
MutWriteBuf(t, n) ==
  /\ pc[t] = "write"
  /\ n \in 0 .. Remaining /\ (n = 0 => Remaining = 0)
  /\ sent' = sent \o SubSeq(data, 1, n)
  /\ pos' = pos + n
  /\ fault' = (mem # "live" /\ n > 0)
  /\ Goto(t, IF Remaining = n /\ freeable THEN "release" ELSE "unlock")
  /\ UNCHANGED <<max, data, mem, flags, mutex, locals, ret, appended>>

\* write(2) takes n bytes: at least one when there is one.
Write(t, n) ==
  /\ pc[t] = "write"
  /\ n \in 0 .. Remaining /\ (n = 0 => Remaining = 0)
  /\ sent' = sent \o SubSeq(data, pos + 1, pos + n)
  /\ pos' = pos + n
  /\ fault' = (mem # "live" /\ n > 0)
  /\ Goto(t, IF Remaining = n /\ freeable THEN "release" ELSE "unlock")
  /\ UNCHANGED <<max, data, mem, flags, mutex, locals, ret, appended>>

\* write(2) fails, with EAGAIN when the socket is full.
WriteFails(t) ==
  /\ pc[t] = "write"
  /\ Return(t, "EAGAIN")
  /\ Goto(t, "unlock")
  /\ UNCHANGED <<memory, flags, mutex, locals, history, fault>>

\* A drained freeable buffer is destroyed after the mutex is given up.
Release(t) ==
  /\ pc[t] = "release"
  /\ mutex' = NoThread
  /\ Goto(t, "free")
  /\ UNCHANGED <<memory, flags, locals, ret, history, fault>>

Relock(t) ==
  /\ pc[t] = "relock" /\ mutex = NoThread
  /\ mutex' = t
  /\ Goto(t, "unlock")
  /\ UNCHANGED <<memory, flags, locals, ret, history, fault>>

-----------------------------------------------------------------------------
(***************************************************************************)
(* excom_buffer_destroy: called by the owner, by reset with the mutex      *)
(* held, and by write without it.                                          *)
(***************************************************************************)

DestroyCall(t) ==
  /\ Begin(t, "destroy")
  /\ Goto(t, "free")
  /\ UNCHANGED <<memory, flags, mutex, str, to_fit, new_size, ret, history,
                 fault>>

Free(t) ==
  /\ pc[t] = "free"
  /\ mem' = IF freeable /\ mem = "live" THEN "freed" ELSE mem
  /\ fault' = (freeable /\ mem = "freed")
  /\ Goto(t, "clear")
  /\ UNCHANGED <<max, data, pos, flags, mutex, locals, ret, history>>

\* Mutant: buf keeps pointing to the block that was freed.
MutClear(t) ==
  /\ pc[t] = "clear"
  /\ max' = 0 /\ data' = <<>> /\ pos' = 0
  /\ appended' = IF op[t] = "write" THEN appended ELSE sent
  /\ Goto(t, CASE op[t] = "write"   -> "relock"
               [] op[t] = "reset"   -> "remalloc"
               [] op[t] = "destroy" -> "idle")
  /\ UNCHANGED <<mem, flags, mutex, locals, ret, sent, fault>>

\* What a reset or a destroy by the owner throws away no longer counts as
\* appended; a write only clears what it has written.
Clear(t) ==
  /\ pc[t] = "clear"
  /\ max' = 0 /\ data' = <<>> /\ pos' = 0 /\ mem' = "null"
  /\ appended' = IF op[t] = "write" THEN appended ELSE sent
  /\ Goto(t, CASE op[t] = "write"   -> "relock"
               [] op[t] = "reset"   -> "remalloc"
               [] op[t] = "destroy" -> "idle")
  /\ UNCHANGED <<flags, mutex, locals, ret, sent, fault>>

-----------------------------------------------------------------------------
(***************************************************************************)
(* excom_buffer_reset, a bare excom_buffer_resize (neither checks          *)
(* unmutable, and resize does not lock), and the owner making the buffer   *)
(* unmutable.                                                              *)
(***************************************************************************)

ResetCall(t) ==
  /\ Begin(t, "reset")
  /\ Return(t, "0")
  /\ Goto(t, "lock")
  /\ UNCHANGED <<memory, flags, mutex, str, to_fit, new_size, history, fault>>

Remalloc(t) ==
  /\ pc[t] = "remalloc"
  /\ max' = InitSize /\ data' = <<>> /\ pos' = 0
  /\ unmutable' = FALSE /\ freeable' = TRUE
  /\ \/ mem' = "live" /\ UNCHANGED ret
     \/ MallocMayFail /\ mem' = "null" /\ Return(t, "ENOMEM")
  /\ Goto(t, "unlock")
  /\ UNCHANGED <<mutex, locals, history, fault>>

ResizeCall(t, n) ==
  /\ Begin(t, "resize")
  /\ 2 * max <= MaxCapacity
  /\ Return(t, "0")
  /\ EnterResize(t, n)
  /\ UNCHANGED <<memory, flags, mutex, str, history, fault>>

Freeze(t) ==
  /\ Begin(t, "freeze")
  /\ unmutable' = TRUE
  /\ UNCHANGED <<memory, freeable, mutex, pc, str, to_fit, new_size, ret,
                 history, fault>>

-----------------------------------------------------------------------------
Call(t) ==
  \/ \E o \in Appends, s \in Strings : AppendCall(t, o, s)
  \/ WriteCall(t)
  \/ ResetCall(t)
  \/ DestroyCall(t)
  \/ \E n \in FitSizes : ResizeCall(t, n)
  \/ Freeze(t)

Step(t) ==
  \/ Lock(t) \/ Unlock(t)
  \/ Fit(t) \/ Grow(t) \/ Allocate(t) \/ AllocateFails(t) \/ Copy(t)
  \/ \E n \in 0 .. Remaining : Write(t, n)
  \/ WriteFails(t) \/ Release(t) \/ Relock(t)
  \/ Free(t) \/ Clear(t) \/ Remalloc(t)

\* A program that has touched freed memory has no further behaviour to model.
Next == ~fault /\ \E t \in Threads : Call(t) \/ Step(t)

Spec == Init /\ [][Next]_vars

\* The scheduler runs every thread that can run.  The event loop keeps calling
\* excom_buffer_write, and a peer that reads makes the socket writable again.
FairSpec ==
  /\ Spec
  /\ \A t \in Threads :
       /\ WF_vars(Step(t))
       /\ WF_vars(WriteCall(t))
       /\ SF_vars(\E n \in 0 .. Remaining : Write(t, n))

-----------------------------------------------------------------------------
(***************************************************************************)
(* Properties.                                                             *)
(***************************************************************************)

Places == {"idle", "lock", "unlock", "fit", "grow", "malloc", "copy", "write",
           "release", "relock", "free", "clear", "remalloc"}

\* Every field of the buffer and every local variable of a call keeps its type.
TypeOK ==
  /\ max \in Nat /\ data \in Seq(Byte) /\ pos \in Nat
  /\ mem \in {"live", "freed", "null"}
  /\ unmutable \in BOOLEAN /\ freeable \in BOOLEAN
  /\ mutex \in Threads \cup {NoThread}
  /\ pc \in [Threads -> Places]
  /\ op \in [Threads -> Operations \cup {"none"}]
  /\ str \in [Threads -> Seq(Byte)]
  /\ to_fit \in [Threads -> Nat]
  /\ new_size \in [Threads -> Nat]
  /\ ret \in [Threads -> {"0", "EACCES", "EAGAIN", "ENOMEM"}]
  /\ appended \in Seq(Byte) /\ sent \in Seq(Byte)
  /\ fault \in BOOLEAN

\* excom_buffer_resize always makes enough room before the memcpy of an append,
\* also when other appends, writes and failed allocations come in between:
\* used never exceeds max (buffer.h:40).
UsedWithinMax == Used <= max

\* The bytes write(2) has taken, followed by those between pos and used, are
\* the bytes appended, in order: nothing is lost, repeated or reordered by
\* partial writes, resizes or concurrent appends.
StreamIntact == appended = sent \o SubSeq(data, pos + 1, Used)

\* No memcpy, free or write(2) of any thread touches freed memory or NULL.
NoFault == ~fault

\* For a single owner, the only way to touch freed memory or NULL is an append
\* after a reset that could not allocate: the reset leaves max as if it had.
FaultNeedsFailedReset == fault => mem = "null" /\ max = InitSize

Stream == INSTANCE ByteStream WITH accepted <- appended, delivered <- sent

\* The buffer implements the byte stream: an append is taken over whole and
\* at one moment, and a write hands over the next bytes only.
ImplementsStream == Stream!StreamSpec

\* Every byte an append copied eventually reaches the socket.
Drains ==
  \A n \in 1 .. MaxAppended : (Len(appended) >= n) ~> (Len(sent) >= n)

-----------------------------------------------------------------------------
(***************************************************************************)
(* The invariants the proofs rest on.                                      *)
(***************************************************************************)

\* A thread is only ever at the steps of the operation it is in.
PlaceOK ==
  \A t \in Threads :
    /\ pc[t] # "idle" => op[t] \in Ops[t]
    /\ pc[t] = "lock" => op[t] \in Appends \cup {"write", "reset"}
    /\ pc[t] \in {"fit", "copy"} => op[t] \in Appends
    /\ pc[t] \in {"grow", "malloc"} => op[t] \in Appends \cup {"resize"}
    /\ pc[t] \in {"write", "release", "relock"} => op[t] = "write"
    /\ pc[t] \in {"free", "clear"} => op[t] \in {"write", "reset", "destroy"}
    /\ pc[t] = "remalloc" => op[t] = "reset"

\* The steps a thread takes between its lock and its unlock.
Critical(t) ==
  \/ pc[t] \in {"fit", "copy", "write", "release", "remalloc", "unlock"}
  \/ pc[t] \in {"grow", "malloc"} /\ op[t] \in Appends
  \/ pc[t] \in {"free", "clear"} /\ op[t] = "reset"

Exclusive == \A t \in Threads : Critical(t) => mutex = t

\* How a buffer is meant to be shared: it is not freeable, its users append,
\* write and freeze, and none of them uses sappend when malloc may fail.
SharedUse ==
  /\ ~Freeable
  /\ \A t \in Threads :
       /\ Ops[t] \subseteq Appends \cup {"write", "freeze"}
       /\ MallocMayFail => "sappend" \notin Ops[t]

\* The resize in progress is for the append that holds the mutex, and what it
\* allocates is enough for it.
RoomOK ==
  \A t \in Threads :
    /\ pc[t] \in {"grow", "malloc"} => to_fit[t] = Used + Len(str[t])
    /\ pc[t] = "malloc" => new_size[t] >= to_fit[t]
    /\ pc[t] = "copy" => Used + Len(str[t]) <= max

\* What an append copies is the string it was called with.
CopiesAString ==
  \A t \in Threads :
    pc[t] # "idle" /\ op[t] \in Appends => str[t] \in Strings

\* Nobody is destroying the buffer.
Undisturbed ==
  \A t \in Threads :
    pc[t] \notin {"release", "relock", "free", "clear", "remalloc"}

\* The inductive invariant of shared use: the mutual exclusion of the critical
\* sections, the room each append has secured, and the stream they maintain.
SharedInv ==
  /\ TypeOK /\ PlaceOK /\ Exclusive /\ CopiesAString /\ Undisturbed
  /\ ~freeable /\ mem = "live" /\ NoFault
  /\ pos <= Used
  /\ UsedWithinMax
  /\ RoomOK
  /\ StreamIntact
=============================================================================
