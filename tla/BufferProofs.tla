---------------------------- MODULE BufferProofs ----------------------------
(***************************************************************************)
(* Proofs about Buffer, for every set of threads, strings and sizes.       *)
(***************************************************************************)
EXTENDS Buffer, SequenceTheorems, TLAPS

-----------------------------------------------------------------------------
(***************************************************************************)
(* Facts about sequences.                                                  *)
(***************************************************************************)

\* A slice within a sequence is a sequence of the expected length.
LEMMA SliceProperties ==
  ASSUME NEW S, NEW s \in Seq(S), NEW m \in Nat, NEW n \in Nat, n <= Len(s)
  PROVE  /\ SubSeq(s, m + 1, n) \in Seq(S)
         /\ Len(SubSeq(s, m + 1, n)) = IF m < n THEN n - m ELSE 0
         /\ \A i \in 1 .. n - m : SubSeq(s, m + 1, n)[i] = s[m + i]
<1>1. \A i \in (m + 1) .. n : s[i] \in S
  BY ElementOfSeq
<1>2. m + 1 \in Int /\ n \in Int
  OBVIOUS
<1> QED
  BY <1>1, <1>2, SubSeqProperties

\* Appending to a sequence appends to what is left of it after pos.
LEMMA SliceOfConcat ==
  ASSUME NEW S, NEW s \in Seq(S), NEW t \in Seq(S),
         NEW p \in Nat, p <= Len(s)
  PROVE  SubSeq(s \o t, p + 1, Len(s \o t)) = SubSeq(s, p + 1, Len(s)) \o t
<1> DEFINE whole == SubSeq(s \o t, p + 1, Len(s \o t))
           rest  == SubSeq(s, p + 1, Len(s))
<1>1. s \o t \in Seq(S) /\ Len(s \o t) = Len(s) + Len(t)
  BY ConcatProperties
<1>2. /\ whole \in Seq(S)
      /\ Len(whole) = Len(s) + Len(t) - p
      /\ \A i \in 1 .. Len(s) + Len(t) - p : whole[i] = (s \o t)[p + i]
  BY <1>1, SliceProperties
<1>3. /\ rest \in Seq(S)
      /\ Len(rest) = Len(s) - p
      /\ \A i \in 1 .. Len(s) - p : rest[i] = s[p + i]
  BY SliceProperties
<1>4. rest \o t \in Seq(S) /\ Len(rest \o t) = Len(whole)
  BY <1>2, <1>3, ConcatProperties
<1>5. ASSUME NEW i \in 1 .. Len(whole)
      PROVE  whole[i] = (rest \o t)[i]
  BY <1>2, <1>3, ConcatProperties
<1> HIDE DEF whole, rest
<1>6. whole = rest \o t
  BY <1>2, <1>4, <1>5, SeqEqual
<1> QED
  BY <1>6 DEF whole, rest

\* Taking n bytes from what is left after pos leaves what is left after pos + n.
LEMMA SliceSplit ==
  ASSUME NEW S, NEW s \in Seq(S), NEW p \in Nat, NEW n \in Nat,
         p + n <= Len(s)
  PROVE  SubSeq(s, p + 1, Len(s)) =
           SubSeq(s, p + 1, p + n) \o SubSeq(s, p + n + 1, Len(s))
<1> DEFINE whole == SubSeq(s, p + 1, Len(s))
           front == SubSeq(s, p + 1, p + n)
           back  == SubSeq(s, p + n + 1, Len(s))
<1>1. /\ whole \in Seq(S) /\ Len(whole) = Len(s) - p
      /\ \A i \in 1 .. Len(s) - p : whole[i] = s[p + i]
  BY SliceProperties
<1>2. /\ front \in Seq(S) /\ Len(front) = n
      /\ \A i \in 1 .. n : front[i] = s[p + i]
  BY SliceProperties
<1>3. /\ back \in Seq(S) /\ Len(back) = Len(s) - p - n
      /\ \A i \in 1 .. Len(s) - p - n : back[i] = s[p + n + i]
  BY SliceProperties
<1> HIDE DEF whole, front, back
<1>4. front \o back \in Seq(S) /\ Len(front \o back) = Len(whole)
  BY <1>1, <1>2, <1>3, ConcatProperties
<1>5. ASSUME NEW i \in 1 .. Len(whole)
      PROVE  whole[i] = (front \o back)[i]
  BY <1>1, <1>2, <1>3, ConcatProperties
<1>6. whole = front \o back
  BY <1>1, <1>4, <1>5, SeqEqual
<1> QED
  BY <1>6 DEF whole, front, back

\* The first n bytes after a prefix are the first n bytes of the rest.
LEMMA SliceAfterPrefix ==
  ASSUME NEW S, NEW a \in Seq(S), NEW b \in Seq(S), NEW c \in Seq(S)
  PROVE  SubSeq(a \o (b \o c), Len(a) + 1, Len(a) + Len(b)) = b
<1> DEFINE all  == a \o (b \o c)
           part == SubSeq(all, Len(a) + 1, Len(a) + Len(b))
<1>1. /\ b \o c \in Seq(S) /\ Len(b \o c) = Len(b) + Len(c)
      /\ \A i \in 1 .. Len(b) : (b \o c)[i] = b[i]
  BY ConcatProperties
<1>2. /\ all \in Seq(S) /\ Len(all) = Len(a) + Len(b) + Len(c)
      /\ \A i \in 1 .. Len(b) : all[Len(a) + i] = b[i]
  BY <1>1, ConcatProperties
<1>3. /\ part \in Seq(S) /\ Len(part) = Len(b)
      /\ \A i \in 1 .. Len(b) : part[i] = all[Len(a) + i]
  BY <1>2, SliceProperties
<1> HIDE DEF all, part
<1>4. part = b
  BY <1>2, <1>3, SeqEqual
<1> QED
  BY <1>4 DEF all, part

-----------------------------------------------------------------------------
(***************************************************************************)
(* Type correctness, and that a thread is only at steps of its operation.  *)
(***************************************************************************)

TypeInv == TypeOK /\ PlaceOK

\* A buffer that excom_buffer_init has set up has its types, and no call has begun.
LEMMA TypeInvInit == Init => TypeInv
<1> SUFFICES ASSUME Init
             PROVE  TypeInv
  OBVIOUS
<1>1. <<>> \in Seq(Byte)
  BY EmptySeq
<1>2. TypeOK
  BY <1>1, SizeAssumption, FlagAssumption DEF Init, TypeOK, Places
<1>3. PlaceOK
  BY DEF Init, PlaceOK
<1> QED
  BY <1>2, <1>3 DEF TypeInv

\* Every action keeps the types of all fields and the place of its thread.
LEMMA TypeInvStep == TypeInv /\ [Next]_vars => TypeInv'
<1> SUFFICES ASSUME TypeInv, [Next]_vars
             PROVE  TypeInv'
  OBVIOUS
<1> USE OpsAssumption DEF TypeInv, TypeOK, PlaceOK, Places, Operations, Appends,
        memory, flags, locals, history
<1>1. CASE UNCHANGED vars
  BY <1>1 DEF vars
<1>2. ASSUME NEW t \in Threads, Call(t)
      PROVE  TypeInv'
  <2>1. ASSUME NEW o \in Appends, NEW s \in Strings, AppendCall(t, o, s)
         PROVE  TypeInv'
    BY <2>1, StringsAssumption DEF AppendCall, Begin, Goto, Return
  <2>2. CASE WriteCall(t)
    BY <2>2 DEF WriteCall, Begin, Goto, Return
  <2>3. CASE ResetCall(t)
    BY <2>3 DEF ResetCall, Begin, Goto, Return
  <2>4. CASE DestroyCall(t)
    BY <2>4 DEF DestroyCall, Begin, Goto
  <2>5. ASSUME NEW n \in FitSizes, ResizeCall(t, n)
         PROVE  TypeInv'
    BY <2>5, SizeAssumption DEF ResizeCall, Begin, Goto, Return, EnterResize
  <2>6. CASE Freeze(t)
    BY <2>6 DEF Freeze, Begin
  <2> QED
    BY <1>2, <2>1, <2>2, <2>3, <2>4, <2>5, <2>6 DEF Call
<1>3. ASSUME NEW t \in Threads, Step(t)
      PROVE  TypeInv'
  <2>1. CASE Lock(t)
    BY <2>1 DEF Lock, Goto, Entry
  <2>2. CASE Unlock(t)
    BY <2>2 DEF Unlock, Goto
  <2>3. CASE Fit(t)
    <3>1. Used + Len(str[t]) \in Nat
      BY LenProperties DEF Used
    <3>2. CASE EnterResize(t, Used + Len(str[t]))
      <4>1. TypeOK'
        BY <2>3, <3>1, <3>2 DEF Fit, Goto, EnterResize
      <4>2. PlaceOK'
        BY <2>3, <3>2 DEF Fit, Goto, EnterResize
      <4> QED
        BY <4>1, <4>2
    <3>3. CASE Goto(t, "copy") /\ UNCHANGED <<to_fit, new_size>>
      <4>1. TypeOK'
        BY <2>3, <3>3 DEF Fit, Goto
      <4>2. PlaceOK'
        BY <2>3, <3>3 DEF Fit, Goto
      <4> QED
        BY <4>1, <4>2
    <3> QED
      BY <2>3, <3>2, <3>3 DEF Fit
  <2>4. CASE Grow(t)
    BY <2>4 DEF Grow, Goto
  <2>5. CASE Allocate(t)
    BY <2>5 DEF Allocate, Goto
  <2>6. CASE AllocateFails(t)
    BY <2>6 DEF AllocateFails, Goto, Return
  <2>7. CASE Copy(t)
    BY <2>7, ConcatProperties DEF Copy, Goto
  <2>8. ASSUME NEW n \in 0 .. Remaining, Write(t, n)
         PROVE  TypeInv'
    BY <2>8, SliceProperties, ConcatProperties DEF Write, Goto, Remaining, Used
  <2>9. CASE WriteFails(t)
    BY <2>9 DEF WriteFails, Goto, Return
  <2>10. CASE Release(t)
    BY <2>10 DEF Release, Goto
  <2>11. CASE Relock(t)
    BY <2>11 DEF Relock, Goto
  <2>12. CASE Free(t)
    BY <2>12 DEF Free, Goto
  <2>13. CASE Clear(t)
    <3>1. <<>> \in Seq(Byte)
      BY EmptySeq
    <3>2. op[t] \in {"write", "reset", "destroy"}
      BY <2>13 DEF Clear
    <3>3. TypeOK'
      BY <2>13, <3>1, <3>2 DEF Clear, Goto
    <3>4. PlaceOK'
      BY <2>13, <3>2 DEF Clear, Goto
    <3> QED
      BY <3>3, <3>4
  <2>14. CASE Remalloc(t)
    <3>1. <<>> \in Seq(Byte)
      BY EmptySeq
    <3>2. TypeOK'
      BY <2>14, <3>1, SizeAssumption DEF Remalloc, Goto, Return
    <3>3. PlaceOK'
      BY <2>14 DEF Remalloc, Goto
    <3> QED
      BY <3>2, <3>3
  <2> QED
    BY <1>3, <2>1, <2>2, <2>3, <2>4, <2>5, <2>6, <2>7,
       <2>8, <2>9, <2>10, <2>11, <2>12, <2>13, <2>14
    DEF Step
<1> QED
  BY <1>1, <1>2, <1>3 DEF Next

\* Every behaviour of the buffer, however its operations are interleaved, is
\* well typed.
THEOREM TypeCorrect == Spec => []TypeOK
<1>1. TypeInv => TypeOK
  BY DEF TypeInv
<1> QED
  BY <1>1, TypeInvInit, TypeInvStep, PTL DEF Spec

-----------------------------------------------------------------------------
(***************************************************************************)
(* Mutual exclusion, for every use of the buffer: an operation that has    *)
(* locked the buffer holds the mutex until its own unlock.                 *)
(***************************************************************************)

\* No call has begun, so nobody is in a critical section.
LEMMA ExclusiveInit == Init => Exclusive
  BY DEF Init, Exclusive, Critical

\* Whoever enters a critical section takes the mutex, and gives it up on leaving.
LEMMA ExclusiveStep == TypeInv /\ Exclusive /\ [Next]_vars => Exclusive'
<1> SUFFICES ASSUME TypeInv, Exclusive, [Next]_vars
             PROVE  Exclusive'
  OBVIOUS
<1> USE ThreadsAssumption DEF TypeInv, TypeOK, PlaceOK, Places, Exclusive,
        Critical, Appends, locals
<1>1. CASE UNCHANGED vars
  BY <1>1 DEF vars
<1>2. ASSUME NEW t \in Threads, Call(t)
      PROVE  Exclusive'
  <2>1. ASSUME NEW o \in Appends, NEW s \in Strings, AppendCall(t, o, s)
         PROVE  Exclusive'
    BY <2>1 DEF AppendCall, Begin, Goto
  <2>2. CASE WriteCall(t)
    BY <2>2 DEF WriteCall, Begin, Goto
  <2>3. CASE ResetCall(t)
    BY <2>3 DEF ResetCall, Begin, Goto
  <2>4. CASE DestroyCall(t)
    BY <2>4 DEF DestroyCall, Begin, Goto
  <2>5. ASSUME NEW n \in FitSizes, ResizeCall(t, n)
         PROVE  Exclusive'
    BY <2>5 DEF ResizeCall, Begin, Goto, EnterResize
  <2>6. CASE Freeze(t)
    BY <2>6 DEF Freeze, Begin
  <2> QED
    BY <1>2, <2>1, <2>2, <2>3, <2>4, <2>5, <2>6 DEF Call
<1>3. ASSUME NEW t \in Threads, Step(t)
      PROVE  Exclusive'
  <2>1. CASE Lock(t)
    BY <2>1 DEF Lock, Goto, Entry
  <2>2. CASE Unlock(t)
    BY <2>2 DEF Unlock, Goto
  <2>3. CASE Fit(t)
    BY <2>3 DEF Fit, Goto, EnterResize
  <2>4. CASE Grow(t)
    BY <2>4 DEF Grow, Goto
  <2>5. CASE Allocate(t)
    BY <2>5 DEF Allocate, Goto
  <2>6. CASE AllocateFails(t)
    BY <2>6 DEF AllocateFails, Goto
  <2>7. CASE Copy(t)
    BY <2>7 DEF Copy, Goto
  <2>8. ASSUME NEW n \in 0 .. Remaining, Write(t, n)
         PROVE  Exclusive'
    BY <2>8 DEF Write, Goto
  <2>9. CASE WriteFails(t)
    BY <2>9 DEF WriteFails, Goto
  <2>10. CASE Release(t)
    BY <2>10 DEF Release, Goto
  <2>11. CASE Relock(t)
    BY <2>11 DEF Relock, Goto
  <2>12. CASE Free(t)
    BY <2>12 DEF Free, Goto
  <2>13. CASE Clear(t)
    BY <2>13 DEF Clear, Goto
  <2>14. CASE Remalloc(t)
    BY <2>14 DEF Remalloc, Goto
  <2> QED
    BY <1>3, <2>1, <2>2, <2>3, <2>4, <2>5, <2>6, <2>7,
       <2>8, <2>9, <2>10, <2>11, <2>12, <2>13, <2>14
    DEF Step
<1> QED
  BY <1>1, <1>2, <1>3 DEF Next

\* No two threads are in the critical sections of the buffer's operations.
THEOREM MutualExclusion ==
  Spec => [](\A t, u \in Threads : Critical(t) /\ Critical(u) => t = u)
<1>1. Exclusive => \A t, u \in Threads : Critical(t) /\ Critical(u) => t = u
  BY DEF Exclusive
<1> QED
  BY <1>1, TypeInvInit, TypeInvStep, ExclusiveInit, ExclusiveStep, PTL DEF Spec

-----------------------------------------------------------------------------
(***************************************************************************)
(* Shared use.  The part of SharedInv beyond types and mutual exclusion    *)
(* splits into the room an append has and the stream it extends.           *)
(***************************************************************************)

Steady == CopiesAString /\ Undisturbed /\ ~freeable /\ mem = "live" /\ NoFault

Room == pos <= Used /\ UsedWithinMax /\ RoomOK

\* The operations that would free or replace the memory are not in use.
LEMMA SharedActions ==
  ASSUME SharedUse, TypeInv, Undisturbed, Next
  PROVE  \E t \in Threads :
           \/ \E o \in Appends, s \in Strings : AppendCall(t, o, s)
           \/ WriteCall(t) \/ Freeze(t) \/ Lock(t) \/ Unlock(t)
           \/ Fit(t) \/ Grow(t) \/ Allocate(t) \/ AllocateFails(t) \/ Copy(t)
           \/ \E n \in 0 .. Remaining : Write(t, n)
           \/ WriteFails(t)
<1>1. PICK t \in Threads : Call(t) \/ Step(t)
  BY DEF Next
<1>2. ~ResetCall(t) /\ ~DestroyCall(t) /\ ~(\E n \in FitSizes : ResizeCall(t, n))
  BY DEF SharedUse, ResetCall, DestroyCall, ResizeCall, Begin, Appends
<1>3. /\ ~Release(t) /\ ~Relock(t) /\ ~Free(t) /\ ~Clear(t) /\ ~Remalloc(t)
  BY DEF Undisturbed, Release, Relock, Free, Clear, Remalloc
<1> QED
  BY <1>1, <1>2, <1>3 DEF Call, Step

\* In shared use nobody destroys, frees or leaves the memory of the buffer, and an
\* append copies the string it was called with.
LEMMA SteadyStep ==
  ASSUME SharedUse, TypeInv, Steady, [Next]_vars
  PROVE  Steady'
<1> USE DEF Steady, CopiesAString, Undisturbed, NoFault, TypeInv, TypeOK, PlaceOK, memory,
            flags, locals, Appends
<1>1. CASE UNCHANGED vars
  BY <1>1 DEF vars
<1>2. ASSUME NEW t \in Threads, NEW o \in Appends, NEW s \in Strings,
             AppendCall(t, o, s)
      PROVE  Steady'
  BY <1>2 DEF AppendCall, Begin, Goto
<1>3. ASSUME NEW t \in Threads,
             WriteCall(t) \/ Freeze(t) \/ Lock(t) \/ Unlock(t)
      PROVE  Steady'
  <2>1. pc[t] = "lock" => op[t] \in Appends \cup {"write"}
    BY DEF SharedUse
  <2>2. CASE WriteCall(t)
    BY <2>2 DEF WriteCall, Begin, Goto
  <2>3. CASE Freeze(t)
    BY <2>3 DEF Freeze, Begin
  <2>4. CASE Lock(t)
    BY <2>1, <2>4 DEF Lock, Entry, Goto
  <2>5. CASE Unlock(t)
    BY <2>5 DEF Unlock, Goto
  <2> QED
    BY <1>3, <2>2, <2>3, <2>4, <2>5
<1>4. ASSUME NEW t \in Threads, Fit(t) \/ Grow(t) \/ Allocate(t)
      PROVE  Steady'
  BY <1>4 DEF Fit, Grow, Allocate, EnterResize, Goto
<1>5. ASSUME NEW t \in Threads, AllocateFails(t) \/ Copy(t) \/ WriteFails(t)
      PROVE  Steady'
  BY <1>5 DEF AllocateFails, Copy, WriteFails, Goto
<1>6. ASSUME NEW t \in Threads, NEW n \in 0 .. Remaining, Write(t, n)
      PROVE  Steady'
  BY <1>6 DEF Write, Goto
<1> QED
  BY <1>1, <1>2, <1>3, <1>4, <1>5, <1>6, SharedActions

\* An append has room for its bytes when it copies them: nobody else changes
\* used or max while it holds the mutex, and the loop of the resize ends with
\* enough.
LEMMA RoomStep ==
  ASSUME SharedUse, TypeInv, Exclusive, Steady, Room, [Next]_vars
  PROVE  Room'
<1> USE DEF TypeInv, TypeOK, Room, UsedWithinMax, RoomOK, Used, memory, locals
<1>1. Len(data) \in Nat /\ \A t \in Threads : Len(str[t]) \in Nat
  BY LenProperties
<1>2. CASE UNCHANGED vars
  BY <1>2 DEF vars
<1>3. ASSUME NEW t \in Threads, NEW o \in Appends, NEW s \in Strings,
             AppendCall(t, o, s)
      PROVE  Room'
  BY <1>3 DEF AppendCall, Begin, Goto
<1>4. ASSUME NEW t \in Threads, WriteCall(t) \/ Freeze(t) \/ Unlock(t)
      PROVE  Room'
  BY <1>4 DEF WriteCall, Freeze, Unlock, Begin, Goto
<1>5. ASSUME NEW t \in Threads, Lock(t)
      PROVE  Room'
  <2>1. op[t] \in Appends \cup {"write"}
    BY <1>5 DEF Lock, PlaceOK, SharedUse, Appends
  <2>2. pc' = [pc EXCEPT ![t] = "fit"] \/ pc' = [pc EXCEPT ![t] = "write"]
    BY <1>5, <2>1 DEF Lock, Entry, Goto, Appends
  <2> QED
    BY <1>5, <2>2 DEF Lock
<1>6. ASSUME NEW t \in Threads, Fit(t)
      PROVE  Room'
  <2>1. CASE EnterResize(t, Used + Len(str[t]))
    BY <1>1, <1>6, <2>1 DEF Fit, EnterResize, Goto
  <2>2. CASE /\ Used + Len(str[t]) <= max
             /\ Goto(t, "copy") /\ UNCHANGED <<to_fit, new_size>>
    BY <1>1, <1>6, <2>2 DEF Fit, Goto
  <2> QED
    BY <1>6, <2>1, <2>2 DEF Fit
<1>7. ASSUME NEW t \in Threads, Grow(t)
      PROVE  Room'
  BY <1>1, <1>7 DEF Grow, Goto
<1>8. ASSUME NEW t \in Threads, Allocate(t) \/ AllocateFails(t)
      PROVE  Room'
  <2>1. pc[t] = "malloc" /\ op[t] \in Appends /\ mutex = t
    BY <1>8 DEF Allocate, AllocateFails, PlaceOK, SharedUse, Exclusive,
                Critical, Appends
  <2>2. \A u \in Threads \ {t} : pc[u] \notin {"grow", "malloc", "copy"}
    BY <2>1 DEF Exclusive, Critical, PlaceOK, SharedUse, Appends
  <2>3. new_size[t] >= Used + Len(str[t])
    BY <2>1
  <2>4. CASE Allocate(t)
    BY <1>1, <2>1, <2>2, <2>3, <2>4 DEF Allocate, Goto, Appends
  <2>5. CASE AllocateFails(t)
    <3>1. op[t] # "sappend"
      BY <2>5 DEF AllocateFails, SharedUse, PlaceOK
    <3>2. pc' = [pc EXCEPT ![t] = "unlock"]
      BY <2>1, <2>5, <3>1 DEF AllocateFails, Goto, Appends
    <3> QED
      BY <2>5, <3>2 DEF AllocateFails
  <2> QED
    BY <1>8, <2>4, <2>5
<1>9. ASSUME NEW t \in Threads, Copy(t)
      PROVE  Room'
  <2>1. mutex = t
    BY <1>9 DEF Copy, Exclusive, Critical
  <2>2. \A u \in Threads \ {t} : pc[u] \notin {"grow", "malloc", "copy"}
    BY <2>1 DEF Exclusive, Critical, PlaceOK, SharedUse, Appends
  <2>3. Len(data \o str[t]) = Len(data) + Len(str[t])
    BY ConcatProperties
  <2> QED
    BY <1>1, <1>9, <2>2, <2>3 DEF Copy, Goto
<1>10. ASSUME NEW t \in Threads, NEW n \in 0 .. Remaining, Write(t, n)
       PROVE  Room'
  <2>1. pc' = [pc EXCEPT ![t] = "unlock"]
    BY <1>10 DEF Write, Goto, Steady
  <2> QED
    BY <1>1, <1>10, <2>1 DEF Write, Remaining
<1>11. ASSUME NEW t \in Threads, WriteFails(t)
       PROVE  Room'
  BY <1>11 DEF WriteFails, Goto
<1> QED
  BY <1>2, <1>3, <1>4, <1>5, <1>6, <1>7, <1>8, <1>9, <1>10, <1>11,
     SharedActions DEF Steady

\* An append extends the stream by its bytes.
LEMMA CopyExtendsStream ==
  ASSUME TypeInv, pos <= Used, StreamIntact, NEW t \in Threads, Copy(t)
  PROVE  StreamIntact'
<1> DEFINE rest  == SubSeq(data, pos + 1, Len(data))
           added == str[t]
<1>1. /\ data \in Seq(Byte) /\ added \in Seq(Byte) /\ sent \in Seq(Byte)
      /\ pos \in Nat /\ pos <= Len(data) /\ Len(data) \in Nat
  BY LenProperties DEF TypeInv, TypeOK, Used
<1>2. rest \in Seq(Byte)
  BY <1>1, SliceProperties
<1>3. SubSeq(data \o added, pos + 1, Len(data \o added)) = rest \o added
  BY <1>1, SliceOfConcat
<1>4. appended = sent \o rest
  BY DEF StreamIntact, Used
<1>5. data' = data \o added /\ appended' = appended \o added
      /\ UNCHANGED <<pos, sent>>
  BY DEF Copy
<1> HIDE DEF rest, added
<1>6. (sent \o rest) \o added = sent \o (rest \o added)
  <2>1. sent \in Seq(Byte) /\ added \in Seq(Byte)
    BY <1>1
  <2> QED
    BY <1>2, <2>1, ConcatAssociative, SMT
<1> QED
  BY <1>3, <1>4, <1>5, <1>6 DEF StreamIntact, Used

\* write(2) moves its bytes from the unsent to the sent end of the stream.
LEMMA WriteMovesAlongStream ==
  ASSUME TypeInv, pos <= Used, StreamIntact, NEW t \in Threads,
         NEW n \in 0 .. Remaining, Write(t, n)
  PROVE  /\ StreamIntact'
         /\ SubSeq(appended, Len(sent) + 1, Len(sent) + n)
              = SubSeq(data, pos + 1, pos + n)
         /\ n \in 0 .. (Len(appended) - Len(sent))
<1> DEFINE rest  == SubSeq(data, pos + 1, Len(data))
           front == SubSeq(data, pos + 1, pos + n)
           back  == SubSeq(data, pos + n + 1, Len(data))
<1>1. /\ data \in Seq(Byte) /\ sent \in Seq(Byte)
      /\ pos \in Nat /\ Len(data) \in Nat /\ n \in Nat /\ pos + n <= Len(data)
  BY LenProperties DEF TypeInv, TypeOK, Used, Remaining
<1>2. /\ front \in Seq(Byte) /\ Len(front) = n
      /\ back \in Seq(Byte)
  BY <1>1, SliceProperties
<1>3. rest = front \o back
  BY <1>1, SliceSplit
<1>4. sent' = sent \o front /\ pos' = pos + n /\ UNCHANGED <<data, appended>>
  BY DEF Write
<1>5. SubSeq(data', pos' + 1, Len(data')) = back
  BY <1>4
<1>6. appended = sent \o rest
  BY DEF StreamIntact, Used
<1> HIDE DEF rest, front, back
<1>7. appended = (sent \o front) \o back
  <2>1. sent \in Seq(Byte) /\ front \in Seq(Byte) /\ back \in Seq(Byte)
    BY <1>1, <1>2
  <2>2. (sent \o front) \o back = sent \o (front \o back)
    BY <2>1, ConcatAssociative, SMT
  <2> QED
    BY <1>3, <1>6, <2>2
<1>8. StreamIntact'
  BY <1>4, <1>5, <1>7 DEF StreamIntact, Used
<1>9. SubSeq(appended, Len(sent) + 1, Len(sent) + n) = front
  BY <1>1, <1>2, <1>3, <1>6, SliceAfterPrefix
<1>10. n \in 0 .. (Len(appended) - Len(sent))
  <2>1. /\ sent \o front \in Seq(Byte)
        /\ Len(sent \o front) = Len(sent) + n
    BY <1>1, <1>2, ConcatProperties
  <2>2. Len(appended) = Len(sent \o front) + Len(back)
    BY <1>2, <1>7, <2>1, ConcatProperties
  <2>3. Len(sent) \in Nat /\ Len(back) \in Nat
    BY <1>1, <1>2, LenProperties
  <2> QED
    BY <1>1, <2>1, <2>2, <2>3
<1> QED
  BY <1>8, <1>9, <1>10 DEF front

\* Only Copy and Write move bytes, and both keep the order of the stream.
LEMMA StreamStep ==
  ASSUME SharedUse, TypeInv, Undisturbed, pos <= Used, StreamIntact,
         [Next]_vars
  PROVE  StreamIntact'
<1> DEFINE Same == UNCHANGED <<data, pos, appended, sent>>
<1>1. Same => StreamIntact'
  BY DEF StreamIntact, Used
<1>2. CASE UNCHANGED vars
  BY <1>1, <1>2 DEF vars, memory, history
<1>3. ASSUME NEW t \in Threads, NEW o \in Appends, NEW s \in Strings,
             AppendCall(t, o, s)
      PROVE  StreamIntact'
  BY <1>1, <1>3 DEF AppendCall, memory, history
<1>4. ASSUME NEW t \in Threads,
             \/ WriteCall(t) \/ Freeze(t) \/ Lock(t) \/ Unlock(t) \/ Fit(t)
             \/ Grow(t) \/ Allocate(t) \/ AllocateFails(t) \/ WriteFails(t)
      PROVE  StreamIntact'
  BY <1>1, <1>4 DEF WriteCall, Freeze, Lock, Unlock, Fit, Grow, Allocate,
                    AllocateFails, WriteFails, memory, history
<1>5. ASSUME NEW t \in Threads, Copy(t)
      PROVE  StreamIntact'
  BY <1>5, CopyExtendsStream
<1>6. ASSUME NEW t \in Threads, NEW n \in 0 .. Remaining, Write(t, n)
      PROVE  StreamIntact'
  BY <1>6, WriteMovesAlongStream
<1> QED
  BY <1>2, <1>3, <1>4, <1>5, <1>6, SharedActions

\* A new buffer satisfies the invariant of shared use.
LEMMA SharedInvInit ==
  ASSUME SharedUse, Init
  PROVE  SharedInv
<1>1. TypeInv /\ Exclusive
  BY TypeInvInit, ExclusiveInit
<1>2. Steady
  BY DEF Init, Steady, CopiesAString, Undisturbed, NoFault, SharedUse
<1>3. Used = 0 /\ pos <= Used /\ UsedWithinMax
  BY SizeAssumption, EmptySeq DEF Init, Used, UsedWithinMax
<1>4. RoomOK
  BY DEF Init, RoomOK
<1>5. StreamIntact
  <2>1. SubSeq(data, 1, 0) = <<>>
    BY SubSeqEmpty
  <2>2. <<>> \o <<>> = <<>>
    BY EmptySeq, ConcatEmptySeq
  <2> QED
    BY <1>3, <2>1, <2>2 DEF Init, StreamIntact
<1> QED
  BY <1>1, <1>2, <1>3, <1>4, <1>5 DEF SharedInv, TypeInv, Steady

\* SharedInv is inductive.
LEMMA SharedInvStep ==
  ASSUME SharedUse, SharedInv, [Next]_vars
  PROVE  SharedInv'
<1>1. TypeInv /\ Exclusive /\ Steady /\ Room
  BY DEF SharedInv, TypeInv, Steady, Room
<1>2. TypeInv'
  BY <1>1, TypeInvStep
<1>3. Exclusive'
  BY <1>1, ExclusiveStep
<1>4. Steady'
  BY <1>1, SteadyStep
<1>5. Room'
  BY <1>1, RoomStep
<1>6. StreamIntact'
  BY <1>1, StreamStep DEF SharedInv
<1> QED
  BY <1>2, <1>3, <1>4, <1>5, <1>6 DEF SharedInv, TypeInv, Steady, Room

\* However threads append, write and freeze a buffer that is not freeable, the
\* mutex keeps their critical sections apart, every append has the room that its
\* resize made, and the bytes are in order.
THEOREM SharedInvariant == ASSUME SharedUse PROVE Spec => []SharedInv
  BY SharedInvInit, SharedInvStep, PTL DEF Spec

\* However many threads append and write a buffer that is not freeable, the
\* fields stay within the allocation, no byte is lost, repeated or reordered,
\* and no step touches freed memory, whichever allocations fail.
THEOREM SharedUseIsSafe ==
  ASSUME SharedUse
  PROVE  Spec => [](UsedWithinMax /\ StreamIntact /\ NoFault)
<1>1. SharedInv => UsedWithinMax /\ StreamIntact /\ NoFault
  BY DEF SharedInv
<1> QED
  BY <1>1, SharedInvariant, PTL

-----------------------------------------------------------------------------
(***************************************************************************)
(* Refinement.                                                             *)
(***************************************************************************)

\* A new buffer is an empty stream.
LEMMA StreamRefinementInit == Init => Stream!StreamInit
  BY DEF Init, Stream!StreamInit

\* A write(2) hands over the next bytes of the stream, or none.
LEMMA WriteIsDeliver ==
  ASSUME TypeInv, pos <= Used, StreamIntact, NEW t \in Threads,
         NEW n \in 0 .. Remaining, Write(t, n)
  PROVE  [Stream!StreamNext]_(Stream!streamVars)
<1>1. /\ SubSeq(appended, Len(sent) + 1, Len(sent) + n)
            = SubSeq(data, pos + 1, pos + n)
      /\ n \in 0 .. (Len(appended) - Len(sent))
  BY WriteMovesAlongStream
<1>2. Stream!Deliver(n)
  BY <1>1 DEF Write, Stream!Deliver
<1>3. CASE n = 0
  <2>1. SubSeq(data, pos + 1, pos + n) = <<>>
    BY <1>3, SubSeqEmpty DEF TypeInv, TypeOK
  <2>2. sent' = sent
    BY <2>1, ConcatEmptySeq DEF Write, TypeInv, TypeOK
  <2> QED
    BY <2>2 DEF Write, Stream!streamVars
<1>4. CASE n # 0
  <2>1. n \in 1 .. (Len(appended) - Len(sent))
    BY <1>1, <1>4, LenProperties DEF TypeInv, TypeOK
  <2> QED
    BY <1>2, <2>1 DEF Stream!StreamNext
<1> QED
  BY <1>3, <1>4

\* A copy is an Accept, a write(2) is a Deliver, and no other step of shared
\* use is visible in the stream.
LEMMA StreamRefinementStep ==
  ASSUME SharedUse, SharedInv, [Next]_vars
  PROVE  [Stream!StreamNext]_(Stream!streamVars)
<1> DEFINE Same == UNCHANGED Stream!streamVars
<1>1. TypeInv /\ Undisturbed /\ pos <= Used /\ StreamIntact
  BY DEF SharedInv, TypeInv
<1>2. CASE UNCHANGED vars
  BY <1>2 DEF vars, history, Stream!streamVars
<1>3. ASSUME NEW t \in Threads, NEW o \in Appends, NEW s \in Strings,
             AppendCall(t, o, s)
      PROVE  Same
  BY <1>3 DEF AppendCall, history, Stream!streamVars
<1>4. ASSUME NEW t \in Threads,
             \/ WriteCall(t) \/ Freeze(t) \/ Lock(t) \/ Unlock(t) \/ Fit(t)
             \/ Grow(t) \/ Allocate(t) \/ AllocateFails(t) \/ WriteFails(t)
      PROVE  Same
  BY <1>4 DEF WriteCall, Freeze, Lock, Unlock, Fit, Grow, Allocate,
              AllocateFails, WriteFails, history, Stream!streamVars
<1>5. ASSUME NEW t \in Threads, Copy(t)
      PROVE  [Stream!StreamNext]_(Stream!streamVars)
  <2>1. str[t] \in Strings
    BY <1>5 DEF Copy, SharedInv, CopiesAString, PlaceOK
  <2>2. Stream!Accept(str[t])
    BY <1>5 DEF Copy, Stream!Accept
  <2> QED
    BY <2>1, <2>2 DEF Stream!StreamNext
<1>6. ASSUME NEW t \in Threads, NEW n \in 0 .. Remaining, Write(t, n)
      PROVE  [Stream!StreamNext]_(Stream!streamVars)
  BY <1>1, <1>6, WriteIsDeliver
<1> QED
  BY <1>1, <1>2, <1>3, <1>4, <1>5, <1>6, SharedActions

\* excom_buffer_resize makes the room that the memcpy of an append then needs,
\* whatever the other threads do: used never passes max.
THEOREM AppendsFit == ASSUME SharedUse PROVE Spec => []UsedWithinMax
<1>1. SharedInv => UsedWithinMax
  BY DEF SharedInv
<1> QED
  BY <1>1, SharedInvariant, PTL

\* In shared use no memcpy and no write(2) touches freed memory or NULL: only a
\* freeable buffer is destroyed by excom_buffer_write.
THEOREM SharedUseNeverFaults == ASSUME SharedUse PROVE Spec => []NoFault
<1>1. SharedInv => NoFault
  BY DEF SharedInv
<1> QED
  BY <1>1, SharedInvariant, PTL

\* In shared use the buffer implements the byte stream of module ByteStream.
THEOREM SharedUseImplementsStream ==
  ASSUME SharedUse
  PROVE  Spec => ImplementsStream
<1>1. Init => Stream!StreamInit
  BY StreamRefinementInit
<1>2. SharedInv /\ [Next]_vars => [Stream!StreamNext]_(Stream!streamVars)
  BY StreamRefinementStep
<1> QED
  BY <1>1, <1>2, SharedInvariant, PTL DEF Spec, ImplementsStream,
     Stream!StreamSpec

-----------------------------------------------------------------------------
(***************************************************************************)
(* A single owner, who may free, destroy, reset and resize the buffer.     *)
(***************************************************************************)

\* How one thread may use a buffer, freeable or not: the whole interface, but for
\* the sappend that does not look at a failed resize.
OwnerUse(o) == Threads = {o} /\ (MallocMayFail => "sappend" \notin Ops[o])

\* The room of the call in progress: what its resize will allocate is enough for
\* its append, and never less than there was.
OwnerRoom(o) ==
  /\ pos <= Used /\ UsedWithinMax
  /\ pc[o] \in {"grow", "malloc"} =>
       /\ new_size[o] >= max
       /\ op[o] \in Appends => to_fit[o] = Used + Len(str[o])
  /\ pc[o] = "malloc" => new_size[o] >= to_fit[o]
  /\ pc[o] = "copy" => Used + Len(str[o]) <= max

\* A write destroys only a buffer that it has drained, and nothing is in a buffer
\* that is about to be allocated again.
Drained(o) ==
  /\ pc[o] \in {"release", "free", "clear"} /\ op[o] = "write" => pos = Used
  /\ pc[o] \in {"relock", "remalloc"} => data = <<>> /\ pos = 0

\* Freed memory is forgotten by the very next step, and a buffer without memory
\* is empty; after a failed reset it has its first capacity, else none.
OwnerMemory(o) ==
  ~fault =>
    /\ mem = "freed" => pc[o] = "clear"
    /\ mem = "null" => data = <<>> /\ pos = 0 /\ max \in {0, InitSize}

\* The inductive invariant of a single owner.
OwnerInv(o) ==
  TypeInv /\ OwnerRoom(o) /\ Drained(o) /\ OwnerMemory(o) /\ StreamIntact
    /\ FaultNeedsFailedReset

\* The steps of the only thread.
LEMMA OwnerActions ==
  ASSUME NEW o, OwnerUse(o), Next
  PROVE  \/ \E a \in Appends, s \in Strings : AppendCall(o, a, s)
         \/ WriteCall(o) \/ ResetCall(o) \/ DestroyCall(o) \/ Freeze(o)
         \/ \E n \in FitSizes : ResizeCall(o, n)
         \/ Lock(o) \/ Unlock(o) \/ Release(o) \/ Relock(o) \/ WriteFails(o)
         \/ Fit(o) \/ Grow(o) \/ Allocate(o) \/ AllocateFails(o) \/ Copy(o)
         \/ \E n \in 0 .. Remaining : Write(o, n)
         \/ Free(o) \/ Clear(o) \/ Remalloc(o)
<1>1. PICK t \in Threads : Call(t) \/ Step(t)
  BY DEF Next
<1>2. t = o
  BY DEF OwnerUse
<1>3. Call(o) \/ Step(o)
  BY <1>1, <1>2
<1> QED
  BY <1>3 DEF Call, Step

\* Where a failed resize of the owner leads: never to the copy.
LEMMA OwnerGivesUp ==
  ASSUME NEW o, OwnerUse(o), TypeInv, AllocateFails(o)
  PROVE  pc'[o] \in {"idle", "unlock"}
<1>1. o \in Threads
  BY DEF OwnerUse
<1>2. op[o] # "sappend"
  BY <1>1 DEF OwnerUse, AllocateFails, TypeInv, PlaceOK
<1> QED
  BY <1>1, <1>2 DEF AllocateFails, Goto, TypeInv, TypeOK

\* The resize of the owner makes room for its append, and none makes the buffer
\* smaller than what it holds.
LEMMA OwnerRoomStep ==
  ASSUME NEW o, OwnerUse(o), TypeInv, OwnerRoom(o), Drained(o), Next
  PROVE  OwnerRoom(o)'
<1>0. o \in Threads
  BY DEF OwnerUse
<1>1. Len(data) \in Nat /\ Len(str[o]) \in Nat /\ Len(<<>>) = 0
  BY <1>0, LenProperties, EmptySeq DEF TypeInv, TypeOK
<1> USE <1>0, <1>1 DEF TypeInv, TypeOK, OwnerRoom, UsedWithinMax, Used, memory, locals
<1>2. ASSUME NEW a \in Appends, NEW s \in Strings, AppendCall(o, a, s)
      PROVE  OwnerRoom(o)'
  BY <1>2 DEF AppendCall, Begin, Goto
<1>3. CASE WriteCall(o) \/ ResetCall(o)
  BY <1>3 DEF WriteCall, ResetCall, Begin, Goto
<1>4. CASE DestroyCall(o) \/ Freeze(o)
  BY <1>4 DEF DestroyCall, Freeze, Begin, Goto
<1>5. ASSUME NEW n \in FitSizes, ResizeCall(o, n)
      PROVE  OwnerRoom(o)'
  BY <1>5 DEF ResizeCall, Begin, EnterResize, Goto, Appends
<1>6. CASE Lock(o)
  <2>1. pc'[o] \in {"fit", "write", "free"}
    BY <1>6 DEF Lock, Entry, Goto, PlaceOK, Appends
  <2> QED
    BY <1>6, <2>1 DEF Lock
<1>7. CASE Unlock(o) \/ Release(o) \/ Relock(o) \/ WriteFails(o)
  BY <1>7 DEF Unlock, Release, Relock, WriteFails, Goto
<1>8. CASE Fit(o)
  <2>1. CASE EnterResize(o, Used + Len(str[o]))
    BY <1>8, <2>1 DEF Fit, EnterResize, Goto
  <2>2. CASE /\ Used + Len(str[o]) <= max
             /\ Goto(o, "copy") /\ UNCHANGED <<to_fit, new_size>>
    BY <1>8, <2>2 DEF Fit, Goto
  <2> QED
    BY <1>8, <2>1, <2>2 DEF Fit
<1>9. CASE Grow(o)
  BY <1>9 DEF Grow, Goto
<1>10. CASE Allocate(o)
  <2>1. pc'[o] = (IF op[o] = "resize" THEN "idle" ELSE "copy") /\ max' = new_size[o]
    BY <1>10 DEF Allocate, Goto
  <2>2. new_size[o] >= max /\ new_size[o] >= to_fit[o] /\ new_size[o] \in Nat
    BY <1>10 DEF Allocate
  <2>3. op[o] # "resize" => to_fit[o] = Used + Len(str[o])
    BY <1>10 DEF Allocate, PlaceOK
  <2> QED
    BY <1>10, <2>1, <2>2, <2>3 DEF Allocate
<1>11. CASE AllocateFails(o)
  <2>1. pc'[o] \in {"idle", "unlock"}
    BY <1>11, OwnerGivesUp
  <2> QED
    BY <1>11, <2>1 DEF AllocateFails
<1>12. CASE Copy(o)
  <2>1. Len(data \o str[o]) = Len(data) + Len(str[o])
    BY ConcatProperties
  <2> QED
    BY <1>12, <2>1 DEF Copy, Goto
<1>13. ASSUME NEW n \in 0 .. Remaining, Write(o, n)
       PROVE  OwnerRoom(o)'
  BY <1>13 DEF Write, Goto, Remaining
<1>14. CASE Free(o)
  BY <1>14 DEF Free, Goto
<1>15. CASE Clear(o)
  <2>1. pc'[o] \in {"relock", "remalloc", "idle"}
    BY <1>15 DEF Clear, Goto, PlaceOK
  <2> QED
    BY <1>15, <2>1 DEF Clear
<1>16. CASE Remalloc(o)
  BY <1>16, SizeAssumption DEF Remalloc, Goto
<1> QED
  BY <1>2, <1>3, <1>4, <1>5, <1>6, <1>7, <1>8, <1>9, <1>10, <1>11, <1>12, <1>13,
     <1>14, <1>15, <1>16, OwnerActions

\* excom_buffer_write destroys the buffer only when it has written all of it.
LEMMA DrainedStep ==
  ASSUME NEW o, OwnerUse(o), TypeInv, OwnerRoom(o), Drained(o), Next
  PROVE  Drained(o)'
<1>0. o \in Threads
  BY DEF OwnerUse
<1>1. Len(data) \in Nat
  BY LenProperties DEF TypeInv, TypeOK
<1> USE <1>0 DEF TypeInv, TypeOK, Drained, Used, memory, locals
<1>2. ASSUME NEW a \in Appends, NEW s \in Strings, AppendCall(o, a, s)
      PROVE  Drained(o)'
  BY <1>2 DEF AppendCall, Begin, Goto
<1>3. CASE WriteCall(o) \/ ResetCall(o)
  BY <1>3 DEF WriteCall, ResetCall, Begin, Goto
<1>4. CASE DestroyCall(o) \/ Freeze(o)
  BY <1>4 DEF DestroyCall, Freeze, Begin, Goto
<1>5. ASSUME NEW n \in FitSizes, ResizeCall(o, n)
      PROVE  Drained(o)'
  BY <1>5 DEF ResizeCall, Begin, EnterResize, Goto
<1>6. CASE Lock(o)
  <2>1. pc'[o] \in {"fit", "write"} \/ (pc'[o] = "free" /\ op[o] = "reset")
    BY <1>6 DEF Lock, Entry, Goto, PlaceOK, Appends
  <2> QED
    BY <1>6, <2>1 DEF Lock
<1>7. CASE Unlock(o) \/ Release(o) \/ Relock(o) \/ WriteFails(o)
  BY <1>7 DEF Unlock, Release, Relock, WriteFails, Goto
<1>8. CASE Fit(o)
  BY <1>8 DEF Fit, EnterResize, Goto
<1>9. CASE Grow(o)
  BY <1>9 DEF Grow, Goto
<1>10. CASE Allocate(o)
  BY <1>10 DEF Allocate, Goto
<1>11. CASE AllocateFails(o)
  BY <1>11, OwnerGivesUp DEF AllocateFails
<1>12. CASE Copy(o)
  BY <1>12 DEF Copy, Goto
<1>13. ASSUME NEW n \in 0 .. Remaining, Write(o, n)
       PROVE  Drained(o)'
  <2>1. pc'[o] = (IF Remaining = n /\ freeable THEN "release" ELSE "unlock")
    BY <1>13 DEF Write, Goto
  <2>2. Remaining = n => pos + n = Len(data)
    BY <1>1 DEF Remaining
  <2> QED
    BY <1>13, <2>1, <2>2 DEF Write
<1>14. CASE Free(o)
  BY <1>14 DEF Free, Goto
<1>15. CASE Clear(o)
  <2>1. pc'[o] \in {"relock", "remalloc", "idle"}
    BY <1>15 DEF Clear, Goto, PlaceOK
  <2> QED
    BY <1>15, <2>1 DEF Clear
<1>16. CASE Remalloc(o)
  BY <1>16 DEF Remalloc, Goto
<1> QED
  BY <1>2, <1>3, <1>4, <1>5, <1>6, <1>7, <1>8, <1>9, <1>10, <1>11, <1>12, <1>13,
     <1>14, <1>15, <1>16, OwnerActions

\* Memory that destroy has freed is not touched before buf is NULL, and of the
\* steps that touch NULL there is only the copy after a failed reset.
LEMMA OwnerMemoryStep ==
  ASSUME NEW o, OwnerUse(o), TypeInv, OwnerRoom(o), OwnerMemory(o), Next
  PROVE  OwnerMemory(o)' /\ FaultNeedsFailedReset'
<1> DEFINE Safe == OwnerMemory(o)' /\ FaultNeedsFailedReset'
<1>0. o \in Threads /\ ~fault
  BY DEF OwnerUse, Next
<1>1. Len(data) \in Nat /\ Len(str[o]) \in Nat /\ data \in Seq(Byte)
      /\ str[o] \in Seq(Byte)
  BY <1>0, LenProperties DEF TypeInv, TypeOK
<1>2. /\ mem = "freed" => pc[o] = "clear"
      /\ mem = "null" => data = <<>> /\ pos = 0 /\ max \in {0, InitSize}
      /\ mem \in {"live", "freed", "null"} /\ pc \in [Threads -> Places]
  BY <1>0 DEF OwnerMemory, TypeInv, TypeOK
<1>3. ASSUME UNCHANGED <<memory, fault>>, pc[o] # "clear"
      PROVE  Safe
  BY <1>0, <1>2, <1>3 DEF OwnerMemory, FaultNeedsFailedReset, memory
<1>4. ASSUME NEW a \in Appends, NEW s \in Strings, AppendCall(o, a, s)
      PROVE  Safe
  BY <1>3, <1>4 DEF AppendCall, Begin
<1>5. CASE WriteCall(o) \/ ResetCall(o) \/ DestroyCall(o) \/ Freeze(o)
  BY <1>3, <1>5 DEF WriteCall, ResetCall, DestroyCall, Freeze, Begin
<1>6. ASSUME NEW n \in FitSizes, ResizeCall(o, n)
      PROVE  Safe
  BY <1>3, <1>6 DEF ResizeCall, Begin
<1>7. CASE Lock(o) \/ Unlock(o) \/ Release(o) \/ Relock(o) \/ WriteFails(o)
  BY <1>3, <1>7 DEF Lock, Unlock, Release, Relock, WriteFails
<1>8. CASE Fit(o) \/ Grow(o) \/ AllocateFails(o)
  BY <1>3, <1>8 DEF Fit, Grow, AllocateFails
<1>9. CASE Allocate(o)
  <2>1. mem' = "live" /\ fault' = FALSE
    BY <1>2, <1>9 DEF Allocate
  <2> QED
    BY <2>1 DEF OwnerMemory, FaultNeedsFailedReset
<1>10. CASE Copy(o)
  <2>1. /\ data' = data \o str[o] /\ mem' = mem /\ pos' = pos /\ max' = max
        /\ fault' = (mem # "live" /\ str[o] # <<>>) /\ pc[o] = "copy"
    BY <1>10 DEF Copy
  <2>2. mem = "live" \/ mem = "null"
    BY <1>2, <2>1
  <2>3. Used + Len(str[o]) <= max
    BY <2>1 DEF OwnerRoom
  <2>4. CASE mem = "live"
    BY <2>1, <2>4 DEF OwnerMemory, FaultNeedsFailedReset
  <2>5. CASE mem = "null" /\ str[o] = <<>>
    <3>1. data' = <<>>
      BY <1>1, <1>2, <2>1, <2>5, ConcatEmptySeq
    <3> QED
      BY <1>2, <2>1, <2>5, <3>1 DEF OwnerMemory, FaultNeedsFailedReset
  <2>6. CASE mem = "null" /\ str[o] # <<>>
    <3>1. Len(str[o]) > 0 /\ Used = 0
      BY <1>1, <1>2, <2>6, EmptySeq DEF Used
    <3>2. max = InitSize
      BY <1>1, <1>2, <2>3, <2>6, <3>1
    <3> QED
      BY <2>1, <2>6, <3>2 DEF OwnerMemory, FaultNeedsFailedReset
  <2> QED
    BY <2>2, <2>4, <2>5, <2>6
<1>11. ASSUME NEW n \in 0 .. Remaining, Write(o, n)
       PROVE  Safe
  <2>1. /\ pc[o] = "write" /\ pos' = pos + n /\ fault' = (mem # "live" /\ n > 0)
        /\ UNCHANGED <<max, data, mem>>
    BY <1>11 DEF Write
  <2>2. mem = "live" \/ mem = "null"
    BY <1>2, <2>1
  <2>3. mem = "null" => n = 0
    BY <1>2, EmptySeq DEF Remaining, Used
  <2>4. fault' = FALSE
    <3>1. mem = "null" => ~(n > 0)
      BY <2>3
    <3>2. mem = "live" \/ ~(n > 0)
      BY <2>2, <3>1
    <3>3. CASE mem = "live"
      BY <2>1, <3>3, Zenon
    <3>4. CASE ~(n > 0)
      BY <2>1, <3>4, Zenon
    <3> QED
      BY <3>2, <3>3, <3>4
  <2>5. mem = "null" => pos' = 0
    BY <1>2, <2>1, <2>3
  <2> QED
    BY <1>2, <2>1, <2>2, <2>4, <2>5 DEF OwnerMemory, FaultNeedsFailedReset
<1>12. CASE Free(o)
  <2>1. /\ pc[o] = "free" /\ pc'[o] = "clear"
        /\ mem' = (IF freeable /\ mem = "live" THEN "freed" ELSE mem)
        /\ fault' = (freeable /\ mem = "freed") /\ UNCHANGED <<max, data, pos>>
    BY <1>0, <1>2, <1>12 DEF Free, Goto
  <2>2. fault' = FALSE
    BY <1>2, <2>1
  <2> QED
    BY <1>2, <2>1, <2>2 DEF OwnerMemory, FaultNeedsFailedReset
<1>13. CASE Clear(o)
  BY <1>0, <1>13 DEF Clear, OwnerMemory, FaultNeedsFailedReset
<1>14. CASE Remalloc(o)
  BY <1>0, <1>14 DEF Remalloc, OwnerMemory, FaultNeedsFailedReset
<1> QED
  BY <1>4, <1>5, <1>6, <1>7, <1>8, <1>9, <1>10, <1>11, <1>12, <1>13, <1>14, OwnerActions

\* A step that clears the buffer leaves nothing unwritten behind.
LEMMA ClearedStream ==
  ASSUME TypeOK, appended' = sent, UNCHANGED sent, data' = <<>>, pos' = 0
  PROVE  StreamIntact'
<1>1. SubSeq(<<>>, 1, 0) = <<>>
  BY SubSeqEmpty
<1>2. sent \in Seq(Byte) /\ Len(<<>>) = 0
  BY EmptySeq DEF TypeOK
<1>3. sent \o <<>> = sent
  BY <1>2, ConcatEmptySeq
<1> QED
  BY <1>1, <1>2, <1>3 DEF StreamIntact, Used

\* The stream of a single owner.
LEMMA OwnerStreamStep ==
  ASSUME NEW o, OwnerUse(o), TypeInv, OwnerRoom(o), Drained(o), StreamIntact, Next
  PROVE  StreamIntact'
<1>0. o \in Threads /\ pos <= Used /\ TypeOK
  BY DEF OwnerUse, OwnerRoom, TypeInv
<1>1. ASSUME UNCHANGED <<data, pos, appended, sent>>
      PROVE  StreamIntact'
  BY <1>1 DEF StreamIntact, Used
<1>2. ASSUME pos = Used
      PROVE  appended = sent
  <2>1. pos \in Nat /\ sent \in Seq(Byte) /\ Used \in Nat
    BY <1>0, <1>2 DEF TypeOK
  <2>2. SubSeq(data, pos + 1, Used) = <<>>
    BY <1>2, <2>1, SubSeqEmpty
  <2> QED
    BY <2>1, <2>2, ConcatEmptySeq DEF StreamIntact
<1> USE DEF memory, history
<1>4. ASSUME NEW a \in Appends, NEW s \in Strings, AppendCall(o, a, s)
      PROVE  StreamIntact'
  BY <1>1, <1>4 DEF AppendCall
<1>5. CASE WriteCall(o) \/ ResetCall(o) \/ DestroyCall(o) \/ Freeze(o)
  BY <1>1, <1>5 DEF WriteCall, ResetCall, DestroyCall, Freeze
<1>6. ASSUME NEW n \in FitSizes, ResizeCall(o, n)
      PROVE  StreamIntact'
  BY <1>1, <1>6 DEF ResizeCall
<1>7. CASE Lock(o) \/ Unlock(o) \/ Release(o) \/ Relock(o) \/ WriteFails(o)
  BY <1>1, <1>7 DEF Lock, Unlock, Release, Relock, WriteFails
<1>8. CASE Fit(o) \/ Grow(o) \/ Allocate(o) \/ AllocateFails(o) \/ Free(o)
  BY <1>1, <1>8 DEF Fit, Grow, Allocate, AllocateFails, Free
<1>9. CASE Copy(o)
  BY <1>0, <1>9, CopyExtendsStream
<1>10. ASSUME NEW n \in 0 .. Remaining, Write(o, n)
       PROVE  StreamIntact'
  BY <1>0, <1>10, WriteMovesAlongStream
<1>11. CASE Clear(o)
  <2>1. /\ pc[o] = "clear" /\ data' = <<>> /\ pos' = 0 /\ UNCHANGED sent
        /\ appended' = (IF op[o] = "write" THEN appended ELSE sent)
    BY <1>11 DEF Clear
  <2>2. op[o] = "write" => appended = sent
    BY <1>2, <2>1 DEF Drained
  <2>3. appended' = sent
    BY <2>1, <2>2
  <2> QED
    BY <1>0, <2>1, <2>3, ClearedStream
<1>12. CASE Remalloc(o)
  <2>1. /\ pc[o] = "remalloc" /\ data' = <<>> /\ pos' = 0
        /\ UNCHANGED <<appended, sent>>
    BY <1>12 DEF Remalloc
  <2>2. data = <<>> /\ pos = 0
    BY <2>1 DEF Drained
  <2> QED
    BY <1>1, <2>1, <2>2
<1> QED
  BY <1>4, <1>5, <1>6, <1>7, <1>8, <1>9, <1>10, <1>11, <1>12, OwnerActions

\* A buffer after its init has what the invariant of an owner asks for.
LEMMA OwnerInvInit ==
  ASSUME NEW o, OwnerUse(o), Init
  PROVE  OwnerInv(o)
<1>1. TypeInv
  BY TypeInvInit
<1>2. o \in Threads
  BY DEF OwnerUse
<1>3. pc[o] = "idle" /\ Used = 0 /\ pos = 0 /\ UsedWithinMax /\ ~fault /\ mem = "live"
  BY <1>2, SizeAssumption, EmptySeq DEF Init, Used, UsedWithinMax
<1>4. OwnerRoom(o) /\ Drained(o) /\ OwnerMemory(o) /\ FaultNeedsFailedReset
  BY <1>3 DEF OwnerRoom, Drained, OwnerMemory, FaultNeedsFailedReset
<1>5. StreamIntact
  <2>1. SubSeq(data, 1, 0) = <<>>
    BY SubSeqEmpty
  <2>2. <<>> \o <<>> = <<>>
    BY EmptySeq, ConcatEmptySeq
  <2> QED
    BY <1>3, <2>1, <2>2 DEF Init, StreamIntact
<1> QED
  BY <1>1, <1>4, <1>5 DEF OwnerInv

\* OwnerInv is inductive.
LEMMA OwnerInvStep ==
  ASSUME NEW o, OwnerUse(o), OwnerInv(o), [Next]_vars
  PROVE  OwnerInv(o)'
<1>1. CASE Next
  <2>1. TypeInv'
    BY TypeInvStep DEF OwnerInv
  <2>2. OwnerRoom(o)'
    BY <1>1, OwnerRoomStep DEF OwnerInv
  <2>3. Drained(o)'
    BY <1>1, DrainedStep DEF OwnerInv
  <2>4. OwnerMemory(o)' /\ FaultNeedsFailedReset'
    BY <1>1, OwnerMemoryStep DEF OwnerInv
  <2>5. StreamIntact'
    BY <1>1, OwnerStreamStep DEF OwnerInv
  <2> QED
    BY <2>1, <2>2, <2>3, <2>4, <2>5 DEF OwnerInv
<1>2. CASE UNCHANGED vars
  <2>1. TypeInv'
    BY TypeInvStep DEF OwnerInv
  <2>2. UNCHANGED <<max, data, pos, mem, pc, op, str, to_fit, new_size, appended, sent,
                    fault>>
    BY <1>2 DEF vars, memory, locals, history
  <2>3. OwnerRoom(o)' /\ Drained(o)' /\ StreamIntact'
    BY <2>2 DEF OwnerInv, OwnerRoom, Drained, StreamIntact, UsedWithinMax, Used
  <2>4. OwnerMemory(o)' /\ FaultNeedsFailedReset'
    BY <2>2 DEF OwnerInv, OwnerMemory, FaultNeedsFailedReset
  <2> QED
    BY <2>1, <2>3, <2>4 DEF OwnerInv
<1> QED
  BY <1>1, <1>2

\* A single owner who frees, resets, destroys and resizes a buffer as it likes
\* keeps used within max and the bytes in order; and only an append after a reset
\* whose malloc failed touches NULL, because reset sets max all the same.
THEOREM OwnerIsSafe ==
  ASSUME NEW o, OwnerUse(o)
  PROVE  Spec => [](UsedWithinMax /\ StreamIntact /\ FaultNeedsFailedReset)
<1>1. Init => OwnerInv(o)
  BY OwnerInvInit
<1>2. OwnerInv(o) /\ [Next]_vars => OwnerInv(o)'
  BY OwnerInvStep
<1>3. OwnerInv(o) => UsedWithinMax /\ StreamIntact /\ FaultNeedsFailedReset
  BY DEF OwnerInv, OwnerRoom
<1> QED
  BY <1>1, <1>2, <1>3, PTL DEF Spec

\* The string of the owner's append stays what it was until the call is over.
LEMMA OwnerCopiesStep ==
  ASSUME NEW o, OwnerUse(o), TypeInv, CopiesAString, [Next]_vars
  PROVE  CopiesAString'
<1>0. o \in Threads /\ \A t \in Threads : t = o
  BY DEF OwnerUse
<1>1. SUFFICES (pc[o] # "idle" /\ op[o] \in Appends => str[o] \in Strings)'
  BY <1>0 DEF CopiesAString
<1>2. pc[o] # "idle" /\ op[o] \in Appends => str[o] \in Strings
  BY <1>0 DEF CopiesAString
<1>3. ASSUME UNCHANGED <<op, str>>, pc[o] # "idle"
      PROVE  (pc[o] # "idle" /\ op[o] \in Appends => str[o] \in Strings)'
  BY <1>2, <1>3
<1>4. CASE UNCHANGED vars
  BY <1>2, <1>4 DEF vars, locals
<1>5. ASSUME NEW a \in Appends, NEW s \in Strings, AppendCall(o, a, s)
      PROVE  (pc[o] # "idle" /\ op[o] \in Appends => str[o] \in Strings)'
  BY <1>0, <1>5 DEF AppendCall, TypeInv, TypeOK
<1>6. CASE WriteCall(o) \/ ResetCall(o) \/ DestroyCall(o) \/ Freeze(o)
  BY <1>0, <1>6 DEF WriteCall, ResetCall, DestroyCall, Freeze, Begin, Appends,
                    TypeInv, TypeOK
<1>7. ASSUME NEW n \in FitSizes, ResizeCall(o, n)
      PROVE  (pc[o] # "idle" /\ op[o] \in Appends => str[o] \in Strings)'
  BY <1>0, <1>7 DEF ResizeCall, Begin, Appends, TypeInv, TypeOK
<1>8. CASE Lock(o) \/ Unlock(o) \/ Release(o) \/ Relock(o) \/ WriteFails(o)
  BY <1>3, <1>8 DEF Lock, Unlock, Release, Relock, WriteFails, locals
<1>9. CASE Fit(o) \/ Grow(o) \/ Allocate(o) \/ AllocateFails(o) \/ Copy(o)
  BY <1>3, <1>9 DEF Fit, Grow, Allocate, AllocateFails, Copy, locals
<1>10. ASSUME NEW n \in 0 .. Remaining, Write(o, n)
       PROVE  (pc[o] # "idle" /\ op[o] \in Appends => str[o] \in Strings)'
  BY <1>3, <1>10 DEF Write, locals
<1>11. CASE Free(o) \/ Clear(o) \/ Remalloc(o)
  BY <1>3, <1>11 DEF Free, Clear, Remalloc, locals
<1> QED
  BY <1>4, <1>5, <1>6, <1>7, <1>8, <1>9, <1>10, <1>11, OwnerActions

\* A copy is an Accept, a write(2) a Deliver, and the clear of a reset or of a
\* destroy a Wipe; the clear of a drained buffer is not visible.
LEMMA OwnerRefinementStep ==
  ASSUME NEW o, OwnerUse(o), OwnerInv(o), CopiesAString, [Next]_vars
  PROVE  [Stream!StreamNext]_(Stream!streamVars)
<1>1. o \in Threads /\ TypeInv /\ pos <= Used /\ StreamIntact /\ Drained(o)
  BY DEF OwnerUse, OwnerInv, OwnerRoom
<1>2. UNCHANGED <<appended, sent>> => UNCHANGED Stream!streamVars
  BY DEF Stream!streamVars
<1> USE DEF history
<1>3. CASE UNCHANGED vars
  BY <1>2, <1>3 DEF vars
<1>4. ASSUME NEW a \in Appends, NEW s \in Strings, AppendCall(o, a, s)
      PROVE  UNCHANGED <<appended, sent>>
  BY <1>4 DEF AppendCall
<1>5. ASSUME WriteCall(o) \/ ResetCall(o) \/ DestroyCall(o) \/ Freeze(o)
      PROVE  UNCHANGED <<appended, sent>>
  BY <1>5 DEF WriteCall, ResetCall, DestroyCall, Freeze
<1>6. ASSUME NEW n \in FitSizes, ResizeCall(o, n)
      PROVE  UNCHANGED <<appended, sent>>
  BY <1>6 DEF ResizeCall
<1>7. ASSUME Lock(o) \/ Unlock(o) \/ Release(o) \/ Relock(o) \/ WriteFails(o)
      PROVE  UNCHANGED <<appended, sent>>
  BY <1>7 DEF Lock, Unlock, Release, Relock, WriteFails
<1>8. ASSUME \/ Fit(o) \/ Grow(o) \/ Allocate(o) \/ AllocateFails(o)
             \/ Free(o) \/ Remalloc(o)
      PROVE  UNCHANGED <<appended, sent>>
  BY <1>8 DEF Fit, Grow, Allocate, AllocateFails, Free, Remalloc
<1>9. CASE Copy(o)
  <2>1. str[o] \in Strings
    BY <1>1, <1>9 DEF Copy, CopiesAString, TypeInv, PlaceOK
  <2>2. Stream!Accept(str[o])
    BY <1>9 DEF Copy, Stream!Accept
  <2> QED
    BY <2>1, <2>2 DEF Stream!StreamNext
<1>10. ASSUME NEW n \in 0 .. Remaining, Write(o, n)
       PROVE  [Stream!StreamNext]_(Stream!streamVars)
  BY <1>1, <1>10, WriteIsDeliver
<1>11. CASE Clear(o)
  <2>1. sent' = sent /\ appended' = (IF op[o] = "write" THEN appended ELSE sent)
    BY <1>11 DEF Clear
  <2>2. CASE op[o] = "write"
    BY <1>2, <2>1, <2>2
  <2>3. CASE op[o] # "write"
    BY <2>1, <2>3 DEF Stream!StreamNext, Stream!Wipe
  <2> QED
    BY <2>2, <2>3
<1> QED
  BY <1>2, <1>3, <1>4, <1>5, <1>6, <1>7, <1>8, <1>9, <1>10, <1>11, OwnerActions

\* For a single owner the buffer implements the byte stream too, resets, destroys
\* and failed allocations included.
THEOREM OwnerImplementsStream ==
  ASSUME NEW o, OwnerUse(o)
  PROVE  Spec => ImplementsStream
<1>1. Init => OwnerInv(o) /\ Stream!StreamInit
  BY OwnerInvInit, StreamRefinementInit
<1>2. Init => CopiesAString
  BY DEF Init, CopiesAString
<1>3. OwnerInv(o) /\ [Next]_vars => OwnerInv(o)'
  BY OwnerInvStep
<1>4. OwnerInv(o) /\ CopiesAString /\ [Next]_vars => CopiesAString'
  BY OwnerCopiesStep DEF OwnerInv
<1>5. OwnerInv(o) /\ CopiesAString /\ [Next]_vars
        => [Stream!StreamNext]_(Stream!streamVars)
  BY OwnerRefinementStep
<1> QED
  BY <1>1, <1>2, <1>3, <1>4, <1>5, PTL
     DEF Spec, ImplementsStream, Stream!StreamSpec
=============================================================================
