------------------------ MODULE VerbStdThreadProofs ------------------------
(***************************************************************************)
(* The mutex of a channel excludes, no wakeup is lost, and the channels    *)
(* are those of VerbChannel, for any number of threads, channels and       *)
(* mutexes, whatever calls the program makes.                              *)
(***************************************************************************)
EXTENDS VerbStdThread, FiniteSetTheorems, SequenceTheorems, TLAPS

\* What a call is about: a channel, a mutex or a thread.
CallsTyped ==
  \A t \in Thread :
    /\ pc[t] \in Calls \ {"join", "lock"} => at[t] \in Channel
    /\ pc[t] = "lock" => at[t] \in Mutex
    /\ pc[t] = "join" => at[t] \in Thread
    /\ pc[t] \in {"send", "push"} => arg[t] \in Prim

\* The threads are killed when, and only when, the process exits.
KilledAtExit ==
  \A t \in Thread \ {Main} : pc[t] = "killed" <=> pc[Main] = "exited"

\* Until then a thread is in a critical section exactly if it holds the
\* mutex of the channel.
LockOwner ==
  pc[Main] # "exited" =>
    \A t \in Thread, c \in Channel :
      held[c] = t <=> pc[t] \in Critical /\ at[t] = c

ControlInv ==
  /\ TypeOK
  /\ CallsTyped
  /\ KilledAtExit
  /\ LockOwner

\* The threads that will still deal with a value in the queue of c.
Telling(c)   == Inside({"unlock", "notify"}, c)
Listening(c) == Inside(Awake, c)

ValuesClaimed ==
  \A c \in Channel :
    Waiters(c) # {} => Len(q[c]) <= Cardinality(Telling(c)) + Cardinality(Listening(c))

\* The inductive invariant.
IInv == ControlInv /\ ValuesClaimed

(***************************************************************************)
(* Control: types, the end of the process, and the mutex of a channel.     *)
(***************************************************************************)
LEMMA ControlInit == Init => ControlInv
BY ThreadAssumption
   DEF Init, ControlInv, TypeOK, CallsTyped, KilledAtExit, LockOwner, ThreadAssumption,
       Calls, Critical, Awake

(* Each step of send keeps the control part.                               *)
LEMMA SendControl ==
  ASSUME ControlInv, NEW t \in Thread,
         \/ \E c \in Channel, v \in Value : ChannelSend(t, c, v)
         \/ LockToSend(t)
         \/ PushBack(t)
         \/ UnlockSent(t)
         \/ \E w \in Thread \cup {None} : NotifyOne(t, w)
  PROVE  ControlInv'
<1> USE ThreadAssumption
    DEF ThreadAssumption, ControlInv, TypeOK, CallsTyped, KilledAtExit, LockOwner,
        Calls, Critical, Awake
<1>1. ASSUME NEW c \in Channel, NEW v \in Value, ChannelSend(t, c, v)
      PROVE  ControlInv'
  BY <1>1 DEF ChannelSend, Sendable, Enter
<1>2. CASE LockToSend(t)
  BY <1>2 DEF LockToSend, Goto, Acquire
<1>3. CASE PushBack(t)
  BY <1>3, AppendProperties DEF PushBack, Goto
<1>4. CASE UnlockSent(t)
  BY <1>4 DEF UnlockSent, Goto, Release
<1>5. ASSUME NEW w \in Thread \cup {None}, NotifyOne(t, w)
      PROVE  ControlInv'
  BY <1>5 DEF NotifyOne, Notified, Waiters, Inside
<1> QED
  BY <1>1, <1>2, <1>3, <1>4, <1>5

(* Each step of recv keeps the control part.                               *)
LEMMA RecvControl ==
  ASSUME ControlInv, NEW t \in Thread,
         \/ \E c \in Channel : ChannelRecv(t, c)
         \/ LockToReceive(t)
         \/ Wait(t)
         \/ SpuriousWakeup(t)
         \/ PopFront(t)
         \/ UnlockReceived(t)
  PROVE  ControlInv'
<1> USE ThreadAssumption
    DEF ThreadAssumption, ControlInv, TypeOK, CallsTyped, KilledAtExit, LockOwner,
        Calls, Critical, Awake
<1>1. ASSUME NEW c \in Channel, ChannelRecv(t, c)
      PROVE  ControlInv'
  BY <1>1 DEF ChannelRecv, Enter
<1>2. CASE LockToReceive(t)
  <2>1. /\ pc[t] \in {"recv", "relock"}
        /\ pc' = [pc EXCEPT ![t] = "check"]
        /\ held[at[t]] = None
        /\ held' = [held EXCEPT ![at[t]] = t]
        /\ UNCHANGED <<at, arg, result, q, handle, sent>>
    BY <1>2 DEF LockToReceive, Goto, Acquire
  <2> QED
    BY <2>1
<1>3. CASE Wait(t)
  BY <1>3 DEF Wait, Goto, Release
<1>4. CASE SpuriousWakeup(t)
  BY <1>4 DEF SpuriousWakeup, Goto
<1>5. CASE PopFront(t)
  BY <1>5, HeadTailProperties DEF PopFront, Goto
<1>6. CASE UnlockReceived(t)
  BY <1>6 DEF UnlockReceived, Leave, Release
<1> QED
  BY <1>1, <1>2, <1>3, <1>4, <1>5, <1>6

(* The calls about mutexes and threads touch no channel.                   *)
LEMMA OtherControl ==
  ASSUME ControlInv, NEW t \in Thread,
         \/ \E m \in Mutex : CallLock(t, m) \/ MutexUnlock(t, m)
         \/ MutexLock(t)
         \/ \E u \in Thread : ThreadSpawn(t, u) \/ CallJoin(t, u)
         \/ ThreadExit(t)
         \/ at[t] \in Thread /\ JoinReturns(t)
  PROVE  ControlInv'
<1> USE ThreadAssumption
    DEF ThreadAssumption, ControlInv, TypeOK, CallsTyped, KilledAtExit, LockOwner,
        Calls, Critical, Awake
<1>1. ASSUME NEW m \in Mutex, CallLock(t, m)
      PROVE  ControlInv'
  BY <1>1 DEF CallLock, Enter
<1>2. ASSUME NEW m \in Mutex, MutexUnlock(t, m)
      PROVE  ControlInv'
  BY <1>2 DEF MutexUnlock, Release
<1>3. CASE MutexLock(t)
  BY <1>3 DEF MutexLock, Leave, Acquire
<1>4. ASSUME NEW u \in Thread, ThreadSpawn(t, u)
      PROVE  ControlInv'
  BY <1>4 DEF ThreadSpawn
<1>5. ASSUME NEW u \in Thread, CallJoin(t, u)
      PROVE  ControlInv'
  BY <1>5 DEF CallJoin, Enter
<1>6. CASE ThreadExit(t)
  BY <1>6 DEF ThreadExit, Goto
<1>7. CASE at[t] \in Thread /\ JoinReturns(t)
  BY <1>7 DEF JoinReturns, Leave
<1> QED
  BY <1>1, <1>2, <1>3, <1>4, <1>5, <1>6, <1>7

\* The end of the process keeps the control invariant: every thread that is
\* left stops where it is.
LEMMA ExitControl ==
  ASSUME ControlInv, ProcessExit
  PROVE  ControlInv'
BY ThreadAssumption
   DEF ThreadAssumption, ControlInv, TypeOK, CallsTyped, KilledAtExit, LockOwner,
       Calls, Critical, Awake, ProcessExit

(* Every step does.                                                        *)
LEMMA ControlStep ==
  ASSUME ControlInv, [Next]_vars
  PROVE  ControlInv'
<1>1. CASE UNCHANGED vars
  BY <1>1 DEF vars, ControlInv, TypeOK, CallsTyped, KilledAtExit, LockOwner
<1>2. CASE ProcessExit
  BY <1>2, ExitControl
<1>3. ASSUME NEW t \in Thread, InRuntime(t)
      PROVE  ControlInv'
  BY <1>3, SendControl, RecvControl, OtherControl DEF InRuntime
<1>4. ASSUME NEW t \in Thread, InProgram(t)
      PROVE  ControlInv'
  BY <1>4, SendControl, RecvControl, OtherControl DEF InProgram
<1>5. ASSUME NEW t \in Thread, SpuriousWakeup(t)
      PROVE  ControlInv'
  BY <1>5, RecvControl
<1> QED
  BY <1>1, <1>2, <1>3, <1>4, <1>5 DEF Next

(***************************************************************************)
(* Wakeups.                                                                *)
(***************************************************************************)

(* A set of threads is finite, so its members can be counted; a set that   *)
(* differs from it in one thread at most has one member more or less.      *)
LEMMA Counted ==
  ASSUME NEW S \in SUBSET Thread
  PROVE  IsFiniteSet(S) /\ Cardinality(S) \in Nat
BY ThreadAssumption, FS_Subset, FS_CardinalityType DEF ThreadAssumption

\* Two sets of threads that differ at most in t differ in size by at most
\* one.
LEMMA OneMember ==
  ASSUME NEW S \in SUBSET Thread, NEW T \in SUBSET Thread, NEW t \in Thread,
         T \ {t} = S \ {t}
  PROVE  Cardinality(T) = Cardinality(S) - (IF t \in S THEN 1 ELSE 0)
                                         + (IF t \in T THEN 1 ELSE 0)
<1>1. /\ IsFiniteSet(S) /\ Cardinality(S) \in Nat
      /\ IsFiniteSet(T) /\ Cardinality(T) \in Nat
  BY Counted
<1>2. Cardinality(S \ {t}) = IF t \in S THEN Cardinality(S) - 1 ELSE Cardinality(S)
  BY <1>1, FS_RemoveElement
<1>3. Cardinality(T \ {t}) = IF t \in T THEN Cardinality(T) - 1 ELSE Cardinality(T)
  BY <1>1, FS_RemoveElement
<1> QED
  BY <1>1, <1>2, <1>3

\* What ValuesClaimed says of one channel.
Claimed(c) ==
  Waiters(c) # {} => Len(q[c]) <= Cardinality(Telling(c)) + Cardinality(Listening(c))

(* A move of one thread keeps the values of a channel claimed if none is   *)
(* added, it claimed none before, and it does not go to sleep.             *)
LEMMA MoveKeepsClaims ==
  ASSUME TypeOK, NEW c \in Channel, Claimed(c), NEW t \in Thread, NEW to, NEW a,
         pc' = [pc EXCEPT ![t] = to], at' = [at EXCEPT ![t] = a],
         q'[c] = q[c],
         pc[t] \in {"unlock", "notify"} /\ at[t] = c => to \in {"unlock", "notify"} /\ a = c,
         pc[t] \in Awake /\ at[t] = c => to \in Awake /\ a = c,
         to = "wait" => a # c
  PROVE  Claimed(c)'
<1>1. /\ Telling(c) \in SUBSET Thread /\ Telling(c)' \in SUBSET Thread
      /\ Telling(c)' \ {t} = Telling(c) \ {t}
      /\ t \in Telling(c) => t \in Telling(c)'
  BY DEF Telling, Inside, TypeOK
<1>2. /\ Listening(c) \in SUBSET Thread /\ Listening(c)' \in SUBSET Thread
      /\ Listening(c)' \ {t} = Listening(c) \ {t}
      /\ t \in Listening(c) => t \in Listening(c)'
  BY DEF Listening, Inside, TypeOK, Awake
<1>3. /\ Cardinality(Telling(c)) \in Nat /\ Cardinality(Telling(c)') \in Nat
      /\ Cardinality(Telling(c)') >= Cardinality(Telling(c))
  BY <1>1, Counted, OneMember
<1>4. /\ Cardinality(Listening(c)) \in Nat /\ Cardinality(Listening(c)') \in Nat
      /\ Cardinality(Listening(c)') >= Cardinality(Listening(c))
  BY <1>2, Counted, OneMember
<1>5. Waiters(c)' \subseteq Waiters(c)
  BY DEF Waiters, Inside, TypeOK
<1>6. Len(q[c]) \in Nat
  BY LenProperties DEF TypeOK
<1> QED
  BY <1>3, <1>4, <1>5, <1>6 DEF Claimed

(* The step that adds a value makes its sender one that will notify.       *)
LEMMA PushBackClaims ==
  ASSUME ControlInv, NEW c \in Channel, Claimed(c), NEW t \in Thread, PushBack(t)
  PROVE  Claimed(c)'
<1>1. /\ pc[t] = "push" /\ at[t] \in Channel /\ arg[t] \in Prim
      /\ pc' = [pc EXCEPT ![t] = "unlock"] /\ at' = [at EXCEPT ![t] = at[t]]
      /\ q' = [q EXCEPT ![at[t]] = Append(@, arg[t])]
  BY DEF PushBack, Goto, ControlInv, TypeOK, CallsTyped, Calls, Critical
<1>2. CASE at[t] # c
  <2>1. q'[c] = q[c]
    BY <1>1, <1>2 DEF ControlInv, TypeOK
  <2> QED
    BY <1>1, <1>2, <2>1, MoveKeepsClaims DEF ControlInv, Awake
<1>3. CASE at[t] = c
  <2>1. Len(q'[c]) = Len(q[c]) + 1 /\ Len(q[c]) \in Nat
    BY <1>1, <1>3, AppendProperties, LenProperties DEF ControlInv, TypeOK
  <2>2. /\ Telling(c) \in SUBSET Thread /\ Telling(c)' \in SUBSET Thread
        /\ Telling(c)' \ {t} = Telling(c) \ {t}
        /\ t \notin Telling(c) /\ t \in Telling(c)'
    BY <1>1, <1>3 DEF Telling, Inside, ControlInv, TypeOK
  <2>3. Cardinality(Telling(c)') = Cardinality(Telling(c)) + 1 /\ Cardinality(Telling(c)) \in Nat
    BY <2>2, Counted, OneMember
  <2>4. /\ Listening(c)' = Listening(c) /\ Waiters(c)' = Waiters(c)
        /\ Listening(c) \in SUBSET Thread
    BY <1>1 DEF Listening, Waiters, Inside, Awake, ControlInv, TypeOK
  <2>5. Cardinality(Listening(c)) \in Nat
    BY <2>4, Counted
  <2> QED
    BY <2>1, <2>3, <2>4, <2>5 DEF Claimed
<1> QED
  BY <1>2, <1>3

(* The step that takes a value away is its receiver's.                     *)
LEMMA PopFrontClaims ==
  ASSUME ControlInv, NEW c \in Channel, Claimed(c), NEW t \in Thread, PopFront(t)
  PROVE  Claimed(c)'
<1>1. /\ pc[t] = "check" /\ at[t] \in Channel /\ q[at[t]] # <<>>
      /\ pc' = [pc EXCEPT ![t] = "popped"] /\ at' = [at EXCEPT ![t] = at[t]]
      /\ q' = [q EXCEPT ![at[t]] = Tail(@)]
  BY DEF PopFront, Goto, ControlInv, TypeOK, CallsTyped, Calls, Critical
<1>2. CASE at[t] # c
  <2>1. q'[c] = q[c]
    BY <1>1, <1>2 DEF ControlInv, TypeOK
  <2> QED
    BY <1>1, <1>2, <2>1, MoveKeepsClaims DEF ControlInv, Awake
<1>3. CASE at[t] = c
  <2>1. Len(q'[c]) = Len(q[c]) - 1 /\ Len(q[c]) \in Nat
    BY <1>1, <1>3, HeadTailProperties, LenProperties DEF ControlInv, TypeOK
  <2>2. /\ Listening(c) \in SUBSET Thread /\ Listening(c)' \in SUBSET Thread
        /\ Listening(c)' \ {t} = Listening(c) \ {t}
        /\ t \in Listening(c) /\ t \notin Listening(c)'
    BY <1>1, <1>3 DEF Listening, Inside, Awake, ControlInv, TypeOK
  <2>3. Cardinality(Listening(c)') = Cardinality(Listening(c)) - 1 /\ Cardinality(Listening(c)) \in Nat
    BY <2>2, Counted, OneMember
  <2>4. /\ Telling(c)' = Telling(c) /\ Waiters(c)' = Waiters(c)
        /\ Telling(c) \in SUBSET Thread
    BY <1>1 DEF Telling, Waiters, Inside, ControlInv, TypeOK
  <2>5. Cardinality(Telling(c)) \in Nat
    BY <2>4, Counted
  <2> QED
    BY <2>1, <2>3, <2>4, <2>5 DEF Claimed
<1> QED
  BY <1>2, <1>3

(* A thread goes to sleep only on an empty queue.                          *)
LEMMA WaitClaims ==
  ASSUME ControlInv, NEW c \in Channel, Claimed(c), NEW t \in Thread, Wait(t)
  PROVE  Claimed(c)'
<1>1. /\ pc[t] = "check" /\ at[t] \in Channel /\ q[at[t]] = <<>>
      /\ pc' = [pc EXCEPT ![t] = "wait"] /\ at' = [at EXCEPT ![t] = at[t]]
      /\ q' = q
  BY DEF Wait, Goto, ControlInv, TypeOK, CallsTyped, Calls, Critical
<1>2. CASE at[t] # c
  BY <1>1, <1>2, MoveKeepsClaims DEF ControlInv, Awake
<1>3. CASE at[t] = c
  <2>1. Len(q'[c]) = 0
    BY <1>1, <1>3
  <2>2. Telling(c)' \in SUBSET Thread /\ Listening(c)' \in SUBSET Thread
    BY DEF Telling, Listening, Inside
  <2>3. Cardinality(Telling(c)') \in Nat /\ Cardinality(Listening(c)') \in Nat
    BY <2>2, Counted
  <2> QED
    BY <2>1, <2>3 DEF Claimed
<1> QED
  BY <1>2, <1>3

(* A notification wakes a waiter if there is one, who claims a value in    *)
(* place of the sender.                                                    *)
LEMMA NotifyClaims ==
  ASSUME ControlInv, NEW c \in Channel, Claimed(c), NEW t \in Thread,
         NEW w \in Thread \cup {None}, NotifyOne(t, w)
  PROVE  Claimed(c)'
<1>1. /\ pc[t] = "notify" /\ at[t] \in Channel /\ q' = q
      /\ Waiters(at[t]) = {} => w = None
      /\ Waiters(at[t]) # {} => w \in Waiters(at[t])
      /\ pc' = [u \in Thread |-> IF u = t THEN "code" ELSE IF u = w THEN "relock" ELSE pc[u]]
      /\ at' = [at EXCEPT ![t] = None]
  BY DEF NotifyOne, Notified, ControlInv, CallsTyped, Calls
<1>2. CASE w = None
  <2>1. pc' = [pc EXCEPT ![t] = "code"]
    BY <1>1, <1>2, ThreadAssumption DEF ThreadAssumption, ControlInv, TypeOK
  <2>2. CASE at[t] # c
    BY <1>1, <2>1, <2>2, MoveKeepsClaims DEF ControlInv, Awake
  <2>3. CASE at[t] = c
    <3>1. w \notin Waiters(at[t])
      BY <1>2, ThreadAssumption DEF ThreadAssumption, Waiters, Inside
    <3>2. Waiters(c) = {}
      BY <1>1, <2>3, <3>1
    <3>3. Waiters(c)' = {}
      BY <1>1, <2>1, <3>2 DEF Waiters, Inside, ControlInv, TypeOK
    <3> QED
      BY <3>3 DEF Claimed
  <2> QED
    BY <2>2, <2>3
<1>3. CASE w # None
  <2>1. w \in Thread /\ pc[w] = "wait" /\ at[w] = at[t] /\ w # t
    BY <1>1, <1>3 DEF Waiters, Inside
  <2>2. CASE at[t] # c
    <3>1. Telling(c)' = Telling(c) /\ Listening(c)' = Listening(c) /\ Waiters(c)' = Waiters(c)
      BY <1>1, <2>1, <2>2, ThreadAssumption
         DEF ThreadAssumption, Telling, Listening, Waiters, Inside, Awake, ControlInv, TypeOK
    <3> QED
      BY <1>1, <3>1 DEF Claimed
  <2>3. CASE at[t] = c
    <3>1. /\ Telling(c) \in SUBSET Thread /\ Telling(c)' \in SUBSET Thread
          /\ Telling(c)' \ {t} = Telling(c) \ {t}
          /\ t \in Telling(c) /\ t \notin Telling(c)'
      BY <1>1, <2>1, <2>3 DEF Telling, Inside, ControlInv, TypeOK
    <3>2. /\ Listening(c) \in SUBSET Thread /\ Listening(c)' \in SUBSET Thread
          /\ Listening(c)' \ {w} = Listening(c) \ {w}
          /\ w \notin Listening(c) /\ w \in Listening(c)'
      BY <1>1, <2>1, <2>3 DEF Listening, Inside, Awake, ControlInv, TypeOK
    <3>3. Cardinality(Telling(c)') = Cardinality(Telling(c)) - 1 /\ Cardinality(Telling(c)) \in Nat
      BY <3>1, Counted, OneMember
    <3>4. Cardinality(Listening(c)') = Cardinality(Listening(c)) + 1 /\ Cardinality(Listening(c)) \in Nat
      BY <2>1, <3>2, Counted, OneMember
    <3>5. Waiters(c) # {}
      BY <2>1, <2>3 DEF Waiters, Inside
    <3> QED
      BY <1>1, <3>3, <3>4, <3>5 DEF Claimed
  <2> QED
    BY <2>2, <2>3
<1> QED
  BY <1>2, <1>3

(* Every step keeps every value claimed.                                   *)
LEMMA WakeupStep ==
  ASSUME ControlInv, ValuesClaimed, [Next]_vars
  PROVE  ValuesClaimed'
<1> SUFFICES ASSUME NEW c \in Channel
             PROVE  Claimed(c)'
  BY DEF ValuesClaimed, Claimed
<1>1. Claimed(c) /\ TypeOK
  BY DEF ValuesClaimed, Claimed, ControlInv
<1>2. CASE UNCHANGED vars
  BY <1>1, <1>2 DEF vars, Claimed, Waiters, Telling, Listening, Inside
<1>3. CASE ProcessExit
  <2>1. Waiters(c)' = {}
    BY <1>3 DEF ProcessExit, Waiters, Inside
  <2> QED
    BY <2>1 DEF Claimed
<1>4. ASSUME NEW t \in Thread, InRuntime(t)
      PROVE  Claimed(c)'
  <2>1. CASE LockToSend(t)
    BY <1>1, <2>1, MoveKeepsClaims DEF LockToSend, Goto, TypeOK, Awake
  <2>2. CASE PushBack(t)
    BY <1>1, <2>2, PushBackClaims
  <2>3. CASE UnlockSent(t)
    BY <1>1, <2>3, MoveKeepsClaims DEF UnlockSent, Goto, TypeOK, Awake
  <2>4. ASSUME NEW w \in Thread \cup {None}, NotifyOne(t, w)
        PROVE  Claimed(c)'
    BY <1>1, <2>4, NotifyClaims
  <2>5. CASE LockToReceive(t)
    <3>1. /\ pc[t] \in {"recv", "relock"} /\ q' = q
          /\ pc' = [pc EXCEPT ![t] = "check"] /\ at' = [at EXCEPT ![t] = at[t]]
      BY <1>1, <2>5 DEF LockToReceive, Goto, TypeOK
    <3> QED
      BY <1>1, <3>1, MoveKeepsClaims DEF Awake
  <2>6. CASE Wait(t)
    BY <1>1, <2>6, WaitClaims
  <2>7. CASE PopFront(t)
    BY <1>1, <2>7, PopFrontClaims
  <2>8. CASE UnlockReceived(t)
    BY <1>1, <2>8, MoveKeepsClaims DEF UnlockReceived, Leave, TypeOK, Awake
  <2>9. CASE MutexLock(t)
    BY <1>1, <2>9, MoveKeepsClaims DEF MutexLock, Leave, TypeOK, Awake
  <2>10. CASE JoinReturns(t)
    BY <1>1, <2>10, MoveKeepsClaims DEF JoinReturns, Leave, TypeOK, Awake
  <2> QED
    BY <1>4, <2>1, <2>2, <2>3, <2>4, <2>5, <2>6, <2>7, <2>8, <2>9, <2>10 DEF InRuntime
<1>5. ASSUME NEW t \in Thread, InProgram(t)
      PROVE  Claimed(c)'
  <2>1. ASSUME NEW d \in Channel, NEW v \in Value, ChannelSend(t, d, v)
        PROVE  Claimed(c)'
    BY <1>1, <2>1, MoveKeepsClaims DEF ChannelSend, Enter, Awake
  <2>2. ASSUME NEW d \in Channel, ChannelRecv(t, d)
        PROVE  Claimed(c)'
    BY <1>1, <2>2, MoveKeepsClaims DEF ChannelRecv, Enter, Awake
  <2>3. ASSUME NEW m \in Mutex, CallLock(t, m)
        PROVE  Claimed(c)'
    BY <1>1, <2>3, MoveKeepsClaims DEF CallLock, Enter, Awake
  <2>4. ASSUME NEW m \in Mutex, MutexUnlock(t, m)
        PROVE  Claimed(c)'
    BY <1>1, <2>4 DEF MutexUnlock, Claimed, Waiters, Telling, Listening, Inside
  <2>5. ASSUME NEW u \in Thread, ThreadSpawn(t, u)
        PROVE  Claimed(c)'
    <3>1. pc[u] = "unborn" /\ pc' = [pc EXCEPT ![u] = "code"] /\ at' = [at EXCEPT ![u] = at[u]] /\ q' = q
      BY <1>1, <2>5 DEF ThreadSpawn, TypeOK
    <3> QED
      BY <1>1, <3>1, MoveKeepsClaims DEF Awake
  <2>6. ASSUME NEW u \in Thread, CallJoin(t, u)
        PROVE  Claimed(c)'
    BY <1>1, <2>6, MoveKeepsClaims DEF CallJoin, Enter, Awake
  <2>7. CASE ThreadExit(t)
    BY <1>1, <2>7, MoveKeepsClaims DEF ThreadExit, Goto, TypeOK, Awake
  <2> QED
    BY <1>5, <2>1, <2>2, <2>3, <2>4, <2>5, <2>6, <2>7 DEF InProgram
<1>6. ASSUME NEW t \in Thread, SpuriousWakeup(t)
      PROVE  Claimed(c)'
  BY <1>1, <1>6, MoveKeepsClaims DEF SpuriousWakeup, Goto, TypeOK, Awake
<1> QED
  BY <1>2, <1>3, <1>4, <1>5, <1>6 DEF Next

(***************************************************************************)
(* The results.                                                            *)
(***************************************************************************)

(* The inductive invariant holds at every step of every program.           *)
THEOREM Invariance == Spec => []IInv
<1>1. Init => IInv
  <2>1. Init => ValuesClaimed
    BY DEF Init, ValuesClaimed, Waiters, Inside
  <2> QED
    BY <2>1, ControlInit DEF IInv
<1>2. IInv /\ [Next]_vars => IInv'
  BY ControlStep, WakeupStep DEF IInv
<1> QED
  BY <1>1, <1>2, PTL DEF Spec

(* Channel::m is held by exactly the thread between lock and unlock of the *)
(* channel: nobody sleeps, returns or exits with it.                       *)
THEOREM LockExact == Spec => []ChannelLockExact
<1>1. IInv => ChannelLockExact
  BY ThreadAssumption
     DEF IInv, ControlInv, LockOwner, TypeOK, ChannelLockExact, Inside, ThreadAssumption
<1> QED
  BY <1>1, Invariance, PTL

(* While somebody sleeps on a channel, every value in its queue has a      *)
(* thread that will deal with it.                                          *)
THEOREM WakeupsKept == Spec => []NoLostWakeup
<1>1. IInv => ChannelLockExact
  BY ThreadAssumption
     DEF IInv, ControlInv, LockOwner, TypeOK, ChannelLockExact, Inside, ThreadAssumption
<1>2. IInv => NoLostWakeup
  BY <1>1 DEF IInv, ValuesClaimed, NoLostWakeup, Telling, Listening
<1> QED
  BY <1>2, Invariance, PTL

(***************************************************************************)
(* Each step of the runtime is a step of VerbChannel, or none: a value is  *)
(* sent when it is pushed, received when it is popped.                     *)
(***************************************************************************)
Wants == [t \in Thread |-> IF pc[t] \in InRecv THEN at[t] ELSE None]
Over  == pc[Main] = "exited"

\* A fresh channel is the abstract channel before any send.
LEMMA ChannelInit == Init => Abstract!Init
BY ThreadAssumption DEF Init, Abstract!Init, ThreadAssumption, InRecv, Awake

\* Every step of the locked queue is a step of the abstract channel or a
\* stutter.
LEMMA ChannelStep ==
  ASSUME ControlInv, [Next]_vars
  PROVE  [Abstract!Next]_(Abstract!vars)
<1>1. ASSUME Wants' = Wants, Over' = Over, UNCHANGED <<q, result>>
      PROVE  [Abstract!Next]_(Abstract!vars)
  BY <1>1 DEF Abstract!vars, Wants, Over
<1>2. ASSUME NEW t \in Thread, NEW to, NEW a,
             pc' = [pc EXCEPT ![t] = to], at' = [at EXCEPT ![t] = a],
             pc[t] \in InRecv <=> to \in InRecv,
             to \in InRecv => a = at[t],
             t = Main => pc[t] # "exited" /\ to # "exited",
             UNCHANGED <<q, result>>
      PROVE  [Abstract!Next]_(Abstract!vars)
  <2>1. Wants' = Wants /\ Over' = Over
    BY <1>2, ThreadAssumption DEF Wants, Over, ControlInv, TypeOK, ThreadAssumption
  <2> QED
    BY <1>1, <1>2, <2>1
<1>3. CASE UNCHANGED vars
  BY <1>1, <1>3 DEF vars, Wants, Over
<1>4. CASE ProcessExit
  <2>1. Abstract!ProcessExit
    BY <1>4, ThreadAssumption
       DEF ProcessExit, Abstract!ProcessExit, InRecv, Awake, ThreadAssumption, ControlInv, TypeOK
  <2> QED
    BY <2>1 DEF Abstract!Next
<1>5. ASSUME NEW t \in Thread, PushBack(t)
      PROVE  [Abstract!Next]_(Abstract!vars)
  <2>1. /\ pc[t] = "push" /\ at[t] \in Channel /\ arg[t] \in Prim /\ pc[Main] # "exited"
        /\ pc' = [pc EXCEPT ![t] = "unlock"] /\ at' = at
        /\ q' = [q EXCEPT ![at[t]] = Append(@, arg[t])] /\ result' = result
    BY <1>5, ThreadAssumption
       DEF PushBack, Goto, ControlInv, TypeOK, CallsTyped, KilledAtExit, Calls, Critical, ThreadAssumption
  <2>2. Wants' = Wants /\ Over' = Over
    BY <2>1, ThreadAssumption DEF Wants, Over, InRecv, Awake, ControlInv, TypeOK, ThreadAssumption
  <2>3. Abstract!Send(t, at[t], arg[t])
    BY <2>1, <2>2 DEF Abstract!Send, Wants, Over, InRecv, Awake
  <2> QED
    BY <2>1, <2>3 DEF Abstract!Next
<1>6. ASSUME NEW t \in Thread, NEW c \in Channel, ChannelRecv(t, c)
      PROVE  [Abstract!Next]_(Abstract!vars)
  <2>1. /\ pc[t] = "code" /\ pc[Main] # "exited"
        /\ pc' = [pc EXCEPT ![t] = "recv"] /\ at' = [at EXCEPT ![t] = c]
        /\ UNCHANGED <<q, result>>
    BY <1>6, ThreadAssumption
       DEF ChannelRecv, Enter, ControlInv, TypeOK, KilledAtExit, ThreadAssumption
  <2>2. Wants' = [Wants EXCEPT ![t] = c] /\ Over' = Over /\ Wants[t] = None /\ ~Over
    BY <2>1, ThreadAssumption DEF Wants, Over, InRecv, Awake, ControlInv, TypeOK, ThreadAssumption
  <2>3. Abstract!BeginReceive(t, c)
    BY <2>1, <2>2 DEF Abstract!BeginReceive, Wants, Over
  <2> QED
    BY <2>3 DEF Abstract!Next
<1>7. ASSUME NEW t \in Thread, PopFront(t)
      PROVE  [Abstract!Next]_(Abstract!vars)
  <2>1. /\ pc[t] = "check" /\ at[t] \in Channel /\ pc[Main] # "exited" /\ q[at[t]] # <<>>
        /\ pc' = [pc EXCEPT ![t] = "popped"] /\ at' = at
        /\ q' = [q EXCEPT ![at[t]] = Tail(@)]
        /\ result' = [result EXCEPT ![t] = Head(q[at[t]])]
    BY <1>7, ThreadAssumption
       DEF PopFront, Goto, ControlInv, TypeOK, CallsTyped, KilledAtExit, Calls, Critical, ThreadAssumption
  <2>2. Wants' = [Wants EXCEPT ![t] = None] /\ Over' = Over /\ Wants[t] = at[t] /\ ~Over
    BY <2>1, ThreadAssumption DEF Wants, Over, InRecv, Awake, ControlInv, TypeOK, ThreadAssumption
  <2>3. PICK c \in Channel : c = at[t]
    BY <2>1
  <2>4. Abstract!Receive(t, c)
    BY <2>1, <2>2, <2>3 DEF Abstract!Receive, Wants, Over
  <2> QED
    BY <2>4 DEF Abstract!Next
<1>8. ASSUME NEW t \in Thread, NEW w \in Thread \cup {None}, NotifyOne(t, w)
      PROVE  [Abstract!Next]_(Abstract!vars)
  <2>1. Wants' = Wants /\ Over' = Over
    BY <1>8, ThreadAssumption
       DEF NotifyOne, Notified, Waiters, Inside, Wants, Over, InRecv, Awake, ControlInv, TypeOK, ThreadAssumption
  <2> QED
    BY <1>1, <1>8, <2>1 DEF NotifyOne
<1>9. ASSUME NEW t \in Thread, LockToReceive(t)
      PROVE  [Abstract!Next]_(Abstract!vars)
  <2>1. /\ pc[t] \in {"recv", "relock"} /\ UNCHANGED <<q, result>>
        /\ pc' = [pc EXCEPT ![t] = "check"] /\ at' = [at EXCEPT ![t] = at[t]]
    BY <1>9 DEF LockToReceive, Goto, ControlInv, TypeOK
  <2>2. pc[t] \in InRecv /\ "check" \in InRecv /\ pc[t] # "exited"
    BY <2>1 DEF InRecv, Awake
  <2> QED
    BY <1>2, <2>1, <2>2
<1>10. ASSUME NEW t \in Thread,
              LockToSend(t) \/ UnlockSent(t) \/ Wait(t) \/ SpuriousWakeup(t)
      PROVE  [Abstract!Next]_(Abstract!vars)
  <2>1. at' = [at EXCEPT ![t] = at[t]]
    BY <1>10 DEF LockToSend, UnlockSent, Wait, SpuriousWakeup, Goto, ControlInv, TypeOK
  <2>2. CASE LockToSend(t)
    BY <1>2, <2>1, <2>2 DEF LockToSend, Goto, InRecv, Awake
  <2>3. CASE UnlockSent(t)
    BY <1>2, <2>1, <2>3 DEF UnlockSent, Goto, InRecv, Awake
  <2>4. CASE Wait(t)
    BY <1>2, <2>1, <2>4 DEF Wait, Goto, InRecv, Awake
  <2>5. CASE SpuriousWakeup(t)
    BY <1>2, <2>1, <2>5 DEF SpuriousWakeup, Goto, InRecv, Awake
  <2> QED
    BY <1>10, <2>2, <2>3, <2>4, <2>5
<1>11. ASSUME NEW t \in Thread, UnlockReceived(t) \/ MutexLock(t) \/ JoinReturns(t)
      PROVE  [Abstract!Next]_(Abstract!vars)
  BY <1>2, <1>11 DEF UnlockReceived, MutexLock, JoinReturns, Leave, InRecv, Awake
<1>12. ASSUME NEW t \in Thread, InProgram(t)
      PROVE  [Abstract!Next]_(Abstract!vars)
  <2>1. ASSUME NEW c \in Channel, NEW v \in Value, ChannelSend(t, c, v)
        PROVE  [Abstract!Next]_(Abstract!vars)
    BY <1>2, <2>1 DEF ChannelSend, Enter, InRecv, Awake
  <2>2. ASSUME NEW m \in Mutex, CallLock(t, m)
        PROVE  [Abstract!Next]_(Abstract!vars)
    BY <1>2, <2>2 DEF CallLock, Enter, InRecv, Awake
  <2>3. ASSUME NEW m \in Mutex, MutexUnlock(t, m)
        PROVE  [Abstract!Next]_(Abstract!vars)
    BY <1>1, <2>3 DEF MutexUnlock, Wants, Over
  <2>4. ASSUME NEW u \in Thread, ThreadSpawn(t, u)
        PROVE  [Abstract!Next]_(Abstract!vars)
    <3>1. pc[u] = "unborn" /\ pc' = [pc EXCEPT ![u] = "code"] /\ at' = [at EXCEPT ![u] = at[u]]
            /\ UNCHANGED <<q, result>>
      BY <2>4 DEF ThreadSpawn, ControlInv, TypeOK
    <3> QED
      BY <1>2, <3>1 DEF InRecv, Awake
  <2>5. ASSUME NEW u \in Thread, CallJoin(t, u)
        PROVE  [Abstract!Next]_(Abstract!vars)
    BY <1>2, <2>5 DEF CallJoin, Enter, InRecv, Awake
  <2>6. CASE ThreadExit(t)
    <3>1. at' = [at EXCEPT ![t] = at[t]]
      BY <2>6 DEF ThreadExit, Goto, ControlInv, TypeOK
    <3> QED
      BY <1>2, <2>6, <3>1 DEF ThreadExit, Goto, InRecv, Awake
  <2> QED
    BY <1>6, <1>12, <2>1, <2>2, <2>3, <2>4, <2>5, <2>6 DEF InProgram
<1>13. ASSUME NEW t \in Thread, InRuntime(t)
      PROVE  [Abstract!Next]_(Abstract!vars)
  BY <1>5, <1>7, <1>8, <1>9, <1>10, <1>11, <1>13 DEF InRuntime
<1> QED
  BY <1>3, <1>4, <1>10, <1>12, <1>13 DEF Next

(* The channels of the runtime are those VerbChannel promises: first in,   *)
(* first out, every value received once, by one thread.  (That a value in  *)
(* the queue reaches a receiver in the end is its fairness, and a run's.)  *)
THEOREM ChannelRefinement ==
  Spec => Abstract!Init /\ [][Abstract!Next]_(Abstract!vars)
<1>1. IInv /\ [Next]_vars => [Abstract!Next]_(Abstract!vars)
  BY ChannelStep DEF IInv
<1> QED
  BY <1>1, ChannelInit, Invariance, PTL DEF Spec
=============================================================================
