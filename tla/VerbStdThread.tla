--------------------------- MODULE VerbStdThread ---------------------------
(***************************************************************************)
(* runtime/verb_std_thread.cpp: the OS threads, mutexes and channels of    *)
(* `import std thread`.                                                    *)
(*                                                                         *)
(* The program is left open: between two calls of the runtime a thread     *)
(* (pc = "code") may make any legal call next.  A call blocks where the    *)
(* C++ does: in std::mutex::lock, condition_variable::wait, thread::join.  *)
(* Joining a thread twice and unlocking a mutex the caller does not hold   *)
(* are undefined in C++; a legal program does neither.                     *)
(***************************************************************************)
EXTENDS Naturals, Sequences, FiniteSets

CONSTANTS
  Thread,     \* the threads of the program
  Main,       \* the one that runs the program's top level
  Channel,    \* the channels it has created
  Mutex,      \* the mutexes it has created
  Prim,       \* nil, bools, ints, floats
  Heap,       \* strings, arrays, maps, closures, records, variants
  None,       \* no thread, no channel, no value
  MaxSent     \* bound on the values a run sends

ThreadAssumption ==
  /\ IsFiniteSet(Thread)
  /\ Main \in Thread
  /\ None \notin Thread \cup Channel \cup Mutex \cup Prim \cup Heap
  /\ Channel \cap Mutex = {} /\ Thread \cap (Channel \cup Mutex) = {}
  /\ Prim \cap Heap = {}
  /\ MaxSent \in Nat

ASSUME ThreadAssumption

VARIABLES
  pc,         \* where each thread is in its call of the runtime
  at,         \* the channel, mutex or thread the call is about
  arg,        \* the value a send was given
  result,     \* the value the last recv of each thread returned
  q,          \* Channel::q
  held,       \* the thread that holds each mutex and each Channel::m
  handle,     \* the ThreadHandle of each thread
  sent        \* values sent so far

vars == <<pc, at, arg, result, q, held, handle, sent>>

Value == Prim \cup Heap

\* A thread inside the critical section of a channel.
Critical == {"push", "unlock", "check", "popped"}

\* A thread that called recv and is not asleep on the condition variable.
Awake == {"recv", "check", "relock"}

Calls == {"send", "notify", "wait", "join", "lock"} \cup Critical \cup Awake

TypeOK ==
  /\ pc \in [Thread -> {"unborn", "code", "exited", "killed"} \cup Calls]
  /\ at \in [Thread -> Channel \cup Mutex \cup Thread \cup {None}]
  /\ arg \in [Thread -> Prim \cup {None}]
  /\ result \in [Thread -> Prim \cup {None}]
  /\ q \in [Channel -> Seq(Prim)]
  /\ held \in [Channel \cup Mutex -> Thread \cup {None}]
  /\ handle \in [Thread -> {"none", "open", "joining", "deleted"}]
  /\ sent \in 0 .. MaxSent

Init ==
  /\ pc = [t \in Thread |-> IF t = Main THEN "code" ELSE "unborn"]
  /\ at = [t \in Thread |-> None]
  /\ arg = [t \in Thread |-> None]
  /\ result = [t \in Thread |-> None]
  /\ q = [c \in Channel |-> <<>>]
  /\ held = [m \in Channel \cup Mutex |-> None]
  /\ handle = [t \in Thread |-> "none"]
  /\ sent = 0

\* Thread t calls into the runtime, or moves on inside the call.
Enter(t, where, what) ==
  /\ pc[t] = "code"
  /\ pc' = [pc EXCEPT ![t] = where]
  /\ at' = [at EXCEPT ![t] = what]

Goto(t, from, to) ==
  /\ pc[t] = from
  /\ pc' = [pc EXCEPT ![t] = to]
  /\ UNCHANGED at

Leave(t, from) ==
  /\ pc[t] = from
  /\ pc' = [pc EXCEPT ![t] = "code"]
  /\ at' = [at EXCEPT ![t] = None]

Acquire(t, m) ==
  /\ held[m] = None
  /\ held' = [held EXCEPT ![m] = t]

Release(m) == held' = [held EXCEPT ![m] = None]

Inside(set, c) == {t \in Thread : pc[t] \in set /\ at[t] = c}
Waiters(c) == Inside({"wait"}, c)

(***************************************************************************)
(* channel_send.                                                           *)
(***************************************************************************)

\* is_primitive; a send of anything else returns false and does nothing.
Sendable(v) == v \in Prim

ChannelSend(t, c, v) ==
  /\ Sendable(v)
  /\ sent < MaxSent
  /\ Enter(t, "send", c)
  /\ arg' = [arg EXCEPT ![t] = v]
  /\ sent' = sent + 1
  /\ UNCHANGED <<result, q, held, handle>>

LockToSend(t) ==
  /\ Goto(t, "send", "push")
  /\ Acquire(t, at[t])
  /\ UNCHANGED <<arg, result, q, handle, sent>>

PushBack(t) ==
  /\ Goto(t, "push", "unlock")
  /\ q' = [q EXCEPT ![at[t]] = Append(@, arg[t])]
  /\ arg' = [arg EXCEPT ![t] = None]
  /\ UNCHANGED <<result, held, handle, sent>>

UnlockSent(t) ==
  /\ Goto(t, "unlock", "notify")
  /\ Release(at[t])
  /\ UNCHANGED <<arg, result, q, handle, sent>>

\* Mutant of Notified: a waiter is woken only by the value that made the
\* queue non-empty.
NotifiedIfFirst(c, w) ==
  IF Len(q[c]) = 1 THEN w \in Waiters(c) ELSE w = None

\* notify_one wakes one waiter, whichever; nobody when there is none.
Notified(c, w) == IF Waiters(c) = {} THEN w = None ELSE w \in Waiters(c)

NotifyOne(t, w) ==
  /\ pc[t] = "notify"
  /\ Notified(at[t], w)
  /\ pc' = [u \in Thread |-> IF u = t THEN "code" ELSE IF u = w THEN "relock" ELSE pc[u]]
  /\ at' = [at EXCEPT ![t] = None]
  /\ UNCHANGED <<arg, result, q, held, handle, sent>>

(***************************************************************************)
(* channel_recv.                                                           *)
(***************************************************************************)
ChannelRecv(t, c) ==
  /\ Enter(t, "recv", c)
  /\ UNCHANGED <<arg, result, q, held, handle, sent>>

\* The constructor of unique_lock, and the end of a wait.
LockToReceive(t) ==
  /\ Goto(t, "recv", "check") \/ Goto(t, "relock", "check")
  /\ Acquire(t, at[t])
  /\ UNCHANGED <<arg, result, q, handle, sent>>

\* Mutant of Wait: the receiver unlocks, and goes to sleep in a second step.
WaitInTwoSteps(t) ==
  /\ pc[t] = "check"
  /\ \/ /\ held[at[t]] = t
        /\ q[at[t]] = <<>>
        /\ Goto(t, "check", "check")
        /\ Release(at[t])
     \/ /\ held[at[t]] # t
        /\ Goto(t, "check", "wait")
        /\ UNCHANGED held
  /\ UNCHANGED <<arg, result, q, handle, sent>>

\* The predicate is false: wait gives the mutex back and sleeps in one step.
Wait(t) ==
  /\ Goto(t, "check", "wait")
  /\ q[at[t]] = <<>>
  /\ Release(at[t])
  /\ UNCHANGED <<arg, result, q, handle, sent>>

\* A condition variable may wake a thread nobody notified.
SpuriousWakeup(t) ==
  /\ Goto(t, "wait", "relock")
  /\ UNCHANGED <<arg, result, q, held, handle, sent>>

PopFront(t) ==
  /\ Goto(t, "check", "popped")
  /\ q[at[t]] # <<>>
  /\ result' = [result EXCEPT ![t] = Head(q[at[t]])]
  /\ q' = [q EXCEPT ![at[t]] = Tail(@)]
  /\ UNCHANGED <<arg, held, handle, sent>>

\* The destructor of unique_lock.
UnlockReceived(t) ==
  /\ Leave(t, "popped")
  /\ Release(at[t])
  /\ UNCHANGED <<arg, result, q, handle, sent>>

(***************************************************************************)
(* mutex_lock, mutex_unlock.                                               *)
(***************************************************************************)
CallLock(t, m) ==
  /\ held[m] # t
  /\ Enter(t, "lock", m)
  /\ UNCHANGED <<arg, result, q, held, handle, sent>>

MutexLock(t) ==
  /\ Leave(t, "lock")
  /\ Acquire(t, at[t])
  /\ UNCHANGED <<arg, result, q, handle, sent>>

MutexUnlock(t, m) ==
  /\ pc[t] = "code"
  /\ held[m] = t
  /\ Release(m)
  /\ UNCHANGED <<pc, at, arg, result, q, handle, sent>>

(***************************************************************************)
(* thread_spawn_raw, thread_join.                                          *)
(***************************************************************************)
ThreadSpawn(t, u) ==
  /\ pc[t] = "code"
  /\ pc[u] = "unborn"
  /\ pc' = [pc EXCEPT ![u] = "code"]
  /\ handle' = [handle EXCEPT ![u] = "open"]
  /\ UNCHANGED <<at, arg, result, q, held, sent>>

\* The body of the closure returns; what it returned is dropped.
ThreadExit(t) ==
  /\ t # Main
  /\ Goto(t, "code", "exited")
  /\ \A m \in Mutex : held[m] # t
  /\ UNCHANGED <<arg, result, q, held, handle, sent>>

CallJoin(t, u) ==
  /\ t # u
  /\ handle[u] = "open"
  /\ Enter(t, "join", u)
  /\ handle' = [handle EXCEPT ![u] = "joining"]
  /\ UNCHANGED <<arg, result, q, held, sent>>

JoinReturns(t) ==
  /\ pc[at[t]] = "exited"
  /\ Leave(t, "join")
  /\ handle' = [handle EXCEPT ![at[t]] = "deleted"]
  /\ UNCHANGED <<arg, result, q, held, sent>>

\* The generated main returns: the process exits, whoever still runs.
ProcessExit ==
  /\ pc[Main] = "code"
  /\ pc' = [t \in Thread |-> IF t = Main THEN "exited" ELSE "killed"]
  /\ UNCHANGED <<at, arg, result, q, held, handle, sent>>

\* A thread runs on inside the runtime.
InRuntime(t) ==
  \/ LockToSend(t)
  \/ PushBack(t)
  \/ UnlockSent(t)
  \/ \E w \in Thread \cup {None} : NotifyOne(t, w)
  \/ LockToReceive(t)
  \/ Wait(t)
  \/ PopFront(t)
  \/ UnlockReceived(t)
  \/ MutexLock(t)
  \/ at[t] \in Thread /\ JoinReturns(t)

\* A thread of the program makes its next call.
InProgram(t) ==
  \/ \E c \in Channel, v \in Value : ChannelSend(t, c, v)
  \/ \E c \in Channel : ChannelRecv(t, c)
  \/ \E m \in Mutex : CallLock(t, m) \/ MutexUnlock(t, m)
  \/ \E u \in Thread : ThreadSpawn(t, u) \/ CallJoin(t, u)
  \/ ThreadExit(t)

Next ==
  \/ \E t \in Thread : InRuntime(t) \/ InProgram(t) \/ SpuriousWakeup(t)
  \/ ProcessExit

\* The operating system runs every thread that is not blocked; it owes no
\* thread the next turn on a mutex, no spurious wakeup, and the program owes
\* no call.
Fairness == \A t \in Thread : WF_vars(InRuntime(t))

Spec == Init /\ [][Next]_vars /\ Fairness

(***************************************************************************)
(* Properties.                                                             *)
(***************************************************************************)

(* Channel::m excludes and is never left behind: the thread that holds it  *)
(* is the one thread between lock and unlock of that channel, and nobody   *)
(* goes to sleep, returns to the program or exits with it.                 *)
ChannelLockExact ==
  /\ TypeOK
  /\ pc[Main] # "exited" =>
       \A c \in Channel : Inside(Critical, c) = {held[c]} \ {None}

(* While somebody sleeps on a channel, every value in its queue has a      *)
(* thread that will deal with it: a sender that has not notified yet or a  *)
(* receiver that is awake and will look at the queue.  A notify that comes *)
(* between the check and the sleep, or is spent on nobody, would break it, *)
(* and so would a lock that does not exclude.                              *)
NoLostWakeup ==
  /\ ChannelLockExact
  /\ \A c \in Channel :
       Waiters(c) # {} =>
         Len(q[c]) <= Cardinality(Inside({"unlock", "notify"}, c))
                     + Cardinality(Inside(Awake, c))

InRecv == Awake \cup {"wait"}

Abstract == INSTANCE VerbChannel WITH
  queue   <- q,
  waiting <- [t \in Thread |-> IF pc[t] \in InRecv THEN at[t] ELSE None],
  result  <- result,
  over    <- pc[Main] = "exited"

(* The channels are what VerbChannel promises: first in, first out, every  *)
(* value received once by one thread, and no receiver sleeps for ever on a *)
(* queue that has something in it.                                         *)
ImplementsChannel == Abstract!Spec
=============================================================================
