---------------------------- MODULE VerbChannel ----------------------------
(***************************************************************************)
(* What a channel of `import std thread` promises to the threads of a Verb *)
(* program: a first-in first-out queue of primitive values, that send      *)
(* never blocks on and recv waits on.  VerbStdThread implements it with a  *)
(* deque, a mutex and a condition variable.                                *)
(***************************************************************************)
EXTENDS Naturals, Sequences

CONSTANTS
  Thread,     \* the threads of the program
  Channel,    \* the channels it has created
  Prim,       \* nil, bools, ints, floats
  None        \* no channel, no value: in none of the other sets

VARIABLES
  queue,      \* the values sent and not yet received
  waiting,    \* the channel a thread is receiving from
  result,     \* the value its last recv returned
  over        \* the process has exited

vars == <<queue, waiting, result, over>>

Init ==
  /\ queue = [c \in Channel |-> <<>>]
  /\ waiting = [t \in Thread |-> None]
  /\ result = [t \in Thread |-> None]
  /\ over = FALSE

Send(t, c, v) ==
  /\ ~over
  /\ waiting[t] = None
  /\ queue' = [queue EXCEPT ![c] = Append(@, v)]
  /\ UNCHANGED <<waiting, result, over>>

BeginReceive(t, c) ==
  /\ ~over
  /\ waiting[t] = None
  /\ waiting' = [waiting EXCEPT ![t] = c]
  /\ UNCHANGED <<queue, result, over>>

Receive(t, c) ==
  /\ ~over
  /\ waiting[t] = c
  /\ queue[c] # <<>>
  /\ result' = [result EXCEPT ![t] = Head(queue[c])]
  /\ queue' = [queue EXCEPT ![c] = Tail(@)]
  /\ waiting' = [waiting EXCEPT ![t] = None]
  /\ UNCHANGED over

\* main returned: the threads that still run are cut off.
ProcessExit ==
  /\ ~over
  /\ over' = TRUE
  /\ waiting' = [t \in Thread |-> None]
  /\ UNCHANGED <<queue, result>>

Next ==
  \/ \E t \in Thread, c \in Channel :
       \/ \E v \in Prim : Send(t, c, v)
       \/ BeginReceive(t, c)
       \/ Receive(t, c)
  \/ ProcessExit

\* A value in the queue does not wait for ever while some thread wants it.
Fairness == \A c \in Channel : WF_vars(\E t \in Thread : Receive(t, c))

Spec == Init /\ [][Next]_vars /\ Fairness
=============================================================================
