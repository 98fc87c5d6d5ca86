------------------------------ MODULE VerbStdIo ------------------------------
(***************************************************************************)
(* A connection of std io, runtime/verb_std_io.cpp: a program connects,    *)
(* its threads send lines over the socket and it closes it, while another  *)
(* program receives them.  send takes as many bytes as it likes, recv one; *)
(* both loop until they have a line.  Every function returns nil when it   *)
(* fails, and gen_std_io_call of src/codegen.rs makes an Err of it.        *)
(*                                                                         *)
(* The network keeps the order of the bytes; it may refuse a connection,   *)
(* fill up, or break, and what is in flight then is lost.                  *)
(***************************************************************************)
EXTENDS Naturals, SequencesExt

CONSTANTS
  Sender,      \* the threads that send
  Script,      \* the lines each sends, sequences of bytes
  Locked,      \* the threads hold a mutex while they send a line
  MaxWire,     \* bytes the network holds
  MaxAddrs,    \* bound on the addresses of a host
  NL           \* the newline

StdIoAssumption ==
  /\ Script \in [Sender -> Seq(Seq(Nat))]
  /\ Locked \in BOOLEAN
  /\ MaxWire \in Nat \ {0} /\ MaxAddrs \in Nat
  /\ NL \notin Nat

ASSUME StdIoAssumption

VARIABLES
  addrs,     \* the addresses still to try: what each will do
  fds,       \* the file descriptors the sending program has open
  sock,      \* the connection: "none", "open", "closed" or "broken"
  wire,      \* the bytes in flight
  sends,     \* of each sender: the line it is at, bytes sent, results
  order,     \* the lines begun, in the order of their first bytes
  closing,   \* what close_conn returned, NotYet before
  line,      \* what recv_line has of its line
  got,       \* what recv_line has returned
  sigpipe    \* of the sending program: verb run ignores it, as every Rust
             \* program; an executable that verb build made does not

ioVars == <<addrs, fds, sock, wire, sends, order, closing, line, got, sigpipe>>

True   == [tag |-> "bool", text |-> <<>>]
NilV   == [tag |-> "nil", text |-> <<>>]
ErrV   == [tag |-> "Err", text |-> <<>>]
NotYet == [tag |-> "none", text |-> <<>>]
Killed == [tag |-> "killed", text |-> <<>>]
String(s) == [tag |-> "str", text |-> s]

\* lift_nil_to_err
Lifted(v) == IF v = NilV THEN ErrV ELSE v

Outcomes == {"no socket", "refused", "connects"}

IoInit ==
  /\ addrs \in UNION {[1 .. n -> Outcomes] : n \in 0 .. MaxAddrs}
  /\ fds = {}
  /\ sock = "none"
  /\ wire = <<>>
  /\ sends = [t \in Sender |-> [at |-> 1, off |-> 0, results |-> <<>>]]
  /\ order = <<>>
  /\ closing = NotYet
  /\ line = <<>>
  /\ got = <<>>
  /\ sigpipe \in {"ignored", "default"}

\* Mutated: the socket that was refused is not closed.
LeakRefused(n) == fds \cup {n}

CloseRefused(n) == fds

\* connect_first_working: one address.  The fd is the address's number.
TryAddress ==
  /\ sock = "none"
  /\ addrs # <<>>
  /\ addrs' = Tail(addrs)
  /\ CASE Head(addrs) = "no socket" -> UNCHANGED <<fds, sock>>
       [] Head(addrs) = "refused" -> fds' = CloseRefused(Len(addrs)) /\ UNCHANGED sock
       [] Head(addrs) = "connects" -> fds' = fds \cup {Len(addrs)} /\ sock' = "open"
  /\ UNCHANGED <<wire, sends, order, closing, line, got, sigpipe>>

LineBytes(t) == Append(Script[t][sends[t].at], NL)
HasLine(t) == sends[t].at <= Len(Script[t])
MidLine(t) == sends[t].off > 0

MayBegin(t) == Locked => \A u \in Sender \ {t} : ~MidLine(u)

Return(t, v) ==
  sends' = [sends EXCEPT ![t] = [at |-> @.at + 1, off |-> 0, results |-> Append(@.results, Lifted(v))]]

\* Mutated: send is called once for a line.
OneSend(t, n) == TRUE

Whole(t, n) == sends[t].off + n = Len(LineBytes(t))

\* send takes n bytes; send_line goes on until its line is sent.
SendSome(t) ==
  /\ sock = "open" /\ closing = NotYet
  /\ HasLine(t)
  /\ MidLine(t) \/ MayBegin(t)
  /\ \E n \in 1 .. Len(LineBytes(t)) - sends[t].off :
       /\ Len(wire) + n <= MaxWire
       /\ wire' = wire \o SubSeq(LineBytes(t), sends[t].off + 1, sends[t].off + n)
       /\ IF Whole(t, n) THEN Return(t, True)
          ELSE sends' = [sends EXCEPT ![t].off = @ + n]
  /\ order' = IF MidLine(t) THEN order ELSE Append(order, Script[t][sends[t].at])
  /\ UNCHANGED <<addrs, fds, sock, closing, line, got, sigpipe>>

\* Mutated: a send that failed is tried again.
SendRetried(t) ==
  /\ sock = "broken" /\ closing = NotYet
  /\ HasLine(t)
  /\ UNCHANGED ioVars

SendFails(t) ==
  /\ sock = "broken" /\ closing = NotYet
  /\ HasLine(t)
  /\ MidLine(t) \/ MayBegin(t)
  /\ Return(t, NilV)
  /\ UNCHANGED <<addrs, fds, sock, wire, order, closing, line, got, sigpipe>>

\* A send without MSG_NOSIGNAL: the signal ends the program.
SendKills(t) ==
  /\ sock = "broken" /\ closing = NotYet /\ sigpipe = "default"
  /\ HasLine(t)
  /\ MidLine(t) \/ MayBegin(t)
  /\ closing' = Killed
  /\ fds' = {}
  /\ UNCHANGED <<addrs, sock, wire, sends, order, line, got, sigpipe>>

\* close_conn, when the threads are done: its result is always nil.
CloseConn ==
  /\ sock \in {"open", "broken"} /\ closing = NotYet
  /\ \A t \in Sender : ~HasLine(t)
  /\ closing' = Lifted(NilV)
  /\ fds' = {}
  /\ sock' = IF sock = "open" THEN "closed" ELSE sock
  /\ UNCHANGED <<addrs, wire, sends, order, line, got, sigpipe>>

\* A reset: the bytes in flight are lost.
Break ==
  /\ sock = "open" \/ (sock = "closed" /\ wire # <<>>)
  /\ sock' = "broken"
  /\ wire' = <<>>
  /\ UNCHANGED <<addrs, fds, sends, order, closing, line, got, sigpipe>>

AtEnd == wire = <<>> /\ sock \in {"closed", "broken"}
Listening == ErrV \notin ToSet(got)

RecvReturns(v) ==
  /\ got' = Append(got, Lifted(v))
  /\ line' = <<>>

\* recv of one byte.
RecvByte ==
  /\ Listening
  /\ wire # <<>>
  /\ wire' = Tail(wire)
  /\ IF Head(wire) = NL THEN RecvReturns(String(line))
     ELSE line' = Append(line, Head(wire)) /\ UNCHANGED got
  /\ UNCHANGED <<addrs, fds, sock, sends, order, closing, sigpipe>>

\* recv returns 0 or fails: what there is of a line is returned as one.
RecvEnd ==
  /\ Listening
  /\ AtEnd
  /\ RecvReturns(IF line = <<>> THEN NilV ELSE String(line))
  /\ UNCHANGED <<addrs, fds, sock, wire, sends, order, closing, sigpipe>>

IoNext ==
  \/ TryAddress
  \/ \E t \in Sender : SendSome(t) \/ SendFails(t) \/ SendKills(t)
  \/ CloseConn
  \/ Break
  \/ RecvByte
  \/ RecvEnd

\* Every thread runs on when its call can return; nothing has to break.
IoFairness ==
  /\ WF_ioVars(TryAddress)
  /\ \A t \in Sender : WF_ioVars(SendSome(t)) /\ WF_ioVars(SendFails(t) \/ SendKills(t))
  /\ WF_ioVars(CloseConn)
  /\ WF_ioVars(RecvByte)
  /\ WF_ioVars(RecvEnd)

(***************************************************************************)
(* What the calls promise.                                                 *)
(***************************************************************************)
\* The Err at the end of the connection is no line; it is the last result.
Received == IF Listening THEN got ELSE Front(got)

\* However the bytes were cut up on their way, the lines received are those
\* sent, whole and in order; only the last one before the end of a broken
\* connection may lack its end.  When nothing broke and every send returned
\* true, none is missing at the end.
LinesWhole ==
  LET n == Len(Received)
  IN  /\ n <= Len(order)
      /\ \A k \in 1 .. n :
           \/ Received[k].text = order[k]
           \/ k = n /\ sock = "broken" /\ IsPrefix(Received[k].text, order[k])
      /\ ~Listening /\ sock = "closed" => n = Len(order)

\* The sending program has a descriptor open exactly while it has the
\* connection, whichever addresses refused before.
NoFdLost ==
  Cardinality(fds) = (IF sock # "none" /\ closing = NotYet THEN 1 ELSE 0)

\* Once connected, every send returns, the connection is closed (or the
\* program ended by SIGPIPE) and the receiver is told so: a full network or
\* a broken one makes nobody wait for ever.
ConnectionEnds == sock = "open" ~> closing # NotYet /\ ~Listening

\* src/codegen.rs:4065: io functions signal failure by returning nil, which
\* is lifted to an Err.  An Err of close_conn would be a failure of close.
ErrIsFailure == closing # ErrV
=============================================================================
