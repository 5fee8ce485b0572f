------------------------------- MODULE GoPerf -------------------------------
(***************************************************************************)
(* The Go perf client and server: P flows in one client process, one QUIC  *)
(* connection and one stream each, and the server's handlers.              *)
(*                                                                         *)
(* A stream delivers what is written to it in order and ends with FIN; a   *)
(* connection may fail at any moment (the path through the switch breaks,  *)
(* an idle timeout), after which both ends get errors.  Only byte counts   *)
(* are kept.  The interval reporter only prints and is left out.           *)
(***************************************************************************)
EXTENDS Naturals, Sequences, FiniteSets, Functions

CONSTANTS
  Flows,
  flowSize,   \* flow -> bytes: -n, or what -nmin and -nmax spread over the flows
  Chunk,      \* writeChunk and readBuf
  MaxBytes    \* bound: bytes written by a flow in duration mode

VARIABLES
  download, timed,  \* the flags: -download, -t > 0
  dataSize,         \* flow -> flowSize(id)
  pc,               \* flow -> where runFlow is
  conn,             \* flow -> "none" | "open" | "failed" | "closed"
  up,               \* flow -> client to server: [hdr, data, fin]
  dn,               \* flow -> server to client: [data, reply, fin]
  pending,          \* flow -> bytes of the blocked bulk Write already on the way
  totalSent, totalRecv, delivered,
  outcome,          \* history, flow -> how the figure was come by
  srv,              \* flow -> where handleStream is
  handler,          \* flow -> "none" | "running" | "gone": handleConn
  total,            \* flow -> bytes handleStream has read, or pushed
  results,          \* the channel, flows in order
  collected,        \* flows main has received
  totalDelivered,
  bytesTotal, streamsDone, connsOpen   \* the server's aggregates

flagVars == <<download, timed, dataSize>>
clientVars == <<pc, totalSent, totalRecv, delivered, outcome>>
serverVars == <<srv, handler, total, bytesTotal, streamsDone, connsOpen>>
mainVars == <<results, collected, totalDelivered>>
vars == <<flagVars, clientVars, conn, up, dn, pending, serverVars, mainVars>>

ASSUME GoAssumption ==
  /\ IsFiniteSet(Flows)
  /\ flowSize \in [Flows -> Nat \ {0}]   \* -n 0 without -t never ends
  /\ Chunk \in Nat \ {0}
  /\ MaxBytes \in Nat

Least(a, b) == IF a < b THEN a ELSE b
All(v) == [f \in Flows |-> v]

Init ==
  /\ download \in BOOLEAN /\ timed \in BOOLEAN
  /\ dataSize = IF timed THEN All(0) ELSE flowSize
  /\ pc = All("start") /\ conn = All("none")
  /\ up = All([hdr |-> FALSE, data |-> 0, fin |-> FALSE])
  /\ dn = All([data |-> 0, reply |-> <<>>, fin |-> FALSE]) /\ pending = All(0)
  /\ totalSent = All(0) /\ totalRecv = All(0)
  /\ delivered = All(0) /\ outcome = All("none")
  /\ srv = All("none") /\ handler = All("none") /\ total = All(0)
  /\ results = <<>> /\ collected = {} /\ totalDelivered = 0
  /\ bytesTotal = 0 /\ streamsDone = 0 /\ connsOpen = 0

-----------------------------------------------------------------------------
(* The client: runFlow *)

Dial(f) ==
  /\ pc[f] = "start"
  /\ pc' = [pc EXCEPT ![f] = "opening"]
  /\ conn' = [conn EXCEPT ![f] = "open"]
  /\ UNCHANGED <<pending, flagVars, totalSent, totalRecv, delivered, outcome, up, dn,
                 serverVars, mainVars>>

\* The stream is opened and the request header written.
Open(f) ==
  /\ pc[f] = "opening" /\ conn[f] = "open"
  /\ pc' = [pc EXCEPT ![f] = IF download THEN "recv" ELSE "send"]
  /\ up' = [up EXCEPT ![f].hdr = TRUE]
  /\ UNCHANGED <<pending, flagVars, totalSent, totalRecv, delivered, outcome, conn, dn,
                 serverVars, mainVars>>

\* Mutant of GiveUp: the error path returns without a result.
GiveUp_Silent(f) ==
  /\ pc[f] = "start" \/ (pc[f] = "opening" /\ conn[f] # "open")
  /\ pc' = [pc EXCEPT ![f] = "done"]
  /\ outcome' = [outcome EXCEPT ![f] = "failed"]
  /\ UNCHANGED <<pending, flagVars, totalSent, totalRecv, delivered, conn, up, dn,
                 serverVars, mainVars>>

\* listen, dial or open stream fails: a zero result.
GiveUp(f) ==
  /\ pc[f] = "start" \/ (pc[f] = "opening" /\ conn[f] # "open")
  /\ pc' = [pc EXCEPT ![f] = "done"]
  /\ outcome' = [outcome EXCEPT ![f] = "failed"]
  /\ results' = Append(results, f)
  /\ UNCHANGED <<pending, flagVars, totalSent, totalRecv, delivered, conn, up, dn,
                 serverVars, collected, totalDelivered>>

\* What one turn of a send loop writes; 0 when size is reached.
Turn(size, sent) == IF timed THEN Least(Chunk, MaxBytes - sent)
                             ELSE Least(Chunk, size - sent)

\* A Write blocks while the transport takes its bytes, one after the other ...
WriteByte(f) ==
  /\ pc[f] = "send" /\ conn[f] = "open"
  /\ pending[f] < Turn(dataSize[f], totalSent[f])
  /\ pending' = [pending EXCEPT ![f] = @ + 1]
  /\ up' = [up EXCEPT ![f].data = @ + 1]
  /\ UNCHANGED <<flagVars, clientVars, conn, dn, serverVars, mainVars>>

\* ... and counts them when it returns.
Write(f) ==
  /\ pc[f] = "send" /\ pending[f] > 0
  /\ pending[f] = Turn(dataSize[f], totalSent[f])
  /\ totalSent' = [totalSent EXCEPT ![f] = @ + pending[f]]
  /\ pending' = [pending EXCEPT ![f] = 0]
  /\ UNCHANGED <<flagVars, pc, totalRecv, delivered, outcome, conn, up, dn,
                 serverVars, mainVars>>

\* The deadline has passed or the size is reached between two writes, or a
\* write fails, its bytes uncounted.  The write side is closed and the read
\* deadline starts.
SendDone(f) ==
  /\ pc[f] = "send"
  /\ \/ pending[f] = 0 /\ (timed \/ totalSent[f] >= dataSize[f])
     \/ conn[f] # "open"
  /\ pc' = [pc EXCEPT ![f] = "reply"]
  /\ up' = [up EXCEPT ![f].fin = TRUE]
  /\ pending' = [pending EXCEPT ![f] = 0]
  /\ UNCHANGED <<flagVars, totalSent, totalRecv, delivered, outcome, conn, dn,
                 serverVars, mainVars>>

\* The flow's figure is printed and its result sent to main.
Finish(f, bytes, how) ==
  /\ pc' = [pc EXCEPT ![f] = "done"]
  /\ delivered' = [delivered EXCEPT ![f] = bytes]
  /\ outcome' = [outcome EXCEPT ![f] = how]
  /\ results' = Append(results, f)
  /\ UNCHANGED <<pending, flagVars, conn, up, dn, totalSent, totalRecv, serverVars,
                 collected, totalDelivered>>

\* ReadAll succeeds.  A total of zero falls back to the client's own count.
ReadReply(f) ==
  /\ pc[f] = "reply" /\ conn[f] = "open"
  /\ dn[f].fin /\ dn[f].reply # <<>>
  /\ Finish(f, IF dn[f].reply[1] = 0 THEN totalSent[f] ELSE dn[f].reply[1], "reply")

\* Mutant of Fallback: no reply counts as nothing delivered.
Fallback_Zero(f) == pc[f] = "reply" /\ Finish(f, 0, "fallback")

\* Ten seconds pass, the connection fails or an empty reply comes: any time
\* while the client waits, also when the reply is already under way.
Fallback(f) == pc[f] = "reply" /\ Finish(f, totalSent[f], "fallback")

Recv(f) ==
  /\ pc[f] = "recv" /\ conn[f] = "open"
  /\ \E n \in 1 .. Least(Chunk, dn[f].data) :
        /\ totalRecv' = [totalRecv EXCEPT ![f] = @ + n]
        /\ dn' = [dn EXCEPT ![f].data = @ - n]
  /\ UNCHANGED <<pending, flagVars, pc, totalSent, delivered, outcome, conn, up, serverVars,
                 mainVars>>

\* Any read error ends the download, EOF and a failed connection alike.
RecvDone(f) ==
  /\ pc[f] = "recv"
  /\ \/ conn[f] = "open" /\ dn[f].data = 0 /\ dn[f].fin /\ Finish(f, totalRecv[f], "eof")
     \/ conn[f] # "open" /\ Finish(f, totalRecv[f], "error")

\* The deferred CloseWithError of a flow that has reported; if main returns
\* before it runs, the server's idle timeout ends the connection instead.
CloseConn(f) ==
  /\ pc[f] = "done" /\ conn[f] = "open"
  /\ conn' = [conn EXCEPT ![f] = "closed"]
  /\ UNCHANGED <<pending, flagVars, clientVars, up, dn, serverVars, mainVars>>

Client(f) == \/ Dial(f) \/ Open(f) \/ GiveUp(f) \/ WriteByte(f) \/ Write(f)
             \/ SendDone(f) \/ ReadReply(f) \/ Fallback(f) \/ Recv(f) \/ RecvDone(f) \/ CloseConn(f)

\* main: one receive per flow, then the totals.
Collect ==
  /\ results # <<>>
  /\ collected' = collected \cup {Head(results)}
  /\ totalDelivered' = totalDelivered + delivered[Head(results)]
  /\ results' = Tail(results)
  /\ UNCHANGED <<pending, flagVars, clientVars, conn, up, dn, serverVars>>

-----------------------------------------------------------------------------
(* The server: handleConn and handleStream *)

Accept(f) ==
  /\ conn[f] # "none" /\ handler[f] = "none"
  /\ handler' = [handler EXCEPT ![f] = "running"]
  /\ connsOpen' = connsOpen + 1
  /\ UNCHANGED <<pending, flagVars, clientVars, conn, up, dn, srv, total, bytesTotal,
                 streamsDone, mainVars>>

\* Mutant of ConnGone: the count is only taken back after a clean close.
ConnGone_CleanOnly(f) ==
  /\ handler[f] = "running" /\ conn[f] # "open"
  /\ handler' = [handler EXCEPT ![f] = "gone"]
  /\ connsOpen' = IF conn[f] = "closed" THEN connsOpen - 1 ELSE connsOpen
  /\ UNCHANGED <<pending, flagVars, clientVars, conn, up, dn, srv, total, bytesTotal,
                 streamsDone, mainVars>>

\* AcceptStream fails once the connection is gone; handleConn returns.
ConnGone(f) ==
  /\ handler[f] = "running" /\ conn[f] # "open"
  /\ handler' = [handler EXCEPT ![f] = "gone"]
  /\ connsOpen' = connsOpen - 1
  /\ UNCHANGED <<pending, flagVars, clientVars, conn, up, dn, srv, total, bytesTotal,
                 streamsDone, mainVars>>

\* A stream arrives with its header line, which picks the mode.
Header(f) ==
  /\ handler[f] = "running" /\ srv[f] = "none" /\ conn[f] = "open" /\ up[f].hdr
  /\ up' = [up EXCEPT ![f].hdr = FALSE]
  /\ srv' = [srv EXCEPT ![f] = IF download THEN "push" ELSE "read"]
  /\ UNCHANGED <<pending, flagVars, clientVars, conn, dn, handler, total, bytesTotal, streamsDone,
                 connsOpen, mainVars>>

Read(f) ==
  /\ srv[f] = "read" /\ conn[f] = "open"
  /\ \E n \in 1 .. Least(Chunk, up[f].data) :
        /\ total' = [total EXCEPT ![f] = @ + n]
        /\ up' = [up EXCEPT ![f].data = @ - n]
  /\ UNCHANGED <<pending, flagVars, clientVars, conn, dn, srv, handler, bytesTotal, streamsDone,
                 connsOpen, mainVars>>

CountStream(f) == /\ bytesTotal' = bytesTotal + total[f]
                  /\ streamsDone' = streamsDone + 1

\* Mutants of ReadEnd: FIN is taken for EOF before the data is drained; the
\* total is echoed before it is added to the aggregates.
ReadEnd_Early(f) ==
  /\ srv[f] = "read" /\ conn[f] = "open" /\ up[f].fin
  /\ CountStream(f)
  /\ srv' = [srv EXCEPT ![f] = "echo"]
  /\ UNCHANGED <<pending, flagVars, clientVars, conn, up, dn, handler, total,
                 connsOpen, mainVars>>
ReadEnd_EchoFirst(f) ==
  \/ /\ srv[f] = "read" /\ conn[f] = "open" /\ up[f].data = 0 /\ up[f].fin
     /\ ~dn[f].fin
     /\ dn' = [dn EXCEPT ![f].reply = <<total[f]>>, ![f].fin = TRUE]
     /\ UNCHANGED <<pending, flagVars, clientVars, conn, up, serverVars, mainVars>>
  \/ /\ srv[f] = "read" /\ dn[f].fin
     /\ CountStream(f)
     /\ srv' = [srv EXCEPT ![f] = "end"]
     /\ UNCHANGED <<pending, flagVars, clientVars, conn, up, dn, handler, total,
                 connsOpen, mainVars>>

\* EOF: everything has been read.
ReadEnd(f) ==
  /\ srv[f] = "read" /\ conn[f] = "open" /\ up[f].data = 0 /\ up[f].fin
  /\ CountStream(f)
  /\ srv' = [srv EXCEPT ![f] = "echo"]
  /\ UNCHANGED <<pending, flagVars, clientVars, conn, up, dn, handler, total,
                 connsOpen, mainVars>>

\* Another read error: the handler returns, its bytes uncounted.
ReadError(f) ==
  /\ srv[f] = "read" /\ conn[f] # "open"
  /\ srv' = [srv EXCEPT ![f] = "end"]
  /\ UNCHANGED <<pending, flagVars, clientVars, conn, up, dn, handler, total, bytesTotal,
                 streamsDone, connsOpen, mainVars>>

\* The total is echoed and the stream closed.
Echo(f) ==
  /\ srv[f] = "echo"
  /\ srv' = [srv EXCEPT ![f] = "end"]
  /\ dn' = [dn EXCEPT ![f].reply = <<total[f]>>, ![f].fin = TRUE]
  /\ UNCHANGED <<pending, flagVars, clientVars, conn, up, handler, total, bytesTotal,
                 streamsDone, connsOpen, mainVars>>

\* serveDownload writes, and counts, in the same way.
PushByte(f) ==
  /\ srv[f] = "push" /\ conn[f] = "open"
  /\ pending[f] < Turn(dataSize[f], total[f])
  /\ pending' = [pending EXCEPT ![f] = @ + 1]
  /\ dn' = [dn EXCEPT ![f].data = @ + 1]
  /\ UNCHANGED <<flagVars, clientVars, conn, up, serverVars, mainVars>>

Push(f) ==
  /\ srv[f] = "push" /\ pending[f] > 0
  /\ pending[f] = Turn(dataSize[f], total[f])
  /\ total' = [total EXCEPT ![f] = @ + pending[f]]
  /\ pending' = [pending EXCEPT ![f] = 0]
  /\ UNCHANGED <<flagVars, clientVars, conn, up, dn, srv, handler, bytesTotal,
                 streamsDone, connsOpen, mainVars>>

\* It ends: size reached, deadline passed or a write fails.
PushEnd(f) ==
  /\ srv[f] = "push"
  /\ \/ pending[f] = 0 /\ (timed \/ total[f] >= dataSize[f])
     \/ conn[f] # "open"
  /\ CountStream(f)
  /\ srv' = [srv EXCEPT ![f] = "close"]
  /\ pending' = [pending EXCEPT ![f] = 0]
  /\ UNCHANGED <<flagVars, clientVars, conn, up, dn, handler, total, connsOpen, mainVars>>

\* ... and the deferred Close sends FIN.
PushClose(f) ==
  /\ srv[f] = "close"
  /\ srv' = [srv EXCEPT ![f] = "end"]
  /\ dn' = [dn EXCEPT ![f].fin = TRUE]
  /\ UNCHANGED <<pending, flagVars, clientVars, conn, up, handler, total, bytesTotal,
                 streamsDone, connsOpen, mainVars>>

Server(f) == \/ Accept(f) \/ ConnGone(f) \/ Header(f) \/ Read(f) \/ ReadEnd(f)
             \/ ReadError(f) \/ Echo(f) \/ PushByte(f) \/ Push(f)
             \/ PushEnd(f) \/ PushClose(f)

\* The network: the connection fails.
ConnFail(f) ==
  /\ conn[f] = "open"
  /\ conn' = [conn EXCEPT ![f] = "failed"]
  /\ UNCHANGED <<pending, flagVars, clientVars, up, dn, serverVars, mainVars>>

Next == \/ \E f \in Flows : Client(f) \/ Server(f) \/ ConnFail(f)
        \/ Collect

\* Every goroutine is scheduled; nothing is assumed of the network.
Spec == /\ Init /\ [][Next]_vars
        /\ \A f \in Flows : WF_vars(Client(f)) /\ WF_vars(Server(f))
        /\ WF_vars(Collect)

-----------------------------------------------------------------------------
(* Properties *)

Finished == collected = Flows

\* A figure taken from the server's reply is exactly what the client wrote.
ReplyExact == \A f \in Flows : outcome[f] = "reply" => delivered[f] = totalSent[f]

\* The figure of an upload is never below what the server has received, also
\* when the ten seconds end in the middle of a reply; if the connection fails
\* during a Write, it is short by less than that Write.
NeverUnderreported ==
  \A f \in Flows : ~download /\ pc[f] = "done" =>
     total[f] <= delivered[f] + (IF conn[f] = "failed" THEN Chunk ELSE 0)

\* When every flow has ended properly, the client's total is the server's:
\* the aggregates are updated before the client can learn of the end.
TotalsAgree ==
  Finished /\ (\A f \in Flows : outcome[f] \in {"reply", "eof"})
     => totalDelivered = bytesTotal /\ streamsDone = Cardinality(Flows)

\* main gets one result per flow, whichever way flows end, and returns.
AllCollected == <>Finished

\* Once the client is through, the server's handlers end: no open connection.
NoLeak == Finished ~> connsOpen = 0
=============================================================================
