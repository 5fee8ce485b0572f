------------------------------- MODULE AioPerf -------------------------------
(***************************************************************************)
(* The Python perf client and server (aioquic): a flow queues its data on  *)
(* one stream and then asks for the server's byte count on another.        *)
(*                                                                         *)
(* Each process is one event loop, so an action is the code between two    *)
(* awaits, or one event handler.  Each stream is delivered in order, but   *)
(* nothing orders the two streams: the request may overtake data that is   *)
(* still in the send buffer.  A connection may fail silently: the client   *)
(* notices only by its five second timeout.                                *)
(***************************************************************************)
EXTENDS Naturals, FiniteSets

CONSTANTS
  Flows,
  data_size,     \* -n
  CHUNK,
  StatsBytes,    \* Len(STATS_MAGIC)
  MaxBytes       \* bound: bytes queued by a flow in duration mode

ASSUME AioAssumption ==
  /\ data_size \in Nat /\ CHUNK \in Nat \ {0}
  /\ StatsBytes \in Nat \ {0} /\ MaxBytes \in Nat

VARIABLES
  duration,      \* -t > 0
  pc,            \* flow -> "connect" | "send" | "wait" | "done" | "error"
  path,          \* flow -> packets get through
  total_sent,    \* flow -> bytes queued
  buffered,      \* flow -> bytes of the data stream not yet at the server
  stats,         \* flow -> the request: "none" | "sent" | "answered"
  streamBytes,   \* flow -> the server's _stream_bytes of the data stream, as <<n>>
  reply,         \* flow -> the answer on its way, as <<n>>
  server_total, received,
  delivered,     \* flow -> what run_single_flow returns
  confirmed,     \* history, flow -> the figure is the server's
  main           \* "gather" | "printed" | "raised"

clientVars == <<pc, total_sent, server_total, received, delivered, confirmed>>
aioVars == <<duration, path, buffered, stats, streamBytes, reply, clientVars, main>>

All(v) == [f \in Flows |-> v]
Active(f) == main = "gather" /\ pc[f] \in {"connect", "send", "wait"}

AioInit ==
  /\ duration \in BOOLEAN
  /\ pc = All("connect") /\ path = All(TRUE)
  /\ total_sent = All(0) /\ buffered = All(0) /\ stats = All("none")
  /\ streamBytes = All(<<>>) /\ reply = All(<<>>)
  /\ server_total = All(0) /\ received = All(FALSE)
  /\ delivered = All(0) /\ confirmed = All(FALSE) /\ main = "gather"

-----------------------------------------------------------------------------
(* The client *)

Connect(f) ==
  /\ Active(f) /\ pc[f] = "connect" /\ path[f]
  /\ pc' = [pc EXCEPT ![f] = "send"]
  /\ UNCHANGED <<duration, path, buffered, stats, streamBytes, reply, total_sent,
                 server_total, received, delivered, confirmed, main>>

\* connect raises: so does gather, and asyncio.run cancels the other flows.
ConnectError(f) ==
  /\ Active(f) /\ pc[f] = "connect"
  /\ pc' = [pc EXCEPT ![f] = "error"]
  /\ main' = "raised"
  /\ UNCHANGED <<duration, path, buffered, stats, streamBytes, reply, total_sent,
                 server_total, received, delivered, confirmed>>

\* The bytes of the next turn of the send loop, 0 when there is none.
Piece(f) ==
  LET left == (IF duration THEN MaxBytes ELSE data_size) - total_sent[f]
  IN IF left < CHUNK THEN left ELSE CHUNK

\* One turn: the piece is queued, whatever becomes of the connection.
SendPiece(f) ==
  /\ Active(f) /\ pc[f] = "send" /\ Piece(f) > 0
  /\ total_sent' = [total_sent EXCEPT ![f] = @ + Piece(f)]
  /\ buffered' = [buffered EXCEPT ![f] = @ + Piece(f)]
  /\ UNCHANGED <<duration, path, stats, streamBytes, reply, pc, server_total, received,
                 delivered, confirmed, main>>

\* The loop is left and the request sent on a stream of its own.
AskStats(f) ==
  /\ Active(f) /\ pc[f] = "send" /\ (duration \/ Piece(f) = 0)
  /\ pc' = [pc EXCEPT ![f] = "wait"]
  /\ stats' = [stats EXCEPT ![f] = "sent"]
  /\ UNCHANGED <<duration, path, buffered, streamBytes, reply, total_sent, server_total,
                 received, delivered, confirmed, main>>

\* quic_event_received: the answer has come, its end included.
OnReply(f) ==
  /\ Active(f) /\ path[f] /\ reply[f] # <<>>
  /\ server_total' = [server_total EXCEPT ![f] = reply[f][1]]
  /\ received' = [received EXCEPT ![f] = TRUE]
  /\ reply' = [reply EXCEPT ![f] = <<>>]
  /\ UNCHANGED <<duration, path, buffered, stats, streamBytes, pc, total_sent, delivered,
                 confirmed, main>>

\* Mutant of Return: no timeout.
Return_NoTimeout(f) ==
  /\ Active(f) /\ pc[f] = "wait" /\ received[f]
  /\ pc' = [pc EXCEPT ![f] = "done"]
  /\ confirmed' = [confirmed EXCEPT ![f] = server_total[f] # 0]
  /\ delivered' = [delivered EXCEPT ![f] =
                     IF server_total[f] # 0 THEN server_total[f] ELSE total_sent[f]]
  /\ UNCHANGED <<duration, path, buffered, stats, streamBytes, reply, total_sent,
                 server_total, received, main>>

\* The wait ends, with the answer or after five seconds; no answer and an
\* answer of zero both mean the client's own count.
Return(f) ==
  /\ Active(f) /\ pc[f] = "wait"
  /\ pc' = [pc EXCEPT ![f] = "done"]
  /\ confirmed' = [confirmed EXCEPT ![f] = server_total[f] # 0]
  /\ delivered' = [delivered EXCEPT ![f] =
                     IF server_total[f] # 0 THEN server_total[f] ELSE total_sent[f]]
  /\ UNCHANGED <<duration, path, buffered, stats, streamBytes, reply, total_sent,
                 server_total, received, main>>

\* gather returns and the totals are printed.
Gather ==
  /\ main = "gather" /\ \A f \in Flows : pc[f] = "done"
  /\ main' = "printed"
  /\ UNCHANGED <<duration, path, buffered, stats, streamBytes, reply, clientVars>>

Client(f) == \/ Connect(f) \/ ConnectError(f) \/ SendPiece(f) \/ AskStats(f)
             \/ OnReply(f) \/ Return(f)

-----------------------------------------------------------------------------
(* The server and the network *)

BytesOf(f) == IF streamBytes[f] = <<>> THEN 0 ELSE streamBytes[f][1]

\* quic_event_received with data of the data stream.
OnData(f) ==
  /\ Active(f) /\ path[f]
  /\ \E n \in 1 .. buffered[f] :
        /\ buffered' = [buffered EXCEPT ![f] = @ - n]
        /\ streamBytes' = [streamBytes EXCEPT ![f] = <<BytesOf(f) + n>>]
  /\ UNCHANGED <<duration, path, stats, reply, clientVars, main>>

\* Mutant of OnStats: the request is accumulated like data.
OnStats_Counted(f) ==
  /\ Active(f) /\ path[f] /\ stats[f] = "sent"
  /\ stats' = [stats EXCEPT ![f] = "answered"]
  /\ streamBytes' = [streamBytes EXCEPT ![f] = <<BytesOf(f) + StatsBytes>>]
  /\ reply' = [reply EXCEPT ![f] = <<BytesOf(f) + StatsBytes>>]
  /\ UNCHANGED <<duration, path, buffered, clientVars, main>>

\* ... with the request: the count so far is the answer.
OnStats(f) ==
  /\ Active(f) /\ path[f] /\ stats[f] = "sent"
  /\ stats' = [stats EXCEPT ![f] = "answered"]
  /\ reply' = [reply EXCEPT ![f] = <<BytesOf(f)>>]
  /\ UNCHANGED <<duration, path, buffered, streamBytes, clientVars, main>>

\* Packets stop getting through.
PathFails(f) ==
  /\ path[f] /\ path' = [path EXCEPT ![f] = FALSE]
  /\ UNCHANGED <<duration, buffered, stats, streamBytes, reply, clientVars, main>>

AioNext == \/ \E f \in Flows : Client(f) \/ OnData(f) \/ OnStats(f) \/ PathFails(f)
           \/ Gather

\* The client's event loop runs, and its timers fire; the network owes nothing.
AioSpec == AioInit /\ [][AioNext]_aioVars /\ (\A f \in Flows : WF_aioVars(Client(f))) /\ WF_aioVars(Gather)

-----------------------------------------------------------------------------
(* Properties *)

\* A flow never reports more than it queued, nor, when the figure is the
\* server's, more than the server has received: the request itself is not data.
NeverOverreported ==
  \A f \in Flows : pc[f] = "done" =>
     /\ delivered[f] <= total_sent[f]
     /\ confirmed[f] => delivered[f] <= BytesOf(f)

\* The client ends, with totals or with an exception, whatever gets lost.
ClientEnds == <>(main # "gather")
=============================================================================
