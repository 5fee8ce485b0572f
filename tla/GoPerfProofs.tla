---------------------------- MODULE GoPerfProofs ----------------------------
(***************************************************************************)
(* The figures of the Go perf tools, for every number of flows, every size *)
(* and every chunk: bytes are conserved from the Write loop to the total   *)
(* of the other end, so a figure taken from the server's reply is exact,   *)
(* no upload is reported below what was received, and the totals of client *)
(* and server agree when all flows end properly.                           *)
(***************************************************************************)
EXTENDS GoPerf, OperatorProofs, SequenceTheorems

-----------------------------------------------------------------------------
(* The inductive invariant *)

UpState == [hdr : BOOLEAN, data : Nat, fin : BOOLEAN]
DnState == [data : Nat, reply : Seq(Nat), fin : BOOLEAN]
Pcs == {"start", "opening", "send", "recv", "reply", "done"}
Conns == {"none", "open", "failed", "closed"}
Srvs == {"none", "read", "echo", "push", "close", "end"}
Outcomes == {"none", "failed", "reply", "fallback", "eof", "error"}

GoTyped ==
  /\ download \in BOOLEAN /\ timed \in BOOLEAN /\ dataSize \in [Flows -> Nat]
  /\ pc \in [Flows -> Pcs] /\ conn \in [Flows -> Conns] /\ srv \in [Flows -> Srvs]
  /\ up \in [Flows -> UpState] /\ dn \in [Flows -> DnState] /\ pending \in [Flows -> Nat]
  /\ totalSent \in [Flows -> Nat] /\ totalRecv \in [Flows -> Nat]
  /\ delivered \in [Flows -> Nat] /\ outcome \in [Flows -> Outcomes]
  /\ total \in [Flows -> Nat]

\* The connection and the modes of a flow's two ends go with where they are.
Paired(f) ==
  /\ pc[f] = "start" => conn[f] = "none"
  /\ conn[f] = "none" => srv[f] = "none"
  /\ pc[f] \in {"opening", "send", "recv", "reply"} => conn[f] \in {"open", "failed"}
  /\ conn[f] = "closed" => pc[f] = "done"
  /\ pc[f] \in {"start", "opening"} => ~up[f].hdr /\ srv[f] = "none" /\ totalSent[f] = 0
  /\ pc[f] # "done" => delivered[f] = 0 /\ outcome[f] = "none"
  /\ pc[f] \in {"send", "reply"} \/ srv[f] \in {"read", "echo"} => ~download
  /\ pc[f] = "recv" \/ srv[f] \in {"push", "close"} => download

\* What an upload has put on the stream is on the way or counted by the server,
\* and the client has counted all of it but the bytes of one Write.
Upload(f) ==
  /\ pc[f] # "send" => pending[f] = 0
  /\ pending[f] <= Chunk
  /\ conn[f] # "failed" \/ pc[f] = "send" =>
       up[f].data + total[f] = totalSent[f] + pending[f]
  /\ up[f].data + total[f] <= totalSent[f] + pending[f] + Chunk
  /\ up[f].fin => pc[f] \in {"reply", "done"}
  /\ srv[f] = "echo" \/ dn[f].fin => up[f].data = 0 /\ up[f].fin
  /\ dn[f].reply = IF dn[f].fin THEN <<total[f]>> ELSE <<>>
  /\ pc[f] = "done" => delivered[f] = totalSent[f]
  /\ outcome[f] = "reply" => delivered[f] = total[f] /\ dn[f].fin
  /\ outcome[f] # "eof"

\* What a download has put on the stream is on the way or received.
Download(f) ==
  /\ srv[f] # "push" => pending[f] = 0
  /\ conn[f] \in {"none", "open"} => dn[f].data + totalRecv[f] = total[f] + pending[f]
  /\ dn[f].reply = <<>>
  /\ outcome[f] = "eof" => delivered[f] = total[f] /\ dn[f].fin
  /\ outcome[f] # "reply"

FlowInv(f) ==
  /\ Paired(f)
  /\ dn[f].fin => srv[f] = "end"
  /\ ~download => Upload(f)
  /\ download => Download(f)

\* The server has added the flow's total to its aggregates; a read error ends
\* a stream without.
IsCounted(f) == srv[f] \in {"echo", "close"} \/ dn[f].fin
Counted == {f \in Flows : IsCounted(f)}

\* A flow's result is once in the channel or collected, and only when it is done.
ChannelInv ==
  /\ results \in Seq(Flows) /\ collected \subseteq Flows
  /\ \A f \in collected : pc[f] = "done"
  /\ \A i \in 1 .. Len(results) : pc[results[i]] = "done" /\ results[i] \notin collected
  /\ \A i, j \in 1 .. Len(results) : i # j => results[i] # results[j]

SumsInv ==
  /\ totalDelivered = SumFunctionOnSet(delivered, collected)
  /\ bytesTotal = SumFunctionOnSet(total, Counted)
  /\ streamsDone = Cardinality(Counted)

GoInv == GoTyped /\ (\A f \in Flows : FlowInv(f)) /\ ChannelInv /\ SumsInv

-----------------------------------------------------------------------------
(* One flow at a time *)

\* A step leaves everything of flow g as it was.
Same(g) ==
  /\ pc'[g] = pc[g] /\ conn'[g] = conn[g] /\ up'[g] = up[g] /\ dn'[g] = dn[g]
  /\ pending'[g] = pending[g] /\ totalSent'[g] = totalSent[g] /\ totalRecv'[g] = totalRecv[g]
  /\ delivered'[g] = delivered[g] /\ outcome'[g] = outcome[g]
  /\ srv'[g] = srv[g] /\ total'[g] = total[g]

\* A flow whose state does not change keeps its invariant.
LEMMA FlowFrame ==
  ASSUME NEW g, FlowInv(g), Same(g), download' = download
  PROVE  FlowInv(g)'
BY DEF FlowInv, Paired, Upload, Download, Same

\* A turn of a send loop writes at most a chunk.
LEMMA TurnBound ==
  ASSUME GoTyped, NEW f \in Flows, NEW sent \in Nat
  PROVE  /\ Turn(dataSize[f], sent) \in Int /\ Turn(dataSize[f], sent) <= Chunk
         /\ ~timed => Turn(dataSize[f], sent) <= dataSize[f] - sent
BY GoAssumption DEF GoTyped, Turn, Least

\* What the steps of runFlow do to their own flow, and that they touch no other.
LEMMA ClientStep ==
  ASSUME GoTyped, NEW f \in Flows, FlowInv(f), Client(f)
  PROVE  GoTyped' /\ FlowInv(f)' /\ \A g \in Flows \ {f} : Same(g)
<1> USE GoAssumption DEF flagVars, clientVars, serverVars, mainVars
<1>1. CASE Dial(f)
  <2>1. GoTyped'
    <3>1. pc' \in [Flows -> Pcs] /\ conn' \in [Flows -> Conns]
      BY <1>1 DEF Dial, GoTyped, Pcs, Conns
    <3>2. UNCHANGED <<download, timed, dataSize, srv, up, dn, pending,
                     totalSent, totalRecv, delivered, outcome, total>>
      BY <1>1 DEF Dial
    <3>3. QED
      BY <3>1, <3>2 DEF GoTyped
  <2>2. FlowInv(f)'
    BY <1>1 DEF Dial, GoTyped, UpState, DnState, FlowInv, Paired, Upload, Download
  <2>3. \A g \in Flows \ {f} : Same(g)
    BY <1>1 DEF Dial, GoTyped, Same
  <2>4. QED
    BY <2>1, <2>2, <2>3
<1>2. CASE Open(f)
  <2>1. GoTyped'
    <3>1. pc' \in [Flows -> Pcs] /\ up' \in [Flows -> UpState]
      BY <1>2 DEF Open, GoTyped, Pcs, UpState
    <3>2. UNCHANGED <<download, timed, dataSize, conn, srv, dn, pending,
                     totalSent, totalRecv, delivered, outcome, total>>
      BY <1>2 DEF Open
    <3>3. QED
      BY <3>1, <3>2 DEF GoTyped
  <2>2. FlowInv(f)'
    BY <1>2 DEF Open, GoTyped, UpState, DnState, FlowInv, Paired, Upload, Download
  <2>3. \A g \in Flows \ {f} : Same(g)
    BY <1>2 DEF Open, GoTyped, Same
  <2>4. QED
    BY <2>1, <2>2, <2>3
<1>3. CASE GiveUp(f)
  <2>1. GoTyped'
    <3>1. pc' \in [Flows -> Pcs] /\ outcome' \in [Flows -> Outcomes]
      BY <1>3 DEF GiveUp, GoTyped, Pcs, Outcomes
    <3>2. UNCHANGED <<download, timed, dataSize, conn, srv, up, dn,
                     pending, totalSent, totalRecv, delivered, total>>
      BY <1>3 DEF GiveUp
    <3>3. QED
      BY <3>1, <3>2 DEF GoTyped
  <2>2. FlowInv(f)'
    BY <1>3 DEF GiveUp, GoTyped, UpState, DnState, FlowInv, Paired, Upload, Download
  <2>3. \A g \in Flows \ {f} : Same(g)
    BY <1>3 DEF GiveUp, GoTyped, Same
  <2>4. QED
    BY <2>1, <2>2, <2>3
<1>4. CASE WriteByte(f)
  <2>1. GoTyped'
    <3>1. pending' \in [Flows -> Nat] /\ up' \in [Flows -> UpState]
      BY <1>4 DEF WriteByte, GoTyped, UpState
    <3>2. UNCHANGED <<download, timed, dataSize, pc, conn, srv, dn,
                     totalSent, totalRecv, delivered, outcome, total>>
      BY <1>4 DEF WriteByte
    <3>3. QED
      BY <3>1, <3>2 DEF GoTyped
  <2>2. FlowInv(f)'
    <3>1. ~download /\ totalSent[f] \in Nat /\ pending[f] \in Nat /\ total[f] \in Nat
      BY <1>4 DEF WriteByte, GoTyped, FlowInv, Paired
    <3>2. pending[f] + 1 <= Chunk
      <4>1. pending[f] < Turn(dataSize[f], totalSent[f])
        BY <1>4 DEF WriteByte
      <4>2. Turn(dataSize[f], totalSent[f]) \in Int /\ Turn(dataSize[f], totalSent[f]) <= Chunk
        BY <3>1, TurnBound
      <4>3. QED
        BY <3>1, <4>1, <4>2
    <3>3. /\ pending' = [pending EXCEPT ![f] = pending[f] + 1]
          /\ up' = [up EXCEPT ![f] = [up[f] EXCEPT !.data = up[f].data + 1]]
      BY <1>4 DEF WriteByte
    <3>4. up[f] \in UpState /\ up[f].data \in Nat
      BY DEF GoTyped, UpState
    <3>5. /\ pending'[f] = pending[f] + 1 /\ up'[f].data = up[f].data + 1
          /\ up'[f].hdr = up[f].hdr /\ up'[f].fin = up[f].fin
      BY <3>3, <3>4 DEF GoTyped, UpState
    <3>6. /\ pc[f] = "send" /\ conn[f] = "open"
          /\ UNCHANGED <<download, pc, conn, srv, dn, totalSent, totalRecv, delivered,
                         outcome, total>>
      BY <1>4 DEF WriteByte
    <3>7. Paired(f) /\ Upload(f) /\ (dn[f].fin => srv[f] = "end")
      BY <3>1 DEF FlowInv
    <3>8. ~up[f].fin
      BY <3>6, <3>7 DEF Upload
    <3>9. Paired(f)'
      BY <3>5, <3>6, <3>7 DEF Paired
    <3>10. Upload(f)'
      <4>1. /\ up[f].data + total[f] = totalSent[f] + pending[f] /\ outcome[f] # "reply"
            /\ srv[f] # "echo" /\ ~dn[f].fin /\ dn[f].reply = <<>> /\ outcome[f] # "eof"
        BY <3>6, <3>7, <3>8 DEF Upload, Paired
      <4>2. /\ up'[f].data + total'[f] = totalSent'[f] + pending'[f]
            /\ up'[f].data + total'[f] <= totalSent'[f] + pending'[f] + Chunk
            /\ pending'[f] <= Chunk
        <5>1. total'[f] = total[f] /\ totalSent'[f] = totalSent[f] /\ Chunk \in Nat
          BY <3>6
        <5>2. /\ pending'[f] = pending[f] + 1 /\ up'[f].data = up[f].data + 1
              /\ totalSent[f] \in Nat /\ pending[f] \in Nat /\ total[f] \in Nat
              /\ up[f].data + total[f] = totalSent[f] + pending[f]
          BY <3>1, <3>5, <4>1
        <5>3. up'[f].data + total'[f] = totalSent'[f] + pending'[f]
          BY <3>4, <5>1, <5>2
        <5>4. pending'[f] <= Chunk
          BY <3>2, <5>2
        <5>5. totalSent'[f] + pending'[f] \in Nat
          BY <5>1, <5>2
        <5>6. QED
          BY <5>1, <5>3, <5>4, <5>5
      <4>3. /\ pc'[f] = "send" /\ srv'[f] = srv[f] /\ dn'[f] = dn[f] /\ outcome'[f] = outcome[f]
            /\ ~up'[f].fin
        BY <3>5, <3>6, <3>8
      <4>4. QED
        BY <4>1, <4>2, <4>3 DEF Upload
    <3>11. QED
      BY <3>1, <3>6, <3>7, <3>9, <3>10 DEF FlowInv
  <2>3. \A g \in Flows \ {f} : Same(g)
    BY <1>4 DEF WriteByte, GoTyped, Same
  <2>4. QED
    BY <2>1, <2>2, <2>3
<1>5. CASE Write(f)
  <2>1. GoTyped'
    <3>1. totalSent' \in [Flows -> Nat] /\ pending' \in [Flows -> Nat]
      BY <1>5 DEF Write, GoTyped
    <3>2. UNCHANGED <<download, timed, dataSize, pc, conn, srv, up,
                     dn, totalRecv, delivered, outcome, total>>
      BY <1>5 DEF Write
    <3>3. QED
      BY <3>1, <3>2 DEF GoTyped
  <2>2. FlowInv(f)'
    BY <1>5 DEF Write, GoTyped, UpState, DnState, FlowInv, Paired, Upload, Download
  <2>3. \A g \in Flows \ {f} : Same(g)
    BY <1>5 DEF Write, GoTyped, Same
  <2>4. QED
    BY <2>1, <2>2, <2>3
<1>6. CASE SendDone(f)
  <2>1. GoTyped'
    <3>1. pc' \in [Flows -> Pcs] /\ up' \in [Flows -> UpState] /\ pending' \in [Flows -> Nat]
      BY <1>6 DEF SendDone, GoTyped, Pcs, UpState
    <3>2. UNCHANGED <<download, timed, dataSize, conn, srv, dn, totalSent,
                     totalRecv, delivered, outcome, total>>
      BY <1>6 DEF SendDone
    <3>3. QED
      BY <3>1, <3>2 DEF GoTyped
  <2>2. FlowInv(f)'
    BY <1>6 DEF SendDone, GoTyped, UpState, DnState, FlowInv, Paired, Upload, Download
  <2>3. \A g \in Flows \ {f} : Same(g)
    BY <1>6 DEF SendDone, GoTyped, Same
  <2>4. QED
    BY <2>1, <2>2, <2>3
<1>7. CASE ReadReply(f)
  <2>1. GoTyped'
    <3>1. pc' \in [Flows -> Pcs] /\ delivered' \in [Flows -> Nat] /\ outcome' \in [Flows -> Outcomes]
      <4>1. dn[f].reply \in Seq(Nat) /\ totalSent[f] \in Nat
        BY DEF GoTyped, DnState
      <4>2. dn[f].reply[1] \in Nat
        BY <1>7, <4>1 DEF ReadReply
      <4>3. QED
        BY <1>7, <4>1, <4>2 DEF ReadReply, Finish, GoTyped, Pcs, Outcomes
    <3>2. UNCHANGED <<download, timed, dataSize, conn, srv, up, dn,
                     pending, totalSent, totalRecv, total>>
      BY <1>7 DEF ReadReply, Finish
    <3>3. QED
      BY <3>1, <3>2 DEF GoTyped
  <2>2. FlowInv(f)'
    BY <1>7 DEF ReadReply, Finish, GoTyped, UpState, DnState, FlowInv, Paired, Upload, Download
  <2>3. \A g \in Flows \ {f} : Same(g)
    BY <1>7 DEF ReadReply, Finish, GoTyped, Same
  <2>4. QED
    BY <2>1, <2>2, <2>3
<1>8. CASE Fallback(f)
  <2>1. GoTyped'
    <3>1. pc' \in [Flows -> Pcs] /\ delivered' \in [Flows -> Nat] /\ outcome' \in [Flows -> Outcomes]
      BY <1>8 DEF Fallback, Finish, GoTyped, Pcs, Outcomes
    <3>2. UNCHANGED <<download, timed, dataSize, conn, srv, up, dn,
                     pending, totalSent, totalRecv, total>>
      BY <1>8 DEF Fallback, Finish
    <3>3. QED
      BY <3>1, <3>2 DEF GoTyped
  <2>2. FlowInv(f)'
    BY <1>8 DEF Fallback, Finish, GoTyped, UpState, DnState, FlowInv, Paired, Upload, Download
  <2>3. \A g \in Flows \ {f} : Same(g)
    BY <1>8 DEF Fallback, Finish, GoTyped, Same
  <2>4. QED
    BY <2>1, <2>2, <2>3
<1>9. CASE Recv(f)
  <2>1. GoTyped'
    <3>1. totalRecv' \in [Flows -> Nat] /\ dn' \in [Flows -> DnState]
      <4>1. PICK n \in 1 .. Least(Chunk, dn[f].data) :
               /\ totalRecv' = [totalRecv EXCEPT ![f] = @ + n]
               /\ dn' = [dn EXCEPT ![f].data = @ - n]
        BY <1>9 DEF Recv
      <4>2. dn[f] \in DnState /\ dn[f].data \in Nat /\ totalRecv[f] \in Nat
        BY DEF GoTyped, DnState
      <4>3. n \in Nat /\ dn[f].data - n \in Nat /\ totalRecv[f] + n \in Nat
        BY <4>2 DEF Least
      <4>4. [dn[f] EXCEPT !.data = dn[f].data - n] \in DnState
        BY <4>2, <4>3 DEF DnState
      <4>5. dn' = [dn EXCEPT ![f] = [dn[f] EXCEPT !.data = dn[f].data - n]]
        BY <4>1
      <4>6. QED
        BY <4>1, <4>3, <4>4, <4>5 DEF GoTyped
    <3>2. UNCHANGED <<download, timed, dataSize, pc, conn, srv, up,
                     pending, totalSent, delivered, outcome, total>>
      BY <1>9 DEF Recv, Least
    <3>3. QED
      BY <3>1, <3>2 DEF GoTyped
  <2>2. FlowInv(f)'
    BY <1>9 DEF Recv, Least, GoTyped, UpState, DnState, FlowInv, Paired, Upload, Download
  <2>3. \A g \in Flows \ {f} : Same(g)
    BY <1>9 DEF Recv, Least, GoTyped, Same
  <2>4. QED
    BY <2>1, <2>2, <2>3
<1>10. CASE RecvDone(f)
  <2>1. GoTyped'
    <3>1. pc' \in [Flows -> Pcs] /\ delivered' \in [Flows -> Nat] /\ outcome' \in [Flows -> Outcomes]
      <4>1. totalRecv[f] \in Nat
        BY DEF GoTyped
      <4>2. PICK how \in {"eof", "error"} : Finish(f, totalRecv[f], how)
        BY <1>10 DEF RecvDone
      <4>3. pc' = [pc EXCEPT ![f] = "done"] /\ "done" \in Pcs
        BY <4>2 DEF Finish, Pcs
      <4>4. delivered' = [delivered EXCEPT ![f] = totalRecv[f]]
        BY <4>2 DEF Finish
      <4>5. outcome' = [outcome EXCEPT ![f] = how] /\ how \in Outcomes
        BY <4>2 DEF Finish, Outcomes
      <4>6. QED
        BY <4>1, <4>3, <4>4, <4>5 DEF GoTyped
    <3>2. UNCHANGED <<download, timed, dataSize, conn, srv, up, dn,
                     pending, totalSent, totalRecv, total>>
      BY <1>10 DEF RecvDone, Finish
    <3>3. QED
      BY <3>1, <3>2 DEF GoTyped
  <2>2. FlowInv(f)'
    <3>1. download /\ dn[f] \in DnState /\ total[f] \in Nat /\ totalRecv[f] \in Nat
      BY <1>10 DEF RecvDone, GoTyped, FlowInv, Paired
    <3>2. CASE conn[f] = "open" /\ dn[f].data = 0 /\ dn[f].fin /\ Finish(f, totalRecv[f], "eof")
      <4>1. totalRecv[f] = total[f]
        BY <3>1, <3>2 DEF FlowInv, Download, DnState
      <4>2. QED
        BY <1>10, <3>1, <3>2, <4>1
        DEF RecvDone, Finish, GoTyped, FlowInv, Paired, Download
    <3>3. CASE conn[f] # "open" /\ Finish(f, totalRecv[f], "error")
      BY <1>10, <3>1, <3>3 DEF RecvDone, Finish, GoTyped, FlowInv, Paired, Download
    <3>4. QED
      BY <1>10, <3>2, <3>3 DEF RecvDone
  <2>3. \A g \in Flows \ {f} : Same(g)
    BY <1>10 DEF RecvDone, Finish, GoTyped, Same
  <2>4. QED
    BY <2>1, <2>2, <2>3
<1>11. CASE CloseConn(f)
  <2>1. GoTyped'
    <3>1. conn' \in [Flows -> Conns]
      BY <1>11 DEF CloseConn, GoTyped, Conns
    <3>2. UNCHANGED <<download, timed, dataSize, pc, srv, up, dn,
                     pending, totalSent, totalRecv, delivered, outcome, total>>
      BY <1>11 DEF CloseConn
    <3>3. QED
      BY <3>1, <3>2 DEF GoTyped
  <2>2. FlowInv(f)'
    BY <1>11 DEF CloseConn, GoTyped, UpState, DnState, FlowInv, Paired, Upload, Download
  <2>3. \A g \in Flows \ {f} : Same(g)
    BY <1>11 DEF CloseConn, GoTyped, Same
  <2>4. QED
    BY <2>1, <2>2, <2>3
<1>12. QED
  BY <1>1, <1>2, <1>3, <1>4, <1>5, <1>6, <1>7, <1>8, <1>9, <1>10, <1>11 DEF Client

\* The same of the server's handlers.
LEMMA ServerStep ==
  ASSUME GoTyped, NEW f \in Flows, FlowInv(f), Server(f)
  PROVE  GoTyped' /\ FlowInv(f)' /\ \A g \in Flows \ {f} : Same(g)
<1> USE GoAssumption DEF flagVars, clientVars, serverVars, mainVars
<1>1. CASE Accept(f)
  <2>1. GoTyped'
    <3>1. UNCHANGED <<download, timed, dataSize, pc, conn, srv, up,
                     dn, pending, totalSent, totalRecv, delivered, outcome, total>>
      BY <1>1 DEF Accept
    <3>2. QED
      BY <3>1 DEF GoTyped
  <2>2. FlowInv(f)'
    BY <1>1 DEF Accept, GoTyped, UpState, DnState, FlowInv, Paired, Upload, Download
  <2>3. \A g \in Flows \ {f} : Same(g)
    BY <1>1 DEF Accept, GoTyped, Same
  <2>4. QED
    BY <2>1, <2>2, <2>3
<1>2. CASE ConnGone(f)
  <2>1. GoTyped'
    <3>1. UNCHANGED <<download, timed, dataSize, pc, conn, srv, up,
                     dn, pending, totalSent, totalRecv, delivered, outcome, total>>
      BY <1>2 DEF ConnGone
    <3>2. QED
      BY <3>1 DEF GoTyped
  <2>2. FlowInv(f)'
    BY <1>2 DEF ConnGone, GoTyped, UpState, DnState, FlowInv, Paired, Upload, Download
  <2>3. \A g \in Flows \ {f} : Same(g)
    BY <1>2 DEF ConnGone, GoTyped, Same
  <2>4. QED
    BY <2>1, <2>2, <2>3
<1>3. CASE Header(f)
  <2>1. GoTyped'
    <3>1. up' \in [Flows -> UpState] /\ srv' \in [Flows -> Srvs]
      BY <1>3 DEF Header, GoTyped, Srvs, UpState
    <3>2. UNCHANGED <<download, timed, dataSize, pc, conn, dn, pending,
                     totalSent, totalRecv, delivered, outcome, total>>
      BY <1>3 DEF Header
    <3>3. QED
      BY <3>1, <3>2 DEF GoTyped
  <2>2. FlowInv(f)'
    BY <1>3 DEF Header, GoTyped, UpState, DnState, FlowInv, Paired, Upload, Download
  <2>3. \A g \in Flows \ {f} : Same(g)
    BY <1>3 DEF Header, GoTyped, Same
  <2>4. QED
    BY <2>1, <2>2, <2>3
<1>4. CASE Read(f)
  <2>1. GoTyped'
    <3>1. total' \in [Flows -> Nat] /\ up' \in [Flows -> UpState]
      BY <1>4 DEF Read, Least, GoTyped, UpState
    <3>2. UNCHANGED <<download, timed, dataSize, pc, conn, srv, dn,
                     pending, totalSent, totalRecv, delivered, outcome>>
      BY <1>4 DEF Read, Least
    <3>3. QED
      BY <3>1, <3>2 DEF GoTyped
  <2>2. FlowInv(f)'
    <3>1. PICK n \in 1 .. Least(Chunk, up[f].data) :
            /\ total' = [total EXCEPT ![f] = total[f] + n]
            /\ up' = [up EXCEPT ![f] = [up[f] EXCEPT !.data = up[f].data - n]]
      BY <1>4 DEF Read
    <3>2. up[f] \in UpState /\ total[f] \in Nat /\ up[f].data \in Nat
      BY DEF GoTyped, UpState
    <3>3. n \in Nat /\ n > 0 /\ n <= up[f].data
      BY <3>2 DEF Least
    <3>4. /\ total'[f] = total[f] + n /\ up'[f].data = up[f].data - n
          /\ up'[f].hdr = up[f].hdr /\ up'[f].fin = up[f].fin
      BY <3>1, <3>2 DEF GoTyped, UpState
    <3>5. /\ srv[f] = "read" /\ conn[f] = "open"
          /\ UNCHANGED <<download, pc, conn, srv, dn, pending, totalSent, totalRecv, delivered,
                         outcome>>
      BY <1>4 DEF Read
    <3>6. /\ up'[f].data \in Nat /\ total'[f] \in Nat
          /\ up'[f].data + total'[f] = up[f].data + total[f]
      BY <3>2, <3>3, <3>4
    <3>7. ~download /\ ~dn[f].fin /\ Upload(f) /\ Paired(f)
      BY <3>5 DEF FlowInv, Paired
    <3>8. Paired(f)'
      BY <3>4, <3>5, <3>7 DEF Paired
    <3>9. outcome[f] # "reply"
      BY <3>7 DEF Upload
    <3>10. Upload(f)'
      BY <3>4, <3>5, <3>6, <3>7, <3>9 DEF Upload
    <3>11. QED
      BY <3>5, <3>7, <3>8, <3>10 DEF FlowInv
  <2>3. \A g \in Flows \ {f} : Same(g)
    BY <1>4 DEF Read, Least, GoTyped, Same
  <2>4. QED
    BY <2>1, <2>2, <2>3
<1>5. CASE ReadEnd(f)
  <2>1. GoTyped'
    <3>1. srv' \in [Flows -> Srvs]
      BY <1>5 DEF ReadEnd, CountStream, GoTyped, Srvs
    <3>2. UNCHANGED <<download, timed, dataSize, pc, conn, up, dn,
                     pending, totalSent, totalRecv, delivered, outcome, total>>
      BY <1>5 DEF ReadEnd, CountStream
    <3>3. QED
      BY <3>1, <3>2 DEF GoTyped
  <2>2. FlowInv(f)'
    BY <1>5 DEF ReadEnd, CountStream, GoTyped, UpState, DnState, FlowInv, Paired, Upload, Download
  <2>3. \A g \in Flows \ {f} : Same(g)
    BY <1>5 DEF ReadEnd, CountStream, GoTyped, Same
  <2>4. QED
    BY <2>1, <2>2, <2>3
<1>6. CASE ReadError(f)
  <2>1. GoTyped'
    <3>1. srv' \in [Flows -> Srvs]
      BY <1>6 DEF ReadError, GoTyped, Srvs
    <3>2. UNCHANGED <<download, timed, dataSize, pc, conn, up, dn,
                     pending, totalSent, totalRecv, delivered, outcome, total>>
      BY <1>6 DEF ReadError
    <3>3. QED
      BY <3>1, <3>2 DEF GoTyped
  <2>2. FlowInv(f)'
    BY <1>6 DEF ReadError, GoTyped, UpState, DnState, FlowInv, Paired, Upload, Download
  <2>3. \A g \in Flows \ {f} : Same(g)
    BY <1>6 DEF ReadError, GoTyped, Same
  <2>4. QED
    BY <2>1, <2>2, <2>3
<1>7. CASE Echo(f)
  <2>1. GoTyped'
    <3>1. srv' \in [Flows -> Srvs] /\ dn' \in [Flows -> DnState]
      <4>1. <<total[f]>> \in Seq(Nat) /\ dn[f] \in DnState
        BY DEF GoTyped
      <4>2. /\ srv' = [srv EXCEPT ![f] = "end"]
            /\ dn' = [dn EXCEPT ![f] = [dn[f] EXCEPT !.reply = <<total[f]>>, !.fin = TRUE]]
        BY <1>7 DEF Echo
      <4>3. [dn[f] EXCEPT !.reply = <<total[f]>>, !.fin = TRUE] \in DnState
        BY <4>1 DEF DnState
      <4>4. QED
        BY <4>2, <4>3 DEF GoTyped, Srvs
    <3>2. UNCHANGED <<download, timed, dataSize, pc, conn, up, pending,
                     totalSent, totalRecv, delivered, outcome, total>>
      BY <1>7 DEF Echo
    <3>3. QED
      BY <3>1, <3>2 DEF GoTyped
  <2>2. FlowInv(f)'
    BY <1>7 DEF Echo, GoTyped, UpState, DnState, FlowInv, Paired, Upload, Download
  <2>3. \A g \in Flows \ {f} : Same(g)
    BY <1>7 DEF Echo, GoTyped, Same
  <2>4. QED
    BY <2>1, <2>2, <2>3
<1>8. CASE PushByte(f)
  <2>1. GoTyped'
    <3>1. pending' \in [Flows -> Nat] /\ dn' \in [Flows -> DnState]
      <4>1. pending[f] + 1 \in Nat /\ dn[f] \in DnState /\ dn[f].data + 1 \in Nat
        BY DEF GoTyped, DnState
      <4>2. /\ pending' = [pending EXCEPT ![f] = pending[f] + 1]
            /\ dn' = [dn EXCEPT ![f] = [dn[f] EXCEPT !.data = dn[f].data + 1]]
        BY <1>8 DEF PushByte
      <4>3. [dn[f] EXCEPT !.data = dn[f].data + 1] \in DnState
        BY <4>1 DEF DnState
      <4>4. QED
        BY <4>1, <4>2, <4>3 DEF GoTyped
    <3>2. UNCHANGED <<download, timed, dataSize, pc, conn, srv, up,
                     totalSent, totalRecv, delivered, outcome, total>>
      BY <1>8 DEF PushByte
    <3>3. QED
      BY <3>1, <3>2 DEF GoTyped
  <2>2. FlowInv(f)'
    <3>1. /\ pending' = [pending EXCEPT ![f] = pending[f] + 1]
          /\ dn' = [dn EXCEPT ![f] = [dn[f] EXCEPT !.data = dn[f].data + 1]]
      BY <1>8 DEF PushByte
    <3>2. /\ dn[f] \in DnState /\ pending[f] \in Nat /\ dn[f].data \in Nat
          /\ total[f] \in Nat /\ totalRecv[f] \in Nat
      BY DEF GoTyped, DnState
    <3>3. /\ pending'[f] = pending[f] + 1 /\ dn'[f].data = dn[f].data + 1
          /\ dn'[f].fin = dn[f].fin /\ dn'[f].reply = dn[f].reply
      BY <3>1, <3>2 DEF GoTyped, DnState
    <3>4. /\ srv[f] = "push" /\ conn[f] = "open"
          /\ UNCHANGED <<download, pc, conn, srv, up, totalSent, totalRecv, delivered,
                         outcome, total>>
      BY <1>8 DEF PushByte
    <3>5. download /\ ~dn[f].fin /\ Download(f) /\ Paired(f)
      BY <3>4 DEF FlowInv, Paired
    <3>6. Paired(f)'
      BY <3>4, <3>5 DEF Paired
    <3>7. Download(f)'
      <4>1. dn[f].data + totalRecv[f] = total[f] + pending[f] /\ outcome[f] # "eof"
        BY <3>4, <3>5 DEF Download
      <4>2. dn'[f].data + totalRecv'[f] = total'[f] + pending'[f]
        BY <3>2, <3>3, <3>4, <4>1
      <4>3. srv'[f] = "push" /\ outcome'[f] = outcome[f] /\ dn'[f].reply = <<>>
        BY <3>3, <3>4, <3>5 DEF Download
      <4>4. QED
        BY <3>5, <4>1, <4>2, <4>3 DEF Download
    <3>8. QED
      BY <3>3, <3>4, <3>5, <3>6, <3>7 DEF FlowInv
  <2>3. \A g \in Flows \ {f} : Same(g)
    BY <1>8 DEF PushByte, GoTyped, Same
  <2>4. QED
    BY <2>1, <2>2, <2>3
<1>9. CASE Push(f)
  <2>1. GoTyped'
    <3>1. total' \in [Flows -> Nat] /\ pending' \in [Flows -> Nat]
      BY <1>9 DEF Push, GoTyped
    <3>2. UNCHANGED <<download, timed, dataSize, pc, conn, srv, up,
                     dn, totalSent, totalRecv, delivered, outcome>>
      BY <1>9 DEF Push
    <3>3. QED
      BY <3>1, <3>2 DEF GoTyped
  <2>2. FlowInv(f)'
    BY <1>9 DEF Push, GoTyped, UpState, DnState, FlowInv, Paired, Upload, Download
  <2>3. \A g \in Flows \ {f} : Same(g)
    BY <1>9 DEF Push, GoTyped, Same
  <2>4. QED
    BY <2>1, <2>2, <2>3
<1>10. CASE PushEnd(f)
  <2>1. GoTyped'
    <3>1. srv' \in [Flows -> Srvs] /\ pending' \in [Flows -> Nat]
      BY <1>10 DEF PushEnd, CountStream, GoTyped, Srvs
    <3>2. UNCHANGED <<download, timed, dataSize, pc, conn, up, dn,
                     totalSent, totalRecv, delivered, outcome, total>>
      BY <1>10 DEF PushEnd, CountStream
    <3>3. QED
      BY <3>1, <3>2 DEF GoTyped
  <2>2. FlowInv(f)'
    BY <1>10 DEF PushEnd, CountStream, GoTyped, UpState, DnState, FlowInv, Paired, Upload, Download
  <2>3. \A g \in Flows \ {f} : Same(g)
    BY <1>10 DEF PushEnd, CountStream, GoTyped, Same
  <2>4. QED
    BY <2>1, <2>2, <2>3
<1>11. CASE PushClose(f)
  <2>1. GoTyped'
    <3>1. srv' \in [Flows -> Srvs] /\ dn' \in [Flows -> DnState]
      BY <1>11 DEF PushClose, GoTyped, Srvs, DnState
    <3>2. UNCHANGED <<download, timed, dataSize, pc, conn, up, pending,
                     totalSent, totalRecv, delivered, outcome, total>>
      BY <1>11 DEF PushClose
    <3>3. QED
      BY <3>1, <3>2 DEF GoTyped
  <2>2. FlowInv(f)'
    BY <1>11 DEF PushClose, GoTyped, UpState, DnState, FlowInv, Paired, Upload, Download
  <2>3. \A g \in Flows \ {f} : Same(g)
    BY <1>11 DEF PushClose, GoTyped, Same
  <2>4. QED
    BY <2>1, <2>2, <2>3
<1>12. QED
  BY <1>1, <1>2, <1>3, <1>4, <1>5, <1>6, <1>7, <1>8, <1>9, <1>10, <1>11 DEF Server

\* ... and of the network.
LEMMA FailStep ==
  ASSUME GoTyped, NEW f \in Flows, FlowInv(f), ConnFail(f)
  PROVE  GoTyped' /\ FlowInv(f)' /\ \A g \in Flows \ {f} : Same(g)
<1> USE GoAssumption DEF flagVars, clientVars, serverVars, mainVars
<1>1. CASE ConnFail(f)
  <2>1. GoTyped'
    <3>1. conn' \in [Flows -> Conns]
      BY <1>1 DEF ConnFail, GoTyped, Conns
    <3>2. UNCHANGED <<download, timed, dataSize, pc, srv, up, dn,
                     pending, totalSent, totalRecv, delivered, outcome, total>>
      BY <1>1 DEF ConnFail
    <3>3. QED
      BY <3>1, <3>2 DEF GoTyped
  <2>2. FlowInv(f)'
    BY <1>1 DEF ConnFail, GoTyped, UpState, DnState, FlowInv, Paired, Upload, Download
  <2>3. \A g \in Flows \ {f} : Same(g)
    BY <1>1 DEF ConnFail, GoTyped, Same
  <2>4. QED
    BY <2>1, <2>2, <2>3
<1>2. QED
  BY <1>1

-----------------------------------------------------------------------------
(* The channel and the sums *)

\* A step of one flow sends at most its own result, and only when it ends.
LEMMA ChannelStep ==
  ASSUME GoTyped, ChannelInv, NEW f \in Flows, \A g \in Flows \ {f} : Same(g),
         Client(f) \/ Server(f) \/ ConnFail(f)
  PROVE  /\ ChannelInv'
         /\ collected' = collected /\ totalDelivered' = totalDelivered
         /\ pc[f] = "done" => delivered'[f] = delivered[f]
<1> USE DEF flagVars, clientVars, serverVars, mainVars
<1>1. \/ /\ results' = results /\ collected' = collected /\ totalDelivered' = totalDelivered
         /\ pc[f] = "done" => pc'[f] = "done" /\ delivered'[f] = delivered[f]
      \/ /\ results' = Append(results, f) /\ collected' = collected
         /\ totalDelivered' = totalDelivered
         /\ pc[f] # "done" /\ pc'[f] = "done"
  <2>1. CASE Client(f)
    <3>1. CASE GiveUp(f)
      BY <3>1 DEF GiveUp, GoTyped
    <3>2. CASE ReadReply(f) \/ Fallback(f) \/ RecvDone(f)
      BY <3>2 DEF ReadReply, Fallback, RecvDone, Finish, GoTyped
    <3>3. CASE Dial(f) \/ Open(f) \/ WriteByte(f) \/ Write(f) \/ SendDone(f)
      BY <3>3 DEF Dial, Open, WriteByte, Write, SendDone, GoTyped
    <3>4. CASE Recv(f) \/ CloseConn(f)
      BY <3>4 DEF Recv, CloseConn, GoTyped
    <3>5. QED
      BY <2>1, <3>1, <3>2, <3>3, <3>4 DEF Client
  <2>2. CASE Server(f)
    BY <2>2 DEF Server, Accept, ConnGone, Header, Read, ReadEnd, ReadError, Echo, PushByte,
                Push, PushEnd, PushClose
  <2>3. CASE ConnFail(f)
    BY <2>3 DEF ConnFail
  <2>4. QED
    BY <2>1, <2>2, <2>3
<1>2. \A g \in Flows \ {f} : pc'[g] = pc[g]
  BY DEF Same
<1>3. CASE /\ results' = results /\ collected' = collected /\ totalDelivered' = totalDelivered
           /\ pc[f] = "done" => pc'[f] = "done" /\ delivered'[f] = delivered[f]
  <2>1. \A g \in Flows : pc[g] = "done" => pc'[g] = "done"
    BY <1>2, <1>3
  <2>2. \A i \in 1 .. Len(results) : results[i] \in Flows
    BY DEF ChannelInv
  <2>3. ChannelInv'
    BY <1>3, <2>1, <2>2 DEF ChannelInv
  <2>4. QED
    BY <1>3, <2>3
<1>4. CASE /\ results' = Append(results, f) /\ collected' = collected
           /\ totalDelivered' = totalDelivered
           /\ pc[f] # "done" /\ pc'[f] = "done"
  <2>1. /\ results' \in Seq(Flows) /\ Len(results') = Len(results) + 1 /\ Len(results) \in Nat
        /\ results'[Len(results) + 1] = f
        /\ \A i \in 1 .. Len(results) : results'[i] = results[i]
    BY <1>4 DEF ChannelInv
  <2>2. f \notin collected /\ \A i \in 1 .. Len(results) : results[i] # f /\ results[i] \in Flows
    BY <1>4 DEF ChannelInv
  <2>3. \A i \in 1 .. Len(results') : i \in 1 .. Len(results) \/ i = Len(results) + 1
    BY <2>1
  <2>4. \A g \in collected' : pc'[g] = "done"
    BY <1>2, <1>4, <2>2 DEF ChannelInv
  <2>5. \A i \in 1 .. Len(results') : pc'[results'[i]] = "done" /\ results'[i] \notin collected'
    <3> SUFFICES ASSUME NEW i \in 1 .. Len(results')
                 PROVE  pc'[results'[i]] = "done" /\ results'[i] \notin collected'
      OBVIOUS
    <3>1. CASE i \in 1 .. Len(results)
      BY <1>2, <1>4, <2>1, <2>2, <3>1 DEF ChannelInv
    <3>2. CASE i = Len(results) + 1
      BY <1>4, <2>1, <2>2, <3>2
    <3>3. QED
      BY <2>3, <3>1, <3>2
  <2>6. \A i, j \in 1 .. Len(results') : i # j => results'[i] # results'[j]
    <3> SUFFICES ASSUME NEW i \in 1 .. Len(results'), NEW j \in 1 .. Len(results'), i # j
                 PROVE  results'[i] # results'[j]
      OBVIOUS
    <3>1. CASE i \in 1 .. Len(results) /\ j \in 1 .. Len(results)
      BY <2>1, <3>1 DEF ChannelInv
    <3>2. CASE i = Len(results) + 1 \/ j = Len(results) + 1
      BY <2>1, <2>2, <2>3, <3>2
    <3>3. QED
      BY <2>3, <3>1, <3>2
  <2>7. ChannelInv'
    BY <1>4, <2>1, <2>4, <2>5, <2>6 DEF ChannelInv
  <2>8. QED
    BY <1>4, <2>7
<1>5. QED
  BY <1>1, <1>3, <1>4

\* A step of one flow counts it, once, or leaves what is counted alone.
LEMMA CountStep ==
  ASSUME GoTyped, NEW f \in Flows, FlowInv(f), Client(f) \/ Server(f) \/ ConnFail(f)
  PROVE  \/ /\ bytesTotal' = bytesTotal /\ streamsDone' = streamsDone
            /\ IsCounted(f)' <=> IsCounted(f)
            /\ IsCounted(f) => total'[f] = total[f]
         \/ /\ ~IsCounted(f) /\ IsCounted(f)' /\ total'[f] = total[f]
            /\ CountStream(f)
<1> USE DEF flagVars, clientVars, serverVars, mainVars
<1>1. CASE Client(f)
  <2>1. UNCHANGED <<bytesTotal, streamsDone, srv, total>> /\ dn'[f].fin = dn[f].fin
    BY <1>1 DEF Client, Dial, Open, GiveUp, WriteByte, Write, SendDone, ReadReply, Fallback,
                Recv, RecvDone, CloseConn, Finish, GoTyped, DnState
  <2>2. QED
    BY <2>1 DEF IsCounted
<1>2. CASE Accept(f) \/ ConnGone(f) \/ ConnFail(f)
  BY <1>2 DEF Accept, ConnGone, ConnFail, IsCounted
<1>3. CASE Header(f) \/ ReadError(f)
  BY <1>3 DEF Header, ReadError, IsCounted, FlowInv, GoTyped
<1>4. CASE Read(f) \/ Push(f)
  BY <1>4 DEF Read, Push, IsCounted, FlowInv, GoTyped
<1>5. CASE ReadEnd(f)
  BY <1>5 DEF ReadEnd, IsCounted, FlowInv, GoTyped
<1>6. CASE PushEnd(f)
  BY <1>6 DEF PushEnd, IsCounted, FlowInv, GoTyped
<1>7. CASE PushByte(f)
  BY <1>7 DEF PushByte, IsCounted, FlowInv, GoTyped, DnState
<1>8. CASE Echo(f) \/ PushClose(f)
  BY <1>8 DEF Echo, PushClose, IsCounted, GoTyped, DnState
<1>9. QED
  BY <1>1, <1>2, <1>3, <1>4, <1>5, <1>6, <1>7, <1>8 DEF Server

\* The sums survive a step of one flow.
LEMMA SumsStep ==
  ASSUME GoInv, NEW f \in Flows, \A g \in Flows \ {f} : Same(g), GoTyped',
         Client(f) \/ Server(f) \/ ConnFail(f)
  PROVE  SumsInv'
<1>1. /\ collected' = collected /\ totalDelivered' = totalDelivered
      /\ pc[f] = "done" => delivered'[f] = delivered[f]
  BY ChannelStep DEF GoInv
<1>2. IsFiniteSet(collected) /\ IsFiniteSet(Counted) /\ IsFiniteSet(Counted')
  <2>1. collected \subseteq Flows /\ Counted \subseteq Flows /\ Counted' \subseteq Flows
    BY DEF GoInv, ChannelInv, Counted
  <2>2. QED
    BY <2>1, GoAssumption, FS_Subset
<1>3. \A g \in Flows : /\ delivered[g] \in Int /\ delivered'[g] \in Int
                       /\ total[g] \in Int /\ total'[g] \in Int
  BY DEF GoInv, GoTyped
<1>4. totalDelivered' = SumFunctionOnSet(delivered', collected')
  <2>1. \A g \in collected : delivered[g] \in Int /\ delivered[g] = delivered'[g]
    BY <1>1, <1>3 DEF GoInv, ChannelInv, Same
  <2>2. SumFunctionOnSet(delivered, collected) = SumFunctionOnSet(delivered', collected)
    BY <1>2, <2>1, SumSame
  <2>3. QED
    BY <1>1, <2>2 DEF GoInv, SumsInv
<1>5. \A g \in Flows \ {f} : (g \in Counted' <=> g \in Counted) /\ total'[g] = total[g]
  BY DEF Counted, IsCounted, Same
<1>6. bytesTotal' = SumFunctionOnSet(total', Counted') /\ streamsDone' = Cardinality(Counted')
  <2>1. CASE /\ bytesTotal' = bytesTotal /\ streamsDone' = streamsDone
             /\ IsCounted(f)' <=> IsCounted(f)
             /\ IsCounted(f) => total'[f] = total[f]
    <3>1. Counted' = Counted
      <4>1. f \in Counted' <=> f \in Counted
        BY <2>1 DEF Counted
      <4>2. Counted \subseteq Flows /\ Counted' \subseteq Flows
        BY DEF Counted
      <4>3. QED
        BY <1>5, <4>1, <4>2
    <3>2. \A g \in Counted : total[g] \in Int /\ total[g] = total'[g]
      BY <1>3, <1>5, <2>1 DEF Counted
    <3>3. SumFunctionOnSet(total, Counted) = SumFunctionOnSet(total', Counted)
      BY <1>2, <3>2, SumSame
    <3>4. QED
      BY <2>1, <3>1, <3>3 DEF GoInv, SumsInv
  <2>2. CASE /\ ~IsCounted(f) /\ IsCounted(f)' /\ total'[f] = total[f]
             /\ CountStream(f)
    <3>1. f \notin Counted /\ Counted' = Counted \cup {f}
      <4>1. f \notin Counted /\ f \in Counted'
        BY <2>2 DEF Counted
      <4>2. Counted \subseteq Flows /\ Counted' \subseteq Flows
        BY DEF Counted
      <4>3. QED
        BY <1>5, <4>1, <4>2
    <3>2. \A g \in Counted \cup {f} : total'[g] \in Int
      BY <1>3 DEF Counted
    <3>3. \A g \in Counted : total[g] \in Int /\ total[g] = total'[g]
      BY <1>3, <1>5, <3>1 DEF Counted
    <3>4. SumFunctionOnSet(total, Counted) = SumFunctionOnSet(total', Counted)
      BY <1>2, <3>3, SumSame
    <3>5. SumFunctionOnSet(total', Counted \cup {f})
            = SumFunctionOnSet(total', Counted) + total'[f]
      BY <1>2, <3>1, <3>2, SumInsert
    <3>6. Cardinality(Counted \cup {f}) = Cardinality(Counted) + 1
      BY <1>2, <3>1, FS_AddElement
    <3>7. bytesTotal' = bytesTotal + total[f] /\ streamsDone' = streamsDone + 1
      BY <2>2 DEF CountStream
    <3>8. QED
      BY <2>2, <3>1, <3>4, <3>5, <3>6, <3>7 DEF GoInv, SumsInv
  <2>3. QED
    BY <2>1, <2>2, CountStep DEF GoInv
<1>7. QED
  BY <1>4, <1>6 DEF SumsInv

\* main receives the next result.
LEMMA CollectStep ==
  ASSUME GoInv, Collect
  PROVE  GoInv'
<1> DEFINE f == Head(results)
<1>0. /\ results \in Seq(Flows) /\ results # <<>> /\ f \in Flows
      /\ Len(results) \in Nat /\ Len(results) >= 1 /\ f = results[1]
  BY DEF GoInv, ChannelInv, Collect
<1>1. /\ UNCHANGED <<flagVars, clientVars, conn, up, dn, pending, serverVars>>
      /\ results' = Tail(results) /\ collected' = collected \cup {f}
      /\ totalDelivered' = totalDelivered + delivered[f]
  BY DEF Collect
<1>2. UNCHANGED <<download, timed, dataSize, pc, totalSent, totalRecv, delivered, outcome,
                  conn, up, dn, pending, srv, handler, total, bytesTotal, streamsDone>>
  BY <1>1 DEF flagVars, clientVars, serverVars
<1> HIDE DEF f
<1>3. f \notin collected /\ pc[f] = "done"
  BY <1>0 DEF GoInv, ChannelInv
<1>4. GoTyped'
  BY <1>2 DEF GoInv, GoTyped
<1>5. (\A g \in Flows : FlowInv(g))'
  BY <1>2 DEF GoInv, FlowInv, Paired, Upload, Download
<1>6. ChannelInv'
  <2>1. /\ results' \in Seq(Flows) /\ Len(results') = Len(results) - 1
        /\ \A i \in 1 .. Len(results') : i + 1 \in 1 .. Len(results) /\ results'[i] = results[i + 1]
    BY <1>0, <1>1
  <2>2. \A i \in 1 .. Len(results') : results'[i] # f
    BY <1>0, <2>1 DEF GoInv, ChannelInv
  <2>3. collected' \subseteq Flows /\ \A g \in collected' : pc'[g] = "done"
    BY <1>0, <1>1, <1>2, <1>3 DEF GoInv, ChannelInv
  <2>4. \A i \in 1 .. Len(results') : pc'[results'[i]] = "done" /\ results'[i] \notin collected'
    BY <1>1, <1>2, <2>1, <2>2 DEF GoInv, ChannelInv
  <2>5. ASSUME NEW i \in 1 .. Len(results'), NEW j \in 1 .. Len(results'), i # j
        PROVE  results'[i] # results'[j]
    <3>1. /\ i + 1 \in 1 .. Len(results) /\ results'[i] = results[i + 1]
          /\ j + 1 \in 1 .. Len(results) /\ results'[j] = results[j + 1]
      BY <2>1
    <3>2. i + 1 # j + 1
      BY <2>5
    <3>3. results[i + 1] # results[j + 1]
      BY <3>1, <3>2 DEF GoInv, ChannelInv
    <3>4. QED
      BY <3>1, <3>3
  <2>6. QED
    BY <2>1, <2>3, <2>4, <2>5 DEF ChannelInv
<1>7. SumsInv'
  <2>1. IsFiniteSet(collected)
    BY GoAssumption, FS_Subset DEF GoInv, ChannelInv
  <2>2. \A g \in collected \cup {f} : delivered[g] \in Int
    BY <1>0 DEF GoInv, GoTyped, ChannelInv
  <2>3. SumFunctionOnSet(delivered, collected \cup {f})
          = SumFunctionOnSet(delivered, collected) + delivered[f]
    BY <1>3, <2>1, <2>2, SumInsert
  <2>4. Counted' = Counted
    BY <1>2 DEF Counted, IsCounted
  <2>5. QED
    BY <1>1, <1>2, <2>3, <2>4 DEF GoInv, SumsInv
<1>8. QED
  BY <1>4, <1>5, <1>6, <1>7 DEF GoInv

\* The invariant holds at the start and survives every step.
THEOREM GoInvariant == Spec => []GoInv
<1>1. Init => GoInv
  <2> SUFFICES ASSUME Init PROVE GoInv
    OBVIOUS
  <2> USE DEF All
  <2>1. GoTyped
    <3>1. dataSize \in [Flows -> Nat]
      BY GoAssumption DEF Init
    <3>2. up \in [Flows -> UpState] /\ dn \in [Flows -> DnState]
      BY DEF Init, UpState, DnState
    <3>3. QED
      BY <3>1, <3>2 DEF Init, GoTyped, Pcs, Conns, Srvs, Outcomes
  <2>2. \A f \in Flows : FlowInv(f)
    BY GoAssumption DEF Init, FlowInv, Paired, Upload, Download
  <2>3. ChannelInv
    BY DEF Init, ChannelInv
  <2>4. SumsInv
    <3>1. Counted = {}
      BY DEF Init, Counted, IsCounted
    <3>2. Cardinality({}) = 0
      BY FS_EmptySet
    <3>3. QED
      BY <3>1, <3>2, SumEmpty DEF Init, SumsInv
  <2>5. QED
    BY <2>1, <2>2, <2>3, <2>4 DEF GoInv
<1>2. GoInv /\ [Next]_vars => GoInv'
  <2> SUFFICES ASSUME GoInv, [Next]_vars PROVE GoInv'
    OBVIOUS
  <2>1. CASE \E f \in Flows : Client(f) \/ Server(f) \/ ConnFail(f)
    <3>1. PICK f \in Flows : Client(f) \/ Server(f) \/ ConnFail(f)
      BY <2>1
    <3>2. GoTyped' /\ FlowInv(f)' /\ \A g \in Flows \ {f} : Same(g)
      BY <3>1, ClientStep, ServerStep, FailStep DEF GoInv
    <3>3. download' = download
      BY <3>1 DEF Client, Server, ConnFail, Dial, Open, GiveUp, WriteByte, Write, SendDone,
                  ReadReply, Fallback, Recv, RecvDone, CloseConn, Finish, Accept, ConnGone,
                  Header, Read, ReadEnd, ReadError, Echo, PushByte, Push, PushEnd, PushClose,
                  flagVars
    <3>4. \A g \in Flows \ {f} : FlowInv(g)'
      BY <3>2, <3>3, FlowFrame DEF GoInv
    <3>5. (\A g \in Flows : FlowInv(g))'
      BY <3>2, <3>4
    <3>6. ChannelInv'
      BY <3>1, <3>2, ChannelStep DEF GoInv
    <3>7. SumsInv'
      BY <3>1, <3>2, SumsStep
    <3>8. QED
      BY <3>2, <3>5, <3>6, <3>7 DEF GoInv
  <2>2. CASE Collect
    BY <2>2, CollectStep
  <2>3. CASE UNCHANGED vars
    <3>1. UNCHANGED <<download, timed, dataSize, pc, totalSent, totalRecv, delivered, outcome,
                      conn, up, dn, pending, srv, total, bytesTotal, streamsDone,
                      results, collected, totalDelivered>>
      BY <2>3 DEF vars, flagVars, clientVars, serverVars, mainVars
    <3>2. GoTyped' /\ (\A f \in Flows : FlowInv(f))'
      BY <3>1 DEF GoInv, GoTyped, FlowInv, Paired, Upload, Download
    <3>3. ChannelInv' /\ SumsInv'
      BY <3>1 DEF GoInv, ChannelInv, SumsInv, Counted, IsCounted
    <3>4. QED
      BY <3>2, <3>3 DEF GoInv
  <2>4. QED
    BY <2>1, <2>2, <2>3 DEF Next
<1>3. QED
  BY <1>1, <1>2, PTL DEF Spec

\* A figure taken from the server's reply is exactly what the client wrote: by
\* then FIN has come, so everything written has been read and counted.
THEOREM ReplyInvariant == Spec => []ReplyExact
<1>1. GoInv => ReplyExact
  BY DEF GoInv, GoTyped, FlowInv, Paired, Upload, Download, ReplyExact
<1>2. QED
  BY <1>1, GoInvariant, PTL

\* No upload is reported below what the server has received, but for the bytes
\* of one Write that a failing connection interrupts.
THEOREM UnderreportInvariant == Spec => []NeverUnderreported
<1>1. GoInv => NeverUnderreported
  <2> SUFFICES ASSUME GoInv, NEW f \in Flows, ~download, pc[f] = "done"
               PROVE  total[f] <= delivered[f] + (IF conn[f] = "failed" THEN Chunk ELSE 0)
    BY DEF NeverUnderreported
  <2>1. /\ total[f] \in Nat /\ totalSent[f] \in Nat /\ up[f].data \in Nat /\ Chunk \in Nat
        /\ pending[f] = 0 /\ delivered[f] = totalSent[f]
    BY GoAssumption DEF GoInv, GoTyped, UpState, FlowInv, Upload
  <2>2. /\ conn[f] # "failed" => up[f].data + total[f] = totalSent[f] + pending[f]
        /\ up[f].data + total[f] <= totalSent[f] + pending[f] + Chunk
    BY DEF GoInv, FlowInv, Upload
  <2>3. QED
    BY <2>1, <2>2
<1>2. QED
  BY <1>1, GoInvariant, PTL

\* When every flow has ended properly, the client's total is the server's.
THEOREM TotalsInvariant == Spec => []TotalsAgree
<1>1. GoInv => TotalsAgree
  <2> SUFFICES ASSUME GoInv, Finished, \A f \in Flows : outcome[f] \in {"reply", "eof"}
               PROVE  totalDelivered = bytesTotal /\ streamsDone = Cardinality(Flows)
    BY DEF TotalsAgree
  <2>1. ASSUME NEW f \in Flows
        PROVE  delivered[f] = total[f] /\ dn[f].fin /\ delivered[f] \in Int
    <3>1. delivered[f] \in Int /\ download \in BOOLEAN /\ FlowInv(f)
      BY DEF GoInv, GoTyped
    <3>2. CASE download
      BY <3>1, <3>2 DEF FlowInv, Download
    <3>3. CASE ~download
      BY <3>1, <3>3 DEF FlowInv, Upload
    <3>4. QED
      BY <3>1, <3>2, <3>3
  <2>2. Counted = Flows
    BY <2>1 DEF Counted, IsCounted
  <2>3. SumFunctionOnSet(delivered, Flows) = SumFunctionOnSet(total, Flows)
    BY <2>1, GoAssumption, SumSame
  <2>4. QED
    BY <2>2, <2>3 DEF GoInv, SumsInv, Finished
<1>2. QED
  BY <1>1, GoInvariant, PTL

=============================================================================
