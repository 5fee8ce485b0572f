-------------------------- MODULE CidlenSweepProofs --------------------------
(***************************************************************************)
(* Theorems about CidlenSweep, for every list of lengths, every number of  *)
(* targets and any number of executions and kills; and, independent of     *)
(* them, about AioPerf, for every number of flows and every size.          *)
(***************************************************************************)
EXTENDS CidlenSweep, AioPerf, TLAPS

-----------------------------------------------------------------------------
(* The inductive invariant *)

Busy == {"length", "pkill", "start", "probe", "preflight", "sweep", "store"}
Row == [l : Nat, server : {<<>>} \cup {<<m>> : m \in {0} \cup Lens}]
Entry == [n : Lens, l : Nat]

\* Types; an execution that is under way is at a length of the list, and has
\* been through the ones before it.
Typed ==
  /\ step \in Busy \cup {"idle", "done", "killed"}
  /\ ni \in Nat /\ li \in Nat /\ nints \in Nat
  /\ server \in {0} \cup Lens
  /\ results \in [Lens -> Seq(Row)]
  /\ summary \in Seq(Entry)
  /\ step \in Busy => ni \in 1 .. Len(CIDLENS)

Progress ==
  /\ step \in Busy => seen = {CIDLENS[i] : i \in 1 .. ni - 1}
  /\ step = "done" => seen = Lens

\* From the decision to sweep until its last row, the length is not done.
Undone == step \in {"pkill", "start", "probe", "preflight", "sweep"} => ~length_done(N)

\* Before any kill, an endpoint is in the summary or about to be written.
Summarised ==
  nints = 0 => \A n \in Lens :
     results_complete(n) => \/ [n |-> n, l |-> Targets] \in Range(summary)
                            \/ step = "store" /\ n = N

CidlenInv == Typed /\ Progress /\ Undone /\ Summarised

\* With a pkill that works, the server is gone before the new one starts, and
\* the one that is probed and measured has the length of the sweep.
ServerInv ==
  /\ step = "start" => server = 0
  /\ step = "probe" => server \in {0, N}
  /\ step \in {"preflight", "sweep"} => server = N

-----------------------------------------------------------------------------
(* Facts about the operators *)

\* A length of the list.
LEMMA AtLength ==
  ASSUME Typed, step \in Busy
  PROVE  /\ ni \in 1 .. Len(CIDLENS)
         /\ N \in Lens
         /\ results[N] \in Seq(Row)
<1>1. ni \in 1 .. Len(CIDLENS)
  BY DEF Typed
<1>2. N \in Lens
  <2>1. DOMAIN CIDLENS = 1 .. Len(CIDLENS)
    BY CidlenAssumption
  <2>2. QED
    BY <1>1, <2>1 DEF N, Lens, Range
<1>3. QED
  BY <1>1, <1>2 DEF Typed

\* What an appended element adds to a table.
LEMMA AppendRange ==
  ASSUME NEW T, NEW s \in Seq(T), NEW x \in T
  PROVE  Range(Append(s, x)) = Range(s) \cup {x}
<1> DEFINE t == Append(s, x)
<1>1. /\ t \in Seq(T) /\ Len(s) \in Nat /\ Len(t) = Len(s) + 1
      /\ DOMAIN s = 1 .. Len(s) /\ DOMAIN t = 1 .. Len(s) + 1
      /\ t[Len(s) + 1] = x
      /\ \A i \in 1 .. Len(s) : t[i] = s[i]
  OBVIOUS
<1> HIDE DEF t
<1>2. Range(t) \subseteq Range(s) \cup {x}
  <2> SUFFICES ASSUME NEW i \in 1 .. Len(s) + 1 PROVE t[i] \in Range(s) \cup {x}
    BY <1>1 DEF Range
  <2>1. CASE i \in 1 .. Len(s)
    BY <1>1, <2>1 DEF Range
  <2>2. CASE i = Len(s) + 1
    BY <1>1, <2>2
  <2>3. QED
    BY <1>1, <2>1, <2>2
<1>3. Range(s) \subseteq Range(t)
  <2> SUFFICES ASSUME NEW i \in 1 .. Len(s) PROVE s[i] \in Range(t)
    BY <1>1 DEF Range
  <2>1. i \in DOMAIN t /\ t[i] = s[i]
    BY <1>1
  <2>2. QED
    BY <2>1 DEF Range
<1>4. x \in Range(t)
  <2>1. Len(s) + 1 \in DOMAIN t
    BY <1>1
  <2>2. QED
    BY <1>1, <2>1 DEF Range
<1>5. QED
  BY <1>2, <1>3, <1>4 DEF t

\* A row of another target does not complete a table.
LEMMA RowCompletes ==
  ASSUME Typed, OverloadRow
  PROVE  /\ \A n \in Lens : n # N => results'[n] = results[n]
         /\ li # Targets => results_complete(N)' = results_complete(N)
<1>0. N \in Lens /\ results[N] \in Seq(Row) /\ N' = N
  BY AtLength DEF OverloadRow, Busy, N
<1>1. PICK m : results' = [results EXCEPT ![N] = Append(results[N], [l |-> li, server |-> m])]
  BY DEF OverloadRow
<1> DEFINE s == results[N]
           r == [l |-> li, server |-> m]
<1>2. results'[N] = Append(s, r)
  BY <1>0, <1>1 DEF Typed
<1>3. \A n \in Lens : n # N => results'[n] = results[n]
  BY <1>0, <1>1 DEF Typed
<1>4. r.l = li
  OBVIOUS
<1> HIDE DEF r
<1>5. /\ Len(s) \in Nat /\ Len(Append(s, r)) = Len(s) + 1
      /\ Append(s, r)[Len(s) + 1] = r
      /\ \A i \in 1 .. Len(s) : Append(s, r)[i] = s[i]
  BY <1>0
<1>6. ASSUME li # Targets PROVE results_complete(N)' = results_complete(N)
  <2>1. results_complete(N)' <=> \E i \in 1 .. Len(s) + 1 : Append(s, r)[i].l = Targets
    BY <1>0, <1>2, <1>5 DEF results_complete
  <2>2. results_complete(N) <=> \E i \in 1 .. Len(s) : s[i].l = Targets
    BY DEF results_complete
  <2>3. ~(Append(s, r)[Len(s) + 1].l = Targets)
    BY <1>4, <1>5, <1>6
  <2>4. (\E i \in 1 .. Len(s) + 1 : Append(s, r)[i].l = Targets)
          <=> \E i \in 1 .. Len(s) : s[i].l = Targets
    <3>1. \A i : i \in 1 .. Len(s) + 1 <=> i \in 1 .. Len(s) \/ i = Len(s) + 1
      BY <1>5
    <3>2. QED
      BY <3>1, <2>3, <1>5
  <2>5. QED
    BY <2>1, <2>2, <2>4 DEF results_complete
<1>7. QED
  BY <1>3, <1>6

\* Going on to the next length keeps the execution's place in the list.
LEMMA ContinueProgress ==
  ASSUME Typed, Progress, step \in Busy, Continue
  PROVE  /\ Progress'
         /\ ni' \in Nat
         /\ step' \in {"length", "done"}
         /\ step' = "length" => ni' \in 1 .. Len(CIDLENS)
<1>1. ni \in 1 .. Len(CIDLENS) /\ Len(CIDLENS) \in Nat
  BY AtLength, CidlenAssumption
<1>2. seen' = {CIDLENS[i] : i \in 1 .. ni}
  <2>1. seen' = {CIDLENS[i] : i \in 1 .. ni - 1} \cup {CIDLENS[ni]}
    BY DEF Progress, Continue, N
  <2>2. \A i : i \in 1 .. ni <=> i \in 1 .. ni - 1 \/ i = ni
    BY <1>1
  <2>3. QED
    BY <2>1, <2>2
<1>3. CASE ni = Len(CIDLENS)
  <2>1. step' = "done" /\ ni' = ni + 1
    BY <1>3 DEF Continue
  <2>2. DOMAIN CIDLENS = 1 .. Len(CIDLENS)
    BY CidlenAssumption
  <2>3. seen' = Lens
    BY <1>2, <1>3, <2>2 DEF Lens, Range
  <2>4. QED
    BY <1>1, <2>1, <2>3 DEF Progress, Busy
<1>4. CASE ni # Len(CIDLENS)
  <2>1. step' = "length" /\ ni' = ni + 1 /\ ni' \in 1 .. Len(CIDLENS) /\ ni' - 1 = ni
    BY <1>1, <1>4 DEF Continue
  <2>2. QED
    BY <1>1, <1>2, <2>1 DEF Progress, Busy
<1>5. QED
  BY <1>3, <1>4

-----------------------------------------------------------------------------
(* The invariant is inductive *)

\* The initial states: nothing measured, nothing stored.
LEMMA CidlenInit == Init => CidlenInv
<1> SUFFICES ASSUME Init PROVE CidlenInv
  OBVIOUS
<1>1. Typed
  BY DEF Init, Typed, Busy
<1>2. Progress /\ Undone
  BY DEF Init, Progress, Undone, Busy
<1>3. Summarised
  BY DEF Init, Summarised, results_complete
<1>4. QED
  BY <1>1, <1>2, <1>3 DEF CidlenInv

\* The steps that neither measure nor store.
LEMMA ControlStep ==
  ASSUME CidlenInv,
         \/ Start \/ Skip \/ Begin \/ KillServer \/ StartServer \/ Probe
         \/ ProbeFailed \/ OverloadBegin \/ OverloadAbort \/ CtrlC \/ OperatorRun
         \/ Interrupt \/ UNCHANGED vars
  PROVE  CidlenInv'
<1> USE DEF CidlenInv
<1>0. /\ UNCHANGED <<results, summary>>
      /\ \A n \in Lens : results_complete(n)' = results_complete(n)
  <2>1. UNCHANGED <<results, summary>>
    BY DEF Start, Skip, Begin, KillServer, StartServer, Probe, ProbeFailed, OverloadBegin,
           OverloadAbort, CtrlC, OperatorRun, Interrupt, vars
  <2>2. QED
    BY <2>1 DEF results_complete
<1>1. CASE Start
  <2>1. Typed'
    BY <1>0, <1>1, CidlenAssumption DEF Typed, Start, Busy
  <2>2. Progress' /\ Undone'
    BY <1>1 DEF Start, Progress, Undone, Busy
  <2>3. Summarised'
    BY <1>0, <1>1 DEF Start, Summarised
  <2>4. QED
    BY <1>0, <2>1, <2>2, <2>3
<1>2. CASE Skip \/ ProbeFailed
  <2>1. step \in Busy /\ step \notin {"store"} /\ Continue /\ UNCHANGED <<li, nints>>
        /\ UNCHANGED server
    BY <1>2 DEF Skip, ProbeFailed, Busy
  <2>2. /\ Progress' /\ ni' \in Nat /\ step' \in {"length", "done"}
        /\ step' = "length" => ni' \in 1 .. Len(CIDLENS)
    BY <2>1, ContinueProgress
  <2>3. Typed'
    BY <1>0, <2>1, <2>2 DEF Typed, Busy
  <2>4. Undone'
    BY <2>2 DEF Undone
  <2>5. Summarised'
    BY <1>0, <2>1 DEF Summarised
  <2>6. QED
    BY <1>0, <2>2, <2>3, <2>4, <2>5
<1>3. CASE \/ Begin \/ KillServer \/ StartServer \/ Probe
           \/ OverloadBegin \/ OverloadAbort \/ CtrlC
  <2>1. /\ UNCHANGED <<ni, seen, nints, oldDone>>
        /\ step \in Busy \ {"store"} /\ step' \in Busy
    BY <1>3 DEF Begin, KillServer, StartServer, Probe, OverloadBegin, OverloadAbort, CtrlC, Busy
  <2>2. N' = N /\ N \in Lens
    BY <2>1, AtLength DEF N
  <2>3. length_done(N)' = length_done(N)
    BY <1>0, <2>1, <2>2 DEF length_done
  <2>4. server' \in {0} \cup Lens
    BY <1>3, <2>2 DEF Typed, Begin, KillServer, StartServer, Probe, OverloadBegin,
                      OverloadAbort, CtrlC
  <2>5. li' \in Nat
    BY <1>3 DEF Typed, Begin, KillServer, StartServer, Probe, OverloadBegin, OverloadAbort, CtrlC
  <2>6. Typed'
    BY <1>0, <2>1, <2>4, <2>5 DEF Typed
  <2>7. Progress'
    BY <2>1 DEF Progress, Busy
  <2>8. Undone'
    BY <1>3, <2>2, <2>3 DEF Undone, Begin, KillServer, StartServer, Probe, OverloadBegin,
                            OverloadAbort, CtrlC
  <2>9. Summarised'
    BY <1>0, <2>1 DEF Summarised
  <2>10. QED
    BY <1>0, <2>6, <2>7, <2>8, <2>9
<1>4. CASE Interrupt
  <2>1. nints' = nints + 1 /\ nints \in Nat /\ step' = "killed"
    BY <1>4 DEF Interrupt, Typed
  <2>2. Typed'
    BY <1>0, <1>4, <2>1 DEF Interrupt, Typed, Busy
  <2>3. Progress' /\ Undone'
    BY <2>1 DEF Progress, Undone, Busy
  <2>4. Summarised'
    BY <2>1 DEF Summarised
  <2>5. QED
    BY <1>0, <2>2, <2>3, <2>4
<1>5. CASE UNCHANGED vars
  <2>1. Typed'
    BY <1>5 DEF vars, Typed
  <2>2. Progress' /\ Undone'
    BY <1>5 DEF vars, Progress, Undone, length_done, results_complete, N
  <2>3. Summarised'
    BY <1>5 DEF vars, Summarised, results_complete, N
  <2>4. QED
    BY <1>0, <2>1, <2>2, <2>3
<1>6. CASE OperatorRun
  <2>1. /\ step \notin Busy /\ step' = step
        /\ UNCHANGED <<ni, li, server, seen, nints>>
    BY <1>6 DEF OperatorRun, Busy
  <2>2. Typed'
    BY <1>0, <2>1 DEF Typed
  <2>3. Progress' /\ Undone'
    BY <2>1 DEF Progress, Undone, Busy
  <2>4. Summarised'
    BY <1>0, <2>1 DEF Summarised, Busy
  <2>5. QED
    BY <2>2, <2>3, <2>4
<1>7. QED
  BY <1>1, <1>2, <1>3, <1>4, <1>5, <1>6

\* A row of run_overload.sh: only the endpoint's completes the table, and it is
\* the last of the sweep.
LEMMA RowStep ==
  ASSUME CidlenInv, OverloadRow
  PROVE  CidlenInv'
<1> USE DEF CidlenInv
<1>1. /\ step = "sweep" /\ UNCHANGED <<ni, server, oldDone, summary, seen, nints>>
      /\ li' = li + 1 /\ step' = IF li = Targets THEN "store" ELSE "sweep"
  BY DEF OverloadRow
<1>2. N' = N /\ N \in Lens /\ results[N] \in Seq(Row) /\ ni \in 1 .. Len(CIDLENS)
  BY <1>1, AtLength DEF N, Busy
<1>3. Typed'
  <2>1. PICK m \in {<<server>>, <<>>} :
          results' = [results EXCEPT ![N] = Append(results[N], [l |-> li, server |-> m])]
    BY DEF OverloadRow
  <2>2. [l |-> li, server |-> m] \in Row
    BY DEF Typed, Row
  <2>3. Append(results[N], [l |-> li, server |-> m]) \in Seq(Row)
    BY <1>2, <2>2
  <2>4. results' \in [Lens -> Seq(Row)]
    BY <1>2, <2>1, <2>3 DEF Typed
  <2>5. QED
    BY <1>1, <1>2, <2>4 DEF Typed, Busy
<1>4. Progress'
  BY <1>1 DEF Progress, Busy
<1>5. ~results_complete(N) /\ ~(N = OldLen /\ oldDone)
  BY <1>1 DEF Undone, length_done
<1>6. Undone'
  <2>1. CASE li = Targets
    BY <1>1, <2>1 DEF Undone
  <2>2. CASE li # Targets
    <3>1. ~results_complete(N)'
      BY <2>2, <1>5, RowCompletes
    <3>2. QED
      BY <1>1, <1>2, <1>5, <3>1 DEF length_done, Undone
  <2>3. QED
    BY <2>1, <2>2
<1>7. Summarised'
  <2> SUFFICES ASSUME nints = 0, NEW n \in Lens, results_complete(n)'
               PROVE  \/ [n |-> n, l |-> Targets] \in Range(summary)
                      \/ step' = "store" /\ n = N
    BY <1>1, <1>2 DEF Summarised
  <2>1. CASE n = N
    BY <1>1, <1>2, <1>5, <2>1, RowCompletes
  <2>2. CASE n # N
    <3>1. results_complete(n)
      BY <2>2, RowCompletes DEF results_complete
    <3>2. QED
      BY <1>1, <2>2, <3>1 DEF Summarised
  <2>3. QED
    BY <2>1, <2>2
<1>8. QED
  BY <1>3, <1>4, <1>6, <1>7

\* The summary line of a length: the endpoint if there is one, whatever partial
\* sweeps left before.
LEMMA StoreStep ==
  ASSUME CidlenInv, Store
  PROVE  CidlenInv'
<1> USE DEF CidlenInv
<1>1. /\ step = "store" /\ UNCHANGED <<li, server, results, oldDone, nints>>
      /\ Continue
  BY DEF Store
<1>2. /\ Progress' /\ ni' \in Nat /\ step' \in {"length", "done"}
      /\ step' = "length" => ni' \in 1 .. Len(CIDLENS)
  BY <1>1, ContinueProgress DEF Busy
<1>3. N \in Lens /\ results[N] \in Seq(Row)
  BY <1>1, AtLength DEF Busy
<1>4. /\ summary' \in Seq(Entry)
      /\ Range(summary) \subseteq Range(summary')
      /\ results_complete(N) => [n |-> N, l |-> Targets] \in Range(summary')
  <2>0. summary \in Seq(Entry)
    BY DEF Typed
  <2>1. CASE results_complete(N)
    <3> DEFINE line == [n |-> N, l |-> Targets]
    <3>1. line \in Entry
      BY <1>3, CidlenAssumption DEF Entry
    <3>2. summary' = Append(summary, line)
      BY <2>1 DEF Store
    <3> HIDE DEF line
    <3>3. Range(summary') = Range(summary) \cup {line}
      BY <2>0, <3>1, <3>2, AppendRange
    <3>4. summary' \in Seq(Entry)
      BY <2>0, <3>1, <3>2
    <3>5. QED
      BY <3>3, <3>4 DEF line
  <2>2. CASE ~results_complete(N) /\ results[N] = <<>>
    BY <2>0, <2>2 DEF Store
  <2>3. CASE ~results_complete(N) /\ results[N] # <<>>
    <3> DEFINE line == [n |-> N, l |-> Last(results[N]).l]
    <3>1. Last(results[N]) \in Row
      BY <1>3, <2>3 DEF Last
    <3>2. Last(results[N]).l \in Nat
      BY <3>1 DEF Row
    <3>3. line \in Entry
      BY <1>3, <3>2 DEF Entry
    <3>4. summary' = Append(summary, line)
      BY <2>3 DEF Store
    <3> HIDE DEF line
    <3>5. Range(summary') = Range(summary) \cup {line}
      BY <2>0, <3>3, <3>4, AppendRange
    <3>6. summary' \in Seq(Entry)
      BY <2>0, <3>3, <3>4
    <3>7. QED
      BY <2>3, <3>5, <3>6
  <2>4. QED
    BY <2>1, <2>2, <2>3
<1>5. Typed'
  BY <1>1, <1>2, <1>4 DEF Typed, Busy
<1>6. Undone'
  BY <1>2 DEF Undone
<1>7. Summarised'
  <2> SUFFICES ASSUME nints = 0, NEW n \in Lens, results_complete(n)
               PROVE  [n |-> n, l |-> Targets] \in Range(summary')
    BY <1>1 DEF Summarised, results_complete
  <2>1. CASE n = N
    BY <1>4, <2>1
  <2>2. CASE n # N
    BY <1>4, <2>2 DEF Summarised
  <2>3. QED
    BY <2>1, <2>2
<1>8. QED
  BY <1>2, <1>5, <1>6, <1>7

\* The invariant of the script, for every list of lengths.
THEOREM CidlenInvariant == Spec => []CidlenInv
<1>1. CidlenInv /\ [Next]_vars => CidlenInv'
  BY ControlStep, RowStep, StoreStep DEF Next
<1>2. QED
  BY <1>1, CidlenInit, PTL DEF Spec

-----------------------------------------------------------------------------
(* The properties *)

\* The server's length, step by step.
LEMMA ServerStep ==
  ASSUME "pkill" \notin Failures, CidlenInv, ServerInv, OwnLength, [Next]_vars
  PROVE  ServerInv' /\ OwnLength'
<1> USE DEF CidlenInv
<1>1. CASE KillServer \/ StartServer \/ Probe \/ OverloadBegin \/ CtrlC \/ OperatorRun
  <2>1. UNCHANGED <<ni, results>>
    BY <1>1 DEF KillServer, StartServer, Probe, OverloadBegin, CtrlC, OperatorRun
  <2>2. OwnLength'
    BY <2>1 DEF OwnLength
  <2>3. ServerInv'
    BY <1>1, <2>1 DEF KillServer, StartServer, Probe, OverloadBegin, CtrlC, OperatorRun,
                      ServerInv, May, N
  <2>4. QED
    BY <2>2, <2>3
<1>2. CASE Start \/ Skip \/ Begin \/ ProbeFailed \/ OverloadAbort \/ Store \/ Interrupt
  <2>1. UNCHANGED results /\ step' \in {"length", "pkill", "store", "done", "killed"}
    BY <1>2 DEF Start, Skip, Begin, ProbeFailed, OverloadAbort, Store, Interrupt, Continue
  <2>2. OwnLength'
    BY <2>1 DEF OwnLength
  <2>3. ServerInv'
    BY <2>1 DEF ServerInv
  <2>4. QED
    BY <2>2, <2>3
<1>3. CASE OverloadRow
  <2>1. /\ step = "sweep" /\ UNCHANGED <<ni, server>>
        /\ step' = IF li = Targets THEN "store" ELSE "sweep"
    BY <1>3 DEF OverloadRow
  <2>2. N' = N /\ N \in Lens /\ results[N] \in Seq(Row) /\ server = N
    BY <2>1, AtLength DEF N, Busy, ServerInv
  <2>3. ServerInv'
    BY <2>1, <2>2 DEF ServerInv
  <2>4. OwnLength'
    <3>1. PICK m \in {<<server>>, <<>>} :
            results' = [results EXCEPT ![N] = Append(results[N], [l |-> li, server |-> m])]
      BY <1>3 DEF OverloadRow
    <3> DEFINE r == [l |-> li, server |-> m]
    <3>2. results'[N] = Append(results[N], r)
      BY <2>2, <3>1 DEF Typed
    <3>3. r.server \in {<<>>, <<N>>}
      BY <2>2
    <3> HIDE DEF r
    <3>4. /\ Len(results[N]) \in Nat /\ Len(Append(results[N], r)) = Len(results[N]) + 1
          /\ Append(results[N], r)[Len(results[N]) + 1] = r
          /\ \A i \in 1 .. Len(results[N]) : Append(results[N], r)[i] = results[N][i]
      BY <2>2
    <3>5. \A i : i \in 1 .. Len(results[N]) + 1
                   <=> i \in 1 .. Len(results[N]) \/ i = Len(results[N]) + 1
      BY <3>4
    <3>6. \A i \in 1 .. Len(results[N]) : results[N][i].server \in {<<>>, <<N>>}
      BY <2>2 DEF OwnLength
    <3>7. \A i \in 1 .. Len(results'[N]) : results'[N][i].server \in {<<>>, <<N>>}
      BY <3>2, <3>3, <3>4, <3>5, <3>6
    <3>8. \A n \in Lens : n # N => results'[n] = results[n]
      BY <1>3, RowCompletes
    <3>9. QED
      BY <3>7, <3>8 DEF OwnLength
  <2>5. QED
    BY <2>3, <2>4
<1>4. CASE UNCHANGED vars
  BY <1>4 DEF vars, ServerInv, OwnLength, N
<1>5. QED
  BY <1>1, <1>2, <1>3, <1>4 DEF Next

\* As long as the old server can be killed, no row is ever measured against a
\* server of another length, whatever kills and restarts of the script.
THEOREM OwnLengthInvariant ==
  ASSUME "pkill" \notin Failures
  PROVE  Spec => []OwnLength
<1>1. Init => ServerInv /\ OwnLength
  BY DEF Init, ServerInv, OwnLength
<1>2. CidlenInv /\ ServerInv /\ OwnLength /\ [Next]_vars => ServerInv' /\ OwnLength'
  BY ServerStep
<1>3. QED
  BY <1>1, <1>2, CidlenInvariant, PTL DEF Spec

\* Every execution that ends has been through all lengths, and without a kill
\* the summary has every endpoint there is.
THEOREM EndpointInvariant == Spec => []EndpointStored
<1>1. CidlenInv => EndpointStored
  BY DEF CidlenInv, Progress, Summarised, EndpointStored
<1>2. QED
  BY <1>1, CidlenInvariant, PTL

\* A table that has its endpoint is never written again.
THEOREM NoReworkAlways == Spec => NoRework
<1> DEFINE Kept == \A n \in Lens : results_complete(n) \/ (n = OldLen /\ oldDone)
                                     => results'[n] = results[n]
<1>1. CidlenInv /\ [Next]_vars => [Kept]_vars
  <2> SUFFICES ASSUME CidlenInv, Next PROVE Kept
    OBVIOUS
  <2>1. CASE OverloadRow
    <3>1. ~length_done(N)
      BY <2>1 DEF CidlenInv, Undone, OverloadRow
    <3>2. \A n \in Lens : n # N => results'[n] = results[n]
      BY <2>1, RowCompletes DEF CidlenInv
    <3>3. QED
      BY <3>1, <3>2 DEF length_done
  <2>2. CASE UNCHANGED results
    BY <2>2
  <2>3. QED
    BY <2>1, <2>2 DEF Next, Start, Skip, Begin, KillServer, StartServer, Probe,
                      ProbeFailed, OverloadBegin, OverloadAbort, CtrlC, Store,
                      OperatorRun, Interrupt
<1>2. QED
  BY <1>1, CidlenInvariant, PTL DEF Spec, NoRework

-----------------------------------------------------------------------------
(* The Python perf tool *)

OneOrNone == {<<>>} \cup {<<n>> : n \in Nat}

AioTyped ==
  /\ pc \in [Flows -> {"connect", "send", "wait", "done", "error"}]
  /\ total_sent \in [Flows -> Nat] /\ buffered \in [Flows -> Nat]
  /\ streamBytes \in [Flows -> OneOrNone] /\ reply \in [Flows -> OneOrNone]
  /\ server_total \in [Flows -> Nat] /\ delivered \in [Flows -> Nat]
  /\ confirmed \in [Flows -> BOOLEAN]

\* Every queued byte is in the send buffer or with the server, and an answer,
\* on its way or taken, is a count the server has had.
BytesInv(f) ==
  /\ BytesOf(f) + buffered[f] = total_sent[f]
  /\ reply[f] # <<>> => reply[f][1] <= BytesOf(f)
  /\ server_total[f] <= BytesOf(f)
  /\ pc[f] = "done" => /\ delivered[f] <= total_sent[f]
                       /\ confirmed[f] => delivered[f] <= BytesOf(f)

AioInv == AioTyped /\ \A f \in Flows : BytesInv(f)

\* What a count or an answer says is a number.
LEMMA BytesType ==
  ASSUME AioTyped, NEW f \in Flows
  PROVE  /\ BytesOf(f) \in Nat
         /\ reply[f] # <<>> => reply[f][1] \in Nat
         /\ total_sent[f] \in Nat /\ buffered[f] \in Nat /\ server_total[f] \in Nat
<1>1. /\ streamBytes[f] \in OneOrNone /\ reply[f] \in OneOrNone
      /\ total_sent[f] \in Nat /\ buffered[f] \in Nat /\ server_total[f] \in Nat
  BY DEF AioTyped
<1>2. BytesOf(f) \in Nat
  BY <1>1 DEF BytesOf, OneOrNone
<1>3. reply[f] # <<>> => reply[f][1] \in Nat
  BY <1>1 DEF OneOrNone
<1>4. QED
  BY <1>1, <1>2, <1>3

\* The part of the state a flow's figures depend on.
FlowState(f) == <<pc[f], total_sent[f], buffered[f], streamBytes[f], reply[f],
                  server_total[f], delivered[f], confirmed[f]>>

LEMMA BytesFrame ==
  ASSUME NEW f \in Flows, BytesInv(f), UNCHANGED FlowState(f)
  PROVE  BytesInv(f)'
BY DEF BytesInv, FlowState, BytesOf

\* One turn of the send loop.
LEMMA SendKeeps ==
  ASSUME AioInv, NEW f \in Flows, SendPiece(f)
  PROVE  AioInv'
<1> DEFINE n == Piece(f)
<1>1. n \in Nat
  <2>1. total_sent[f] \in Nat /\ n > 0
    BY DEF AioInv, AioTyped, SendPiece
  <2>2. QED
    BY <2>1, AioAssumption DEF Piece
<1>2. /\ total_sent' = [total_sent EXCEPT ![f] = total_sent[f] + n]
      /\ buffered' = [buffered EXCEPT ![f] = buffered[f] + n]
      /\ UNCHANGED <<pc, streamBytes, reply, server_total, delivered, confirmed>>
  BY DEF SendPiece
<1> HIDE DEF n
<1>3. AioTyped'
  BY <1>1, <1>2 DEF AioInv, AioTyped
<1>4. ASSUME NEW g \in Flows, g # f PROVE BytesInv(g)'
  <2>1. UNCHANGED FlowState(g)
    BY <1>2, <1>4 DEF FlowState, AioInv, AioTyped
  <2>2. QED
    BY <2>1, BytesFrame DEF AioInv
<1>5. BytesInv(f)'
  <2>1. pc[f] # "done" /\ pc' = pc
    BY DEF SendPiece, clientVars
  <2>2. BytesOf(f)' = BytesOf(f)
    BY <1>2 DEF BytesOf
  <2>3. total_sent'[f] = total_sent[f] + n /\ buffered'[f] = buffered[f] + n
    BY <1>2 DEF AioInv, AioTyped
  <2>4. BytesOf(f) \in Nat /\ total_sent[f] \in Nat /\ buffered[f] \in Nat
    BY BytesType DEF AioInv
  <2>5. BytesOf(f) + buffered[f] = total_sent[f]
    BY DEF AioInv, BytesInv
  <2>6. BytesOf(f) + buffered'[f] = total_sent'[f]
    BY <1>1, <2>3, <2>4, <2>5
  <2>7. /\ reply[f] # <<>> => reply[f][1] <= BytesOf(f)
        /\ server_total[f] <= BytesOf(f)
    BY DEF AioInv, BytesInv
  <2>8. QED
    BY <1>2, <2>1, <2>2, <2>6, <2>7 DEF BytesInv
<1>6. QED
  BY <1>3, <1>4, <1>5 DEF AioInv

\* The server takes bytes of the data stream.
LEMMA DataKeeps ==
  ASSUME AioInv, NEW f \in Flows, OnData(f)
  PROVE  AioInv'
<1>1. PICK n \in 1 .. buffered[f] :
        /\ buffered' = [buffered EXCEPT ![f] = buffered[f] - n]
        /\ streamBytes' = [streamBytes EXCEPT ![f] = <<BytesOf(f) + n>>]
  BY DEF OnData
<1>2. UNCHANGED <<pc, reply, total_sent, server_total, delivered, confirmed>> /\ pc[f] # "done"
  BY DEF OnData, clientVars, Active
<1>3. BytesOf(f) \in Nat /\ total_sent[f] \in Nat /\ buffered[f] \in Nat /\ server_total[f] \in Nat
      /\ (reply[f] # <<>> => reply[f][1] \in Nat)
  BY BytesType DEF AioInv
<1>4. n \in Nat /\ buffered[f] - n \in Nat /\ BytesOf(f) + n \in Nat
  BY <1>3
<1>5. AioTyped'
  <2>1. <<BytesOf(f) + n>> \in OneOrNone
    BY <1>4 DEF OneOrNone
  <2>2. QED
    BY <1>1, <1>2, <1>4, <2>1 DEF AioInv, AioTyped
<1>6. ASSUME NEW g \in Flows, g # f PROVE BytesInv(g)'
  <2>1. UNCHANGED FlowState(g)
    BY <1>1, <1>2, <1>6 DEF FlowState, AioInv, AioTyped
  <2>2. QED
    BY <2>1, BytesFrame DEF AioInv
<1>7. BytesInv(f)'
  <2>1. streamBytes'[f] = <<BytesOf(f) + n>> /\ buffered'[f] = buffered[f] - n
    BY <1>1 DEF AioInv, AioTyped
  <2>2. BytesOf(f)' = BytesOf(f) + n
    <3>1. BytesOf(f)' = (IF streamBytes'[f] = <<>> THEN 0 ELSE streamBytes'[f][1])
      BY DEF BytesOf
    <3>2. QED
      BY <2>1, <3>1
  <2>3. /\ BytesOf(f) + buffered[f] = total_sent[f]
        /\ reply[f] # <<>> => reply[f][1] <= BytesOf(f)
        /\ server_total[f] <= BytesOf(f)
    BY DEF AioInv, BytesInv
  <2>4. BytesOf(f) + n + (buffered[f] - n) = total_sent[f] /\ server_total[f] <= BytesOf(f) + n
    BY <1>3, <1>4, <2>3
  <2>5. reply[f] # <<>> => reply[f][1] <= BytesOf(f) + n
    BY <1>3, <1>4, <2>3
  <2>6. QED
    BY <1>2, <2>1, <2>2, <2>4, <2>5 DEF BytesInv
<1>8. QED
  BY <1>5, <1>6, <1>7 DEF AioInv

\* A request is answered with the count so far, and the answer is taken.
LEMMA AnswerKeeps ==
  ASSUME AioInv, NEW f \in Flows, OnStats(f) \/ OnReply(f)
  PROVE  AioInv'
<1>1. UNCHANGED <<pc, buffered, streamBytes, total_sent, delivered, confirmed>>
  BY DEF OnStats, OnReply, clientVars
<1>2. \/ reply' = [reply EXCEPT ![f] = <<BytesOf(f)>>] /\ UNCHANGED server_total
      \/ /\ reply[f] # <<>> /\ reply' = [reply EXCEPT ![f] = <<>>]
         /\ server_total' = [server_total EXCEPT ![f] = reply[f][1]]
  BY DEF OnStats, OnReply, clientVars
<1>3. BytesOf(f) \in Nat /\ (reply[f] # <<>> => reply[f][1] \in Nat)
  BY BytesType DEF AioInv
<1>4. AioTyped'
  <2>1. <<BytesOf(f)>> \in OneOrNone /\ <<>> \in OneOrNone
    BY <1>3 DEF OneOrNone
  <2>2. reply' \in [Flows -> OneOrNone] /\ server_total' \in [Flows -> Nat]
    <3>1. reply \in [Flows -> OneOrNone] /\ server_total \in [Flows -> Nat]
      BY DEF AioInv, AioTyped
    <3>2. reply' \in [Flows -> OneOrNone]
      BY <1>2, <2>1, <3>1
    <3>3. server_total' \in [Flows -> Nat]
      BY <1>2, <1>3, <3>1
    <3>4. QED
      BY <3>2, <3>3
  <2>3. QED
    BY <1>1, <2>2 DEF AioInv, AioTyped
<1>5. ASSUME NEW g \in Flows, g # f PROVE BytesInv(g)'
  <2>1. UNCHANGED FlowState(g)
    BY <1>1, <1>2, <1>5 DEF FlowState, AioInv, AioTyped
  <2>2. QED
    BY <2>1, BytesFrame DEF AioInv
<1>6. BytesInv(f)'
  <2>1. BytesOf(f)' = BytesOf(f)
    BY <1>1 DEF BytesOf
  <2>2. /\ BytesOf(f) + buffered[f] = total_sent[f]
        /\ reply[f] # <<>> => reply[f][1] <= BytesOf(f)
        /\ server_total[f] <= BytesOf(f)
        /\ pc[f] = "done" => /\ delivered[f] <= total_sent[f]
                             /\ confirmed[f] => delivered[f] <= BytesOf(f)
    BY DEF AioInv, BytesInv
  <2>3. /\ reply'[f] # <<>> => reply'[f][1] <= BytesOf(f)
        /\ server_total'[f] <= BytesOf(f)
    <3>1. CASE reply' = [reply EXCEPT ![f] = <<BytesOf(f)>>] /\ UNCHANGED server_total
      <4>1. reply'[f] = <<BytesOf(f)>> /\ server_total'[f] = server_total[f]
        BY <3>1 DEF AioInv, AioTyped
      <4>2. reply'[f][1] = BytesOf(f)
        BY <4>1
      <4>3. QED
        BY <1>3, <2>2, <4>1, <4>2
    <3>2. CASE /\ reply[f] # <<>> /\ reply' = [reply EXCEPT ![f] = <<>>]
               /\ server_total' = [server_total EXCEPT ![f] = reply[f][1]]
      <4>1. reply'[f] = <<>> /\ server_total'[f] = reply[f][1]
        BY <3>2 DEF AioInv, AioTyped
      <4>2. QED
        BY <2>2, <3>2, <4>1
    <3>3. QED
      BY <1>2, <3>1, <3>2
  <2>4. QED
    BY <1>1, <2>1, <2>2, <2>3 DEF BytesInv
<1>7. QED
  BY <1>4, <1>5, <1>6 DEF AioInv

\* run_single_flow returns the server's count, or its own for want of one.
LEMMA ReturnKeeps ==
  ASSUME AioInv, NEW f \in Flows, Return(f)
  PROVE  AioInv'
<1>1. /\ pc' = [pc EXCEPT ![f] = "done"]
      /\ confirmed' = [confirmed EXCEPT ![f] = server_total[f] # 0]
      /\ delivered' = [delivered EXCEPT ![f] =
                         IF server_total[f] # 0 THEN server_total[f] ELSE total_sent[f]]
      /\ UNCHANGED <<buffered, streamBytes, reply, total_sent, server_total>>
  BY DEF Return
<1>2. BytesOf(f) \in Nat /\ total_sent[f] \in Nat /\ buffered[f] \in Nat /\ server_total[f] \in Nat
  BY BytesType DEF AioInv
<1>3. AioTyped'
  <2>1. pc' \in [Flows -> {"connect", "send", "wait", "done", "error"}]
    BY <1>1 DEF AioInv, AioTyped
  <2>2. delivered' \in [Flows -> Nat]
    BY <1>1, <1>2 DEF AioInv, AioTyped
  <2>3. confirmed' \in [Flows -> BOOLEAN]
    BY <1>1, Zenon DEF AioInv, AioTyped
  <2>4. QED
    BY <1>1, <2>1, <2>2, <2>3 DEF AioInv, AioTyped
<1>4. ASSUME NEW g \in Flows, g # f PROVE BytesInv(g)'
  <2>1. UNCHANGED FlowState(g)
    BY <1>1, <1>4 DEF FlowState, AioInv, AioTyped
  <2>2. QED
    BY <2>1, BytesFrame DEF AioInv
<1>5. BytesInv(f)'
  <2>1. BytesOf(f)' = BytesOf(f)
    BY <1>1 DEF BytesOf
  <2>2. /\ BytesOf(f) + buffered[f] = total_sent[f]
        /\ reply[f] # <<>> => reply[f][1] <= BytesOf(f)
        /\ server_total[f] <= BytesOf(f)
    BY DEF AioInv, BytesInv
  <2>3. delivered'[f] = (IF server_total[f] # 0 THEN server_total[f] ELSE total_sent[f])
    BY <1>1 DEF AioInv, AioTyped
  <2>4. confirmed'[f] => server_total[f] # 0
    BY <1>1 DEF AioInv, AioTyped
  <2>5. delivered'[f] <= total_sent[f]
    BY <1>2, <2>2, <2>3
  <2>6. confirmed'[f] => delivered'[f] <= BytesOf(f)
    BY <2>2, <2>3, <2>4
  <2>7. QED
    BY <1>1, <2>1, <2>2, <2>5, <2>6 DEF BytesInv
<1>6. QED
  BY <1>3, <1>4, <1>5 DEF AioInv

\* Steps that move no byte and end no flow.
LEMMA QuietKeeps ==
  ASSUME AioInv, UNCHANGED <<total_sent, buffered, streamBytes, reply, server_total,
                             delivered, confirmed>>,
         \/ UNCHANGED pc
         \/ \E f \in Flows, p \in {"send", "wait", "error"} : pc' = [pc EXCEPT ![f] = p]
  PROVE  AioInv'
<1>1. AioTyped'
  <2>1. pc' \in [Flows -> {"connect", "send", "wait", "done", "error"}]
    BY DEF AioInv, AioTyped
  <2>2. QED
    BY <2>1 DEF AioInv, AioTyped
<1>2. ASSUME NEW g \in Flows PROVE BytesInv(g)'
  <2>1. pc'[g] = "done" => pc[g] = "done"
    BY DEF AioInv, AioTyped
  <2>2. BytesOf(g)' = BytesOf(g)
    BY DEF BytesOf
  <2>3. QED
    BY <2>1, <2>2 DEF AioInv, BytesInv
<1>3. QED
  BY <1>1, <1>2 DEF AioInv

\* NeverOverreported, for every number of flows, sizes and chunks, whatever the
\* network loses or delays: quic_perf_client.py's figure is at most what it
\* queued and, when it is the server's, at most what the server has received.
THEOREM OverreportInvariant == AioSpec => []NeverOverreported
<1>1. AioInit => AioInv
  <2> SUFFICES ASSUME AioInit PROVE AioInv
    OBVIOUS
  <2>1. AioTyped
    BY DEF AioInit, All, AioTyped, OneOrNone
  <2>2. \A f \in Flows : /\ streamBytes[f] = <<>> /\ buffered[f] = 0 /\ total_sent[f] = 0
                         /\ reply[f] = <<>> /\ server_total[f] = 0 /\ pc[f] # "done"
    BY DEF AioInit, All
  <2>3. QED
    BY <2>1, <2>2 DEF AioInv, BytesInv, BytesOf
<1>2. AioInv /\ [AioNext]_aioVars => AioInv'
  <2> SUFFICES ASSUME AioInv, [AioNext]_aioVars PROVE AioInv'
    OBVIOUS
  <2>1. ASSUME NEW f \in Flows, Connect(f) \/ ConnectError(f) \/ AskStats(f) PROVE AioInv'
    BY <2>1, QuietKeeps DEF Connect, ConnectError, AskStats
  <2>2. ASSUME NEW f \in Flows, PathFails(f) PROVE AioInv'
    BY <2>2, QuietKeeps DEF PathFails, clientVars
  <2>3. CASE Gather
    BY <2>3, QuietKeeps DEF Gather, clientVars
  <2>4. CASE UNCHANGED aioVars
    BY <2>4, QuietKeeps DEF aioVars, clientVars
  <2>5. QED
    BY <2>1, <2>2, <2>3, <2>4, SendKeeps, DataKeeps, AnswerKeeps, ReturnKeeps
       DEF AioNext, Client
<1>3. AioInv => NeverOverreported
  BY DEF AioInv, BytesInv, NeverOverreported
<1>4. QED
  BY <1>1, <1>2, <1>3, PTL DEF AioSpec
=============================================================================
