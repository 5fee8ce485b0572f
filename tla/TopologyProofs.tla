--------------------------- MODULE TopologyProofs ---------------------------
(***************************************************************************)
(* Theorems about SweepDriver composed with Topology, for every list of    *)
(* connection counts, every wave size and number of namespaces, and any    *)
(* number of executions, kills and busy shells.                            *)
(***************************************************************************)
EXTENDS Topology, OperatorProofs, SequenceTheorems

-----------------------------------------------------------------------------
(* The inductive invariants *)

Dumping == {"stat_before", "dump", "stat_after"}
Mid == {"reset", "capture", "drive", "fetch", "analyze"}

\* The script is within the cycle of LVALUES[li]; its traffic is over.
DumpsCycle == step \in Dumping /\ ret = "fetch"
InCycle == step \in Mid \/ DumpsCycle

Summaries == {<<>>} \cup [1 .. 1 -> [pcap : SUBSET Nat, sw : SUBSET Nat]]
ResultRow == [L : Nat, cycle : Nat, data : Summaries]

SweepTyped ==
  /\ step \in Dumping \cup Mid \cup {"idle", "next", "done", "aborted"}
  /\ ret \in {"next", "fetch"}
  /\ li \in 0 .. Len(LVALUES)
  /\ cycle \in Nat /\ remaining \in Nat /\ before \in Nat /\ clock \in Nat
  /\ reg \in SUBSET Nat /\ local \in SUBSET Nat
  /\ remote \in [data : SUBSET Nat, mtime : Nat]
  /\ pcap \in {<<>>} \cup [1 .. 1 -> SUBSET Nat]
  /\ summary \in [1 .. Len(LVALUES) -> Summaries]
  /\ rows \in Seq(ResultRow)
  /\ InCycle => li > 0
  /\ step \in Dumping /\ ret = "next" => li = 0
  /\ step = "done" => li = Len(LVALUES)
  /\ step \in {"reset", "capture"} => remaining > 0

\* The strengthening of FreshRows: what the register, the capture and the two
\* CSVs hold at each step of a cycle.
FreshInv ==
  /\ remote.mtime < clock
  /\ step = "dump" => before = remote.mtime
  /\ step = "stat_after" /\ remote.mtime > before => remote.data = reg
  /\ step = "capture" => reg = {}
  /\ step = "drive" => /\ pcap = <<reg>>
                       /\ reg = {cycle} \/ (reg = {} /\ remaining > 0)
  /\ DumpsCycle \/ step \in {"fetch", "analyze"} => reg = {cycle} /\ pcap = <<reg>>
  /\ step = "fetch" => remote.data = reg
  /\ step = "analyze" => local = reg
  /\ FreshRows

\* The strengthening of FreshFigure: the table ends with one good row for every
\* L this execution has finished, in order.
Finished == IF InCycle THEN li - 1 ELSE li

FigureInv ==
  step \notin {"idle", "aborted"} =>
     /\ Finished <= Len(rows)
     /\ \A j \in 1 .. Finished :
          /\ rows[Len(rows) - Finished + j].L = LVALUES[j]
          /\ rows[Len(rows) - Finished + j].cycle = cycle - li + j
          /\ rows[Len(rows) - Finished + j].data # <<>>

\* The strengthening of WavesExact: nobody changes the network under a sweep,
\* and what was started and what is left make L.
WavesInv ==
  /\ prog # <<>> => Quiet
  /\ 1 .. NS \subseteq Reaching /\ InCycle =>
       driven \in Nat /\ driven + remaining = LVALUES[li]
  /\ DumpsCycle \/ step = "fetch" => remaining = 0

\* The strengthening of Repeatable: what the first k commands have left behind.
HostState == [ns : BOOLEAN, veth : {"none", "root", "in"}, port : BOOLEAN, addr : BOOLEAN]
NetState == [bridge : BOOLEAN, master : BOOLEAN, nicIp : BOOLEAN, brIp : BOOLEAN,
             host : [Hosts -> HostState]]

HostUp(h, k) == /\ k >= 1 => h.ns
                /\ k >= 2 => h.veth # "none"
                /\ k >= 3 => h.veth = "in"
                /\ k >= 4 => h.port
                /\ k >= 5 => h.addr
SetupDone(k) == /\ k >= 1 => net.bridge
                /\ k >= 2 => ~net.nicIp
                /\ k >= 3 => net.master
                /\ k >= 4 => net.brIp
                /\ \A i \in Hosts : HostUp(net.host[i], k - (5 * i - 1))
CleanDone(k) == /\ \A i \in Hosts : k >= i => ~net.host[i].ns
                /\ k >= CleanRange + 1 => ~net.master
                /\ k >= CleanRange + 2 => ~net.brIp
                /\ k >= CleanRange + 3 => ~net.bridge
                /\ k >= CleanRange + 4 => net.nicIp

\* The commands, for the whole machine (host 0) and for one host.
Ops == {"link add bridge", "addr flush nic", "set nic master", "addr add bridge",
        "netns add", "link add veth", "set veth netns", "set peer master",
        "addr add veth", "netns del", "set nic nomaster", "addr flush bridge",
        "link del bridge", "addr add nic"}
Commands == [op : Ops, host : {0} \cup Hosts]

\* prog is what is left of the program after its first k commands.
LeftOf(program, k) ==
  /\ Len(program) = k + Len(prog)
  /\ \A j \in 1 .. Len(prog) : prog[j] = program[k + j]

TopoInv ==
  /\ net \in NetState
  /\ \A i \in Hosts : net.host[i].veth = "in" => net.host[i].ns
  /\ action \in {"setup", "clean", "killed"} /\ n \in 1 .. CleanRange
  /\ prog \in Seq(Commands)
  /\ action = "setup" => \E k \in Nat : LeftOf(setup(n), k) /\ SetupDone(k)
  /\ action = "clean" => \E k \in Nat : LeftOf(clean(n), k) /\ CleanDone(k)
  /\ action = "killed" => prog = <<>>

-----------------------------------------------------------------------------
(* Steps of the composition *)

\* The script, the operator's shells, or nothing: what a step does to the sweep.
SweepStep == (Script(Reaching) /\ prog = <<>>) \/ Operator \/ UNCHANGED vars

LEMMA TopoIsSweep ==
  ASSUME [TopoNext]_allVars
  PROVE  SweepStep
BY DEF TopoNext, Launch, Command, Kill, allVars, SweepStep

\* The list of connection counts.
LEMMA ListFacts ==
  /\ Len(LVALUES) \in Nat
  /\ \A i \in 1 .. Len(LVALUES) : LVALUES[i] \in Nat \ {0}
BY SweepAssumption

\* The types survive the steps that dump, wait or end.
LEMMA DumpingTyped ==
  ASSUME SweepTyped,
         \/ Start(Reaching) \/ StatBefore \/ Dump \/ StatAfter \/ StopCapture
         \/ Fetch \/ Operator \/ UNCHANGED vars
  PROVE  SweepTyped'
<1> USE ListFacts DEF SweepTyped, InCycle, DumpsCycle, Dumping, Mid
<1>1. CASE Start(Reaching)
  BY <1>1 DEF Start, Goto
<1>2. CASE StatBefore
  BY <1>2 DEF StatBefore, Goto, Try
<1>3. CASE Dump
  <2>1. CASE busy
    BY <1>3, <2>1 DEF Dump, Goto
  <2>2. CASE ~busy
    <3>1. remote' \in [data : SUBSET Nat, mtime : Nat]
      <4>1. [data |-> reg, mtime |-> clock] \in [data : SUBSET Nat, mtime : Nat]
        OBVIOUS
      <4>2. remote' = [data |-> reg, mtime |-> clock] \/ remote' = remote
        BY <1>3, <2>2 DEF Dump, Try
      <4>3. QED
        BY <4>1, <4>2
    <3>2. /\ step = "dump" /\ step' = "stat_after" /\ clock' = clock + 1
          /\ UNCHANGED <<ret, li, cycle, remaining, before, reg, local, pcap, summary, rows>>
      BY <1>3, <2>2 DEF Dump, Goto
    <3>3. QED
      BY <3>1, <3>2
  <2>3. QED
    BY <2>1, <2>2
<1>4. CASE StatAfter
  <2>1. PICK after : Goto(IF after > before THEN ret ELSE "aborted")
    BY <1>4 DEF StatAfter
  <2>2. step' \in {ret, "aborted"} /\ clock' = clock + 1
    BY <2>1 DEF Goto
  <2>3. step = "stat_after" /\ UNCHANGED <<ret, li, cycle, remaining, before, reg, remote,
                                           local, pcap, summary, rows>>
    BY <1>4 DEF StatAfter
  <2>4. QED
    BY <2>2, <2>3
<1>5. CASE StopCapture
  BY <1>5 DEF StopCapture, Goto
<1>6. CASE Fetch
  <2>1. remote.data \in SUBSET Nat
    OBVIOUS
  <2>2. local' \in SUBSET Nat
    BY <1>6, <2>1 DEF Fetch, Try
  <2>3. /\ step = "fetch" /\ step' = "analyze" /\ clock' = clock + 1
        /\ UNCHANGED <<ret, li, cycle, remaining, before, reg, remote, pcap, summary, rows>>
    BY <1>6 DEF Fetch, Goto
  <2>4. QED
    BY <2>2, <2>3
<1>7. CASE Operator
  BY <1>7 DEF Operator
<1>8. CASE UNCHANGED vars
  BY <1>8 DEF vars
<1>9. QED
  BY <1>1, <1>2, <1>3, <1>4, <1>5, <1>6, <1>7, <1>8

\* What a wave leaves: the number of connections left shrinks, never below 0.
LEMMA ConcBounds ==
  ASSUME remaining \in Nat, remaining > 0
  PROVE  Conc \in 1 .. remaining /\ Conc \in Nat /\ remaining - Conc \in Nat
BY SweepAssumption DEF Conc

\* The types survive the steps that reset, capture, drive and analyse.
LEMMA DrivingTyped ==
  ASSUME SweepTyped,
         NextL \/ ResetCounts \/ StartCapture \/ Wave(Reaching) \/ Analyze
  PROVE  SweepTyped'
<1> USE ListFacts DEF SweepTyped, InCycle, DumpsCycle, Dumping, Mid
<1>1. CASE NextL
  <2>1. CASE li = Len(LVALUES)
    BY <1>1, <2>1 DEF NextL, Goto
  <2>2. CASE li # Len(LVALUES)
    <3>1. li + 1 \in 1 .. Len(LVALUES) /\ LVALUES[li + 1] \in Nat \ {0}
      BY <2>2
    <3>2. QED
      BY <1>1, <2>2, <3>1 DEF NextL, Goto
  <2>3. QED
    BY <2>1, <2>2
<1>2. CASE ResetCounts
  <2>1. reg' \in SUBSET Nat
    BY <1>2 DEF ResetCounts, Try
  <2>2. /\ step = "reset" /\ step' \in {"aborted", "capture"} /\ clock' = clock + 1
        /\ UNCHANGED <<ret, li, cycle, remaining, before, local, remote, pcap, summary, rows>>
    BY <1>2 DEF ResetCounts, Goto
  <2>3. QED
    BY <2>1, <2>2
<1>3. CASE StartCapture
  <2>1. <<{}>> \in [1 .. 1 -> SUBSET Nat]
    OBVIOUS
  <2>2. QED
    BY <1>3, <2>1 DEF StartCapture, Goto, Try
<1>4. CASE Wave(Reaching)
  <2>1. remaining - Conc \in Nat
    BY <1>4, ConcBounds DEF Wave
  <2>2. pcap' \in {<<>>} \cup [1 .. 1 -> SUBSET Nat]
    <3>1. CASE pcap = <<>>
      BY <1>4, <3>1 DEF Wave
    <3>2. CASE pcap # <<>>
      <4>1. pcap' = <<pcap[1] \cup {cycle}>> /\ pcap[1] \in SUBSET Nat
        BY <1>4, <3>2 DEF Wave
      <4>2. QED
        BY <4>1
    <3>3. QED
      BY <3>1, <3>2
  <2>3. QED
    BY <1>4, <2>1, <2>2 DEF Wave
<1>5. CASE Analyze
  <2>1. step = "analyze" /\ li \in 1 .. Len(LVALUES)
    BY <1>5 DEF Analyze
  <2>2. summary' \in [1 .. Len(LVALUES) -> Summaries]
    <3> DEFINE archived == IF pcap = <<>> THEN summary[li]
                           ELSE <<[pcap |-> pcap[1], sw |-> local]>>
    <3>1. archived \in Summaries
      <4>1. CASE pcap = <<>>
        BY <2>1, <4>1
      <4>2. CASE pcap # <<>>
        <5>1. pcap[1] \in SUBSET Nat
          BY <4>2
        <5>2. [pcap |-> pcap[1], sw |-> local] \in [pcap : SUBSET Nat, sw : SUBSET Nat]
          BY <5>1
        <5>3. \A x \in [pcap : SUBSET Nat, sw : SUBSET Nat] :
                 <<x>> \in [1 .. 1 -> [pcap : SUBSET Nat, sw : SUBSET Nat]]
          OBVIOUS
        <5>4. QED
          BY <4>2, <5>2, <5>3 DEF Summaries
      <4>3. QED
        BY <4>1, <4>2
    <3>2. summary' = [summary EXCEPT ![li] = archived] \/ summary' = summary
      BY <1>5 DEF Analyze, Try
    <3> HIDE DEF archived
    <3>3. QED
      BY <2>1, <3>1, <3>2
  <2>3. rows' \in Seq(ResultRow)
    <3>1. [L |-> LVALUES[li], cycle |-> cycle, data |-> summary'[li]] \in ResultRow
      BY <2>1, <2>2 DEF ResultRow
    <3>2. QED
      BY <1>5, <3>1 DEF Analyze
  <2>4. QED
    BY <1>5, <2>1, <2>2, <2>3 DEF Analyze, Goto
<1>6. QED
  BY <1>1, <1>2, <1>3, <1>4, <1>5

\* The steps of the sweep keep to their types and to their list.
THEOREM SweepTypeCorrect == TopoSpec => []SweepTyped
<1>1. TopoInit => SweepTyped
  BY ListFacts DEF TopoInit, Init, SweepTyped, InCycle, DumpsCycle, Dumping, Mid, Summaries
<1>2. SweepTyped /\ [TopoNext]_allVars => SweepTyped'
  BY TopoIsSweep, DumpingTyped, DrivingTyped DEF SweepStep, Script
<1>3. QED
  BY <1>1, <1>2, PTL DEF TopoSpec

-----------------------------------------------------------------------------
(* Fresh rows *)

\* Only a dump that was not written is let through to the guard, and the guard
\* stops it.
LEMMA FreshDumping ==
  ASSUME Failures \subseteq {"dump"}, SweepTyped, FreshInv,
         \/ Start(Reaching) \/ StatBefore \/ Dump \/ StatAfter \/ StopCapture
         \/ Fetch \/ Operator \/ UNCHANGED vars
  PROVE  FreshInv'
<1> USE DEF FreshInv, DumpsCycle, Dumping
<1>0. FreshRows'
  BY DEF FreshRows, Start, StatBefore, Dump, StatAfter, StopCapture, Fetch, Operator, vars
<1>1. CASE Start(Reaching)
  BY <1>0, <1>1 DEF Start, Goto, SweepTyped
<1>2. CASE StatBefore
  BY <1>0, <1>2 DEF StatBefore, Goto, Try, SweepTyped
<1>3. CASE Dump
  <2>1. CASE busy
    BY <1>0, <1>3, <2>1 DEF Dump, Goto, SweepTyped
  <2>2. CASE ~busy
    <3>1. \/ remote' = [data |-> reg, mtime |-> clock]
          \/ remote' = remote
      BY <1>3, <2>2 DEF Dump, Try
    <3>2. /\ step = "dump" /\ step' = "stat_after" /\ clock' = clock + 1
          /\ UNCHANGED <<ret, cycle, before, reg, pcap>>
      BY <1>3, <2>2 DEF Dump, Goto
    <3>3. remote'.mtime < clock' /\ (remote'.mtime > before' => remote'.data = reg')
      BY <3>1, <3>2 DEF SweepTyped
    <3>4. QED
      BY <1>0, <3>2, <3>3
  <2>3. QED
    BY <2>1, <2>2
<1>4. CASE StatAfter
  <2>1. /\ step = "stat_after" /\ clock' = clock + 1
        /\ UNCHANGED <<ret, cycle, before, reg, remote, local, pcap, remaining>>
        /\ step' = IF remote.mtime > before THEN ret ELSE "aborted"
    BY <1>4 DEF StatAfter, Goto
  <2>2. QED
    BY <1>0, <2>1 DEF SweepTyped
<1>5. CASE StopCapture
  BY <1>0, <1>5 DEF StopCapture, Goto, SweepTyped
<1>6. CASE Fetch
  BY <1>0, <1>6 DEF Fetch, Goto, Try, SweepTyped
<1>7. CASE Operator
  BY <1>0, <1>7 DEF Operator
<1>8. CASE UNCHANGED vars
  BY <1>0, <1>8 DEF vars
<1>9. QED
  BY <1>1, <1>2, <1>3, <1>4, <1>5, <1>6, <1>7, <1>8

\* What Analyze archives, when neither it nor the capture fails.
LEMMA Archived ==
  ASSUME Failures \subseteq {"dump"}, SweepTyped, FreshInv, Analyze
  PROVE  /\ li \in 1 .. Len(LVALUES)
         /\ rows' = Append(rows, [L |-> LVALUES[li], cycle |-> cycle,
                                  data |-> <<[pcap |-> {cycle}, sw |-> {cycle}]>>])
<1>1. step = "analyze" /\ li \in 1 .. Len(LVALUES)
  BY ListFacts DEF Analyze, SweepTyped, InCycle, Mid
<1>2. pcap = <<{cycle}>> /\ local = {cycle}
  BY <1>1 DEF FreshInv
<1>3. pcap # <<>> /\ pcap[1] = {cycle}
  BY <1>2
<1>4. summary' = [summary EXCEPT ![li] = <<[pcap |-> {cycle}, sw |-> {cycle}]>>]
  BY <1>2, <1>3 DEF Analyze, Try
<1>5. summary'[li] = <<[pcap |-> {cycle}, sw |-> {cycle}]>>
  BY <1>1, <1>4 DEF SweepTyped
<1>6. QED
  BY <1>1, <1>5 DEF Analyze

LEMMA FreshDriving ==
  ASSUME Failures \subseteq {"dump"}, SweepTyped, FreshInv,
         NextL \/ ResetCounts \/ StartCapture \/ Wave(Reaching) \/ Analyze
  PROVE  FreshInv'
<1> USE DEF FreshInv, DumpsCycle, Dumping
<1>1. CASE NextL
  <2>0. FreshRows'
    BY <1>1 DEF NextL, FreshRows
  <2>1. step' \in {"done", "reset"} /\ clock' = clock + 1 /\ UNCHANGED remote
    BY <1>1 DEF NextL, Goto
  <2>2. QED
    BY <2>0, <2>1 DEF SweepTyped
<1>2. CASE ResetCounts
  <2>0. FreshRows'
    BY <1>2 DEF ResetCounts, FreshRows
  <2>1. /\ clock' = clock + 1 /\ UNCHANGED remote
        /\ step' = "aborted" \/ (step' = "capture" /\ reg' = {})
    BY <1>2 DEF ResetCounts, Goto, Try
  <2>2. QED
    BY <2>0, <2>1 DEF SweepTyped
<1>3. CASE StartCapture
  <2>0. FreshRows'
    BY <1>3 DEF StartCapture, FreshRows
  <2>1. /\ clock' = clock + 1 /\ UNCHANGED <<remote, reg, remaining>>
        /\ step = "capture" /\ step' = "drive" /\ pcap' = <<{}>>
    BY <1>3 DEF StartCapture, Goto, Try
  <2>2. QED
    BY <2>0, <2>1 DEF SweepTyped
<1>4. CASE Wave(Reaching)
  <2>0. FreshRows'
    BY <1>4 DEF Wave, FreshRows
  <2>1. step = "drive" /\ step' = "drive" /\ UNCHANGED <<remote, cycle>> /\ clock' = clock + 1
    BY <1>4 DEF Wave
  <2>2. reg' = {cycle}
    BY <1>4, <2>1 DEF Wave
  <2>3. pcap' = <<{cycle}>>
    <3>1. pcap # <<>> /\ pcap[1] = reg
      BY <2>1
    <3>2. pcap' = <<reg \cup {cycle}>>
      BY <1>4, <3>1 DEF Wave
    <3>3. QED
      BY <3>2, <2>1
  <2>4. QED
    BY <2>0, <2>1, <2>2, <2>3 DEF SweepTyped
<1>5. CASE Analyze
  <2> DEFINE r == [L |-> LVALUES[li], cycle |-> cycle,
                   data |-> <<[pcap |-> {cycle}, sw |-> {cycle}]>>]
  <2>1. rows' = Append(rows, r)
    BY <1>5, Archived
  <2>2. r.cycle = cycle /\ r.data[1].pcap = {cycle} /\ r.data[1].sw = {cycle}
    OBVIOUS
  <2> HIDE DEF r
  <2>3. /\ Len(rows) \in Nat /\ Len(rows') = Len(rows) + 1
        /\ rows'[Len(rows) + 1] = r
        /\ \A i \in 1 .. Len(rows) : rows'[i] = rows[i]
    BY <2>1 DEF SweepTyped
  <2>4. FreshRows'
    <3> SUFFICES ASSUME NEW i \in 1 .. Len(rows'), rows'[i].data # <<>>
                 PROVE  /\ rows'[i].data[1].pcap = {rows'[i].cycle}
                        /\ rows'[i].data[1].sw = {rows'[i].cycle}
      BY DEF FreshRows
    <3>1. CASE i = Len(rows) + 1
      BY <3>1, <2>2, <2>3
    <3>2. CASE i \in 1 .. Len(rows)
      BY <3>2, <2>3 DEF FreshRows
    <3>3. QED
      BY <3>1, <3>2, <2>3
  <2>5. step' = "next" /\ clock' = clock + 1 /\ UNCHANGED remote
    BY <1>5 DEF Analyze, Goto
  <2>6. QED
    BY <2>4, <2>5 DEF SweepTyped
<1>6. QED
  BY <1>1, <1>2, <1>3, <1>4, <1>5

\* What register, capture and CSVs hold at each step, for a sweep whose dumps
\* may fail.
THEOREM FreshInvariant ==
  ASSUME Failures \subseteq {"dump"}
  PROVE  TopoSpec => []FreshInv
<1>1. TopoInit => FreshInv
  BY DEF TopoInit, Init, FreshInv, DumpsCycle, Dumping, FreshRows
<1>2. SweepTyped /\ FreshInv /\ [TopoNext]_allVars => FreshInv'
  BY TopoIsSweep, FreshDumping, FreshDriving DEF SweepStep, Script
<1>3. QED
  BY <1>1, <1>2, SweepTypeCorrect, PTL DEF TopoSpec

\* A row with metrics compares its own cycle's capture with its own cycle's
\* counts, whichever dumps failed or were refused by a busy shell.
THEOREM FreshRowsInvariant ==
  ASSUME Failures \subseteq {"dump"}
  PROVE  TopoSpec => []FreshRows
<1>1. FreshInv => FreshRows
  BY DEF FreshInv
<1>2. QED
  BY <1>1, FreshInvariant, PTL

-----------------------------------------------------------------------------
(* The figure *)

\* The table's tail carries over when nothing is finished or begun.
LEMMA FigureCarries ==
  ASSUME FigureInv, SweepTyped, UNCHANGED rows, Finished' = Finished,
         cycle' - li' = cycle - li, step \notin {"idle", "aborted"}, cycle' \in Nat, li' \in Nat
  PROVE  FigureInv'
<1>1. \A j \in Nat : cycle' - li' + j = cycle - li + j
  OBVIOUS
<1>2. Finished \in Int
  BY ListFacts DEF Finished, SweepTyped
<1>3. \A j \in 1 .. Finished : j \in Nat
  BY <1>2
<1>4. QED
  BY <1>1, <1>3 DEF FigureInv

\* The tail of the table, step by step.
LEMMA FigureStep ==
  ASSUME Failures \subseteq {"dump"}, SweepTyped, SweepTyped', FreshInv, FigureInv, SweepStep
  PROVE  FigureInv'
<1>1. CASE Start(Reaching)
  <2>1. Finished' = 0
    BY <1>1 DEF Start, Goto, Finished, InCycle, DumpsCycle, Dumping, Mid
  <2>2. Len(rows') \in Nat
    BY DEF SweepTyped
  <2>3. QED
    BY <2>1, <2>2 DEF FigureInv
<1>2. CASE StatBefore \/ Dump \/ StatAfter \/ ResetCounts \/ StartCapture
           \/ Wave(Reaching) \/ StopCapture \/ Fetch
  <2>1. UNCHANGED <<rows, cycle, li>> /\ step \notin {"idle", "aborted"}
    BY <1>2 DEF StatBefore, Dump, StatAfter, ResetCounts, StartCapture, Wave,
                StopCapture, Fetch
  <2>2. CASE step' = "aborted"
    BY <2>2 DEF FigureInv
  <2>3. CASE step' # "aborted"
    <3>1. InCycle' = InCycle
      BY <1>2, <2>3 DEF StatBefore, Dump, StatAfter, ResetCounts, StartCapture, Wave,
           StopCapture, Fetch, Goto, InCycle, DumpsCycle, Dumping, Mid, SweepTyped
    <3>2. Finished' = Finished
      BY <2>1, <3>1 DEF Finished
    <3>3. cycle' \in Nat /\ li' \in Nat
      BY ListFacts DEF SweepTyped
    <3>4. QED
      BY <2>1, <3>2, <3>3, FigureCarries
  <2>4. QED
    BY <2>2, <2>3
<1>3. CASE NextL
  <2>0. step = "next" /\ UNCHANGED rows
    BY <1>3 DEF NextL
  <2>1. ~InCycle /\ Finished = li /\ li \in Nat /\ cycle \in Nat /\ li' \in Nat /\ cycle' \in Nat
    BY <2>0, ListFacts DEF Finished, InCycle, DumpsCycle, Dumping, Mid, SweepTyped
  <2>2. CASE li = Len(LVALUES)
    <3>1. UNCHANGED <<li, cycle>> /\ step' = "done"
      BY <1>3, <2>2 DEF NextL, Goto
    <3>2. Finished' = li
      BY <3>1 DEF Finished, InCycle, DumpsCycle, Dumping, Mid
    <3>3. QED
      BY <2>0, <2>1, <3>1, <3>2, FigureCarries
  <2>3. CASE li # Len(LVALUES)
    <3>1. li' = li + 1 /\ cycle' = cycle + 1 /\ step' = "reset"
      BY <1>3, <2>3 DEF NextL, Goto
    <3>2. Finished' = li
      BY <2>1, <3>1 DEF Finished, InCycle, DumpsCycle, Dumping, Mid
    <3>3. cycle' - li' = cycle - li
      BY <2>1, <3>1
    <3>4. QED
      BY <2>0, <2>1, <3>2, <3>3, FigureCarries
  <2>4. QED
    BY <2>2, <2>3
<1>4. CASE Analyze
  <2> DEFINE r == [L |-> LVALUES[li], cycle |-> cycle,
                   data |-> <<[pcap |-> {cycle}, sw |-> {cycle}]>>]
  <2>1. rows' = Append(rows, r) /\ li \in 1 .. Len(LVALUES)
    BY <1>4, Archived
  <2>2. r.L = LVALUES[li] /\ r.cycle = cycle /\ r.data # <<>>
    OBVIOUS
  <2> HIDE DEF r
  <2>3. /\ Len(rows) \in Nat /\ Len(rows') = Len(rows) + 1
        /\ rows'[Len(rows) + 1] = r
        /\ \A i \in 1 .. Len(rows) : rows'[i] = rows[i]
    BY <2>1 DEF SweepTyped
  <2>4. step = "analyze" /\ step' = "next" /\ UNCHANGED <<li, cycle>>
    BY <1>4 DEF Analyze, Goto
  <2>5. li \in Nat /\ li > 0 /\ cycle \in Nat
    BY <2>1, ListFacts DEF SweepTyped
  <2>6. Finished = li - 1 /\ Finished' = li
    BY <2>4 DEF Finished, InCycle, DumpsCycle, Dumping, Mid
  <2>7. /\ li - 1 <= Len(rows)
        /\ \A j \in 1 .. li - 1 :
             /\ rows[Len(rows) - (li - 1) + j].L = LVALUES[j]
             /\ rows[Len(rows) - (li - 1) + j].cycle = cycle - li + j
             /\ rows[Len(rows) - (li - 1) + j].data # <<>>
    BY <2>4, <2>6 DEF FigureInv
  <2>8. ASSUME NEW j \in 1 .. li
        PROVE  /\ rows'[Len(rows') - li + j].L = LVALUES[j]
               /\ rows'[Len(rows') - li + j].cycle = cycle - li + j
               /\ rows'[Len(rows') - li + j].data # <<>>
    <3>1. CASE j = li
      <4>1. Len(rows') - li + j = Len(rows) + 1 /\ cycle - li + j = cycle
        BY <3>1, <2>3, <2>5
      <4>2. QED
        BY <3>1, <4>1, <2>2, <2>3
    <3>2. CASE j # li
      <4>1. /\ j \in 1 .. li - 1
            /\ Len(rows') - li + j = Len(rows) - (li - 1) + j
            /\ Len(rows) - (li - 1) + j \in 1 .. Len(rows)
        BY <3>2, <2>3, <2>5, <2>7
      <4>2. QED
        BY <4>1, <2>3, <2>7
    <3>3. QED
      BY <3>1, <3>2
  <2>9. li <= Len(rows')
    BY <2>3, <2>5, <2>7
  <2>10. QED
    BY <2>4, <2>6, <2>8, <2>9 DEF FigureInv
<1>5. CASE Operator \/ UNCHANGED vars
  <2>1. UNCHANGED <<step, ret, li, cycle, rows>>
    BY <1>5 DEF Operator, vars
  <2>2. QED
    BY <2>1 DEF FigureInv, Finished, InCycle, DumpsCycle
<1>6. QED
  BY <1>1, <1>2, <1>3, <1>4, <1>5 DEF SweepStep, Script

\* load returns the last good row of an L.
LEMMA LoadLast ==
  ASSUME NEW p \in Good, SweepTyped,
         \A j \in Good : rows[j].L = rows[p].L => j <= p
  PROVE  rows[p].L \in DOMAIN load /\ load[rows[p].L] = rows[p]
<1> DEFINE l == rows[p].L
           Is(i) == rows[i].L = l /\ \A j \in Good : rows[j].L = l => j <= i
<1>1. l \in {rows[i].L : i \in Good}
  OBVIOUS
<1>2. \E i \in Good : Is(i)
  OBVIOUS
<1>3. Good \subseteq Int
  BY DEF Good, SweepTyped
<1>4. \A i \in Good : Is(i) => i = p
  BY <1>3
<1>5. (CHOOSE i \in Good : Is(i)) = p
  BY <1>2, <1>4
<1>6. QED
  BY <1>1, <1>5 DEF load

\* When a sweep has ended, the figure shows its rows and no older ones, however
\* many aborted or complete sweeps wrote to the table before.
THEOREM FreshFigureInvariant ==
  ASSUME Failures \subseteq {"dump"}
  PROVE  TopoSpec => []FreshFigure
<1>1. TopoInit => FigureInv
  BY DEF TopoInit, Init, FigureInv
<1>2. /\ SweepTyped /\ SweepTyped' /\ FreshInv /\ FigureInv /\ [TopoNext]_allVars
      => FigureInv'
  BY TopoIsSweep, FigureStep
<1>3. SweepTyped /\ FigureInv => FreshFigure
  <2> SUFFICES ASSUME SweepTyped, FigureInv, step = "done", NEW i \in 1 .. Len(LVALUES),
                      \A j \in i + 1 .. Len(LVALUES) : LVALUES[j] # LVALUES[i]
               PROVE  /\ LVALUES[i] \in DOMAIN load
                      /\ load[LVALUES[i]].cycle = cycle - Len(LVALUES) + i
    BY DEF FreshFigure
  <2> DEFINE K == Len(LVALUES)
             p == Len(rows) - K + i
  <2>1. K \in Nat /\ Len(rows) \in Nat /\ li = K
    BY ListFacts DEF SweepTyped
  <2>2. Finished = K
    BY <2>1 DEF Finished, InCycle, DumpsCycle, Dumping, Mid
  <2>3. /\ K <= Len(rows)
        /\ \A j \in 1 .. K : /\ rows[Len(rows) - K + j].L = LVALUES[j]
                             /\ rows[Len(rows) - K + j].cycle = cycle - K + j
                             /\ rows[Len(rows) - K + j].data # <<>>
    BY <2>1, <2>2 DEF FigureInv
  <2>4. p \in Good /\ rows[p].L = LVALUES[i] /\ rows[p].cycle = cycle - K + i
    <3>1. p \in 1 .. Len(rows)
      BY <2>1, <2>3
    <3>2. QED
      BY <2>3, <3>1 DEF Good
  <2>5. ASSUME NEW j \in Good, rows[j].L = rows[p].L PROVE j <= p
    <3> SUFFICES ASSUME j > p PROVE FALSE
      BY <2>1 DEF Good
    <3> DEFINE m == j - Len(rows) + K
    <3>1. m \in i + 1 .. K /\ Len(rows) - K + m = j
      BY <2>1 DEF Good
    <3>2. m \in 1 .. K
      BY <2>1, <3>1
    <3>3. rows[j].L = LVALUES[m]
      BY <2>3, <3>1, <3>2
    <3>4. QED
      BY <2>4, <2>5, <3>1, <3>3
  <2>6. rows[p].L \in DOMAIN load /\ load[rows[p].L] = rows[p]
    <3> HIDE DEF p
    <3>1. QED
      BY <2>4, <2>5, LoadLast
  <2>7. QED
    BY <2>4, <2>6
<1>4. QED
  BY <1>1, <1>2, <1>3, SweepTypeCorrect, FreshInvariant, PTL DEF TopoSpec

-----------------------------------------------------------------------------
(* The waves *)

\* The shares of a wave add up to it.
LEMMA SplitExact ==
  ASSUME NEW conc \in Nat \ {0}
  PROVE  LET nns == IF conc < NS THEN conc ELSE NS
         IN /\ DOMAIN Split(conc) = 1 .. nns
            /\ nns <= NS
            /\ SumFunctionOnSet(Split(conc), 1 .. nns) = conc
<1> DEFINE nns == IF conc < NS THEN conc ELSE NS
           q == conc \div nns
           r == conc % nns
<1>1. nns \in Nat \ {0} /\ nns <= NS
  BY SweepAssumption
<1>2. Split(conc) = [i \in 1 .. nns |-> q + (IF i <= r THEN 1 ELSE 0)]
  BY DEF Split
<1> HIDE DEF nns
<1>3. q \in Nat /\ r \in 0 .. nns - 1 /\ conc = q * nns + r
  BY <1>1
<1> HIDE DEF q, r
<1>4. \A x \in 1 .. nns : Split(conc)[x] = q + (IF x \in 1 .. r THEN 1 ELSE 0)
  BY <1>2, <1>3
<1>5. IsFiniteSet(1 .. nns) /\ Cardinality(1 .. nns) = nns
  BY <1>1, FS_Interval
<1>6. Cardinality((1 .. nns) \cap (1 .. r)) = r
  <2>1. (1 .. nns) \cap (1 .. r) = 1 .. r
    BY <1>1, <1>3
  <2>2. Cardinality(1 .. r) = r
    BY <1>3, FS_Interval
  <2>3. QED
    BY <2>1, <2>2
<1>7. SumFunctionOnSet(Split(conc), 1 .. nns) = q * nns + r
  <2>1. SumFunctionOnSet(Split(conc), 1 .. nns)
          = q * Cardinality(1 .. nns) + Cardinality((1 .. nns) \cap (1 .. r))
    <3> DEFINE S == 1 .. nns
               R == 1 .. r
               f == Split(conc)
    <3>1. IsFiniteSet(S) /\ q \in Nat /\ Spread(f, S, R, q)
      BY <1>3, <1>4, <1>5 DEF Spread
    <3> HIDE DEF S, R, f
    <3>2. SumFunctionOnSet(f, S) = q * Cardinality(S) + Cardinality(S \cap R)
      BY <3>1, SumSpread
    <3>3. QED
      BY <3>2 DEF S, R, f
  <2>2. QED
    BY <1>5, <1>6, <2>1
<1>8. QED
  BY <1>1, <1>2, <1>3, <1>7 DEF nns

\* A wave over namespaces that all reach the switch starts all its connections.
LEMMA WaveExact ==
  ASSUME SweepTyped, Wave(Reaching), 1 .. NS \subseteq Reaching
  PROVE  driven' = driven + Conc
<1> DEFINE nns == IF Conc < NS THEN Conc ELSE NS
<1>1. Conc \in Nat \ {0}
  BY ConcBounds DEF Wave, SweepTyped
<1>2. /\ DOMAIN Split(Conc) = 1 .. nns /\ nns <= NS /\ nns \in Nat
      /\ SumFunctionOnSet(Split(Conc), 1 .. nns) = Conc
  BY <1>1, SplitExact, SweepAssumption
<1>3. Split(Conc) = [i \in 1 .. nns |-> Split(Conc)[i]]
  BY <1>2 DEF Split
<1>4. Reaching \cap DOMAIN Split(Conc) = 1 .. nns
  <2>1. 1 .. nns \subseteq 1 .. NS
    BY <1>2, SweepAssumption
  <2>2. QED
    BY <1>2, <2>1
<1> HIDE DEF nns
<1>5. [i \in Reaching \cap DOMAIN Split(Conc) |-> Split(Conc)[i]] = Split(Conc)
  BY <1>3, <1>4
<1>6. SumFunction(Split(Conc)) = Conc
  BY <1>2 DEF SumFunction
<1>7. QED
  BY <1>5, <1>6 DEF Wave

\* Started and left always make L, step by step.
LEMMA WavesStep ==
  ASSUME SweepTyped, WavesInv, [TopoNext]_allVars
  PROVE  WavesInv'
<1>1. CASE Script(Reaching) /\ prog = <<>> /\ UNCHANGED topoVars
  <2>0. prog' = <<>> /\ Reaching' = Reaching
    BY <1>1 DEF topoVars, Reaching, Reaches
  <2>1. CASE Start(Reaching)
    BY <2>0, <2>1 DEF Start, Goto, WavesInv, InCycle, DumpsCycle, Dumping, Mid
  <2>2. CASE StatBefore \/ Dump \/ StatAfter \/ Fetch \/ Analyze
    <3>1. UNCHANGED <<li, ret, driven, remaining>>
      BY <2>2 DEF StatBefore, Dump, StatAfter, Fetch, Analyze
    <3>2. InCycle' => InCycle
      BY <2>2 DEF StatBefore, Dump, StatAfter, Fetch, Analyze, Goto, InCycle, DumpsCycle,
                  Dumping, Mid, SweepTyped
    <3>3. (DumpsCycle \/ step = "fetch")' => DumpsCycle \/ step = "fetch"
      BY <2>2 DEF StatBefore, Dump, StatAfter, Fetch, Analyze, Goto, InCycle, DumpsCycle,
                  Dumping, Mid, SweepTyped
    <3>4. QED
      BY <2>0, <3>1, <3>2, <3>3 DEF WavesInv
  <2>3. CASE NextL
    <3>1. CASE li = Len(LVALUES)
      BY <2>0, <2>3, <3>1 DEF NextL, Goto, WavesInv, InCycle, DumpsCycle, Dumping, Mid
    <3>2. CASE li # Len(LVALUES)
      <4>1. /\ step' = "reset" /\ driven' = 0 /\ li' = li + 1
            /\ remaining' = LVALUES[li + 1]
        BY <2>3, <3>2 DEF NextL, Goto
      <4>2. LVALUES[li + 1] \in Nat
        BY <3>2, ListFacts DEF SweepTyped
      <4>3. QED
        BY <2>0, <4>1, <4>2 DEF WavesInv, DumpsCycle, Dumping
    <3>3. QED
      BY <3>1, <3>2
  <2>4. CASE ResetCounts \/ StartCapture
    <3>1. /\ UNCHANGED <<li, ret, driven, remaining>> /\ InCycle
          /\ step' \in {"aborted", "capture", "drive"}
      BY <2>4 DEF ResetCounts, StartCapture, Goto, InCycle, Mid
    <3>2. QED
      BY <2>0, <3>1 DEF WavesInv, DumpsCycle, Dumping
  <2>5. CASE Wave(Reaching)
    <3>1. /\ step = "drive" /\ step' = "drive" /\ UNCHANGED li
          /\ remaining' = remaining - Conc
      BY <2>5 DEF Wave
    <3>2. Conc \in Nat /\ remaining \in Nat /\ remaining - Conc \in Nat
      BY <2>5, ConcBounds DEF Wave, SweepTyped
    <3>3. ASSUME 1 .. NS \subseteq Reaching
          PROVE  driven' \in Nat /\ driven' + remaining' = LVALUES[li]
      <4>1. driven \in Nat /\ driven + remaining = LVALUES[li]
        BY <3>1, <3>3 DEF WavesInv, InCycle, Mid
      <4>2. driven' = driven + Conc
        BY <2>5, <3>3, WaveExact
      <4>3. QED
        BY <3>1, <3>2, <4>1, <4>2
    <3>4. QED
      BY <2>0, <3>1, <3>3 DEF WavesInv, DumpsCycle, Dumping
  <2>6. CASE StopCapture
    <3>1. step = "drive" /\ remaining = 0 /\ UNCHANGED <<li, driven, remaining>>
      BY <2>6 DEF StopCapture
    <3>2. QED
      BY <2>0, <3>1 DEF WavesInv, InCycle, Mid
  <2>7. QED
    BY <1>1, <2>1, <2>2, <2>3, <2>4, <2>5, <2>6 DEF Script
<1>2. CASE (Operator /\ UNCHANGED topoVars) \/ UNCHANGED allVars
  <2>1. UNCHANGED <<step, ret, li, driven, remaining, prog, net>>
    BY <1>2 DEF Operator, topoVars, allVars, vars
  <2>2. QED
    BY <2>1 DEF WavesInv, InCycle, DumpsCycle, Quiet, Reaching, Reaches
<1>3. CASE Quiet /\ UNCHANGED vars
  BY <1>3 DEF Quiet, vars, WavesInv, InCycle, DumpsCycle, Dumping, Mid
<1>4. QED
  <2>1. ASSUME Command \/ Kill
                 \/ \E a \in {"setup", "clean"}, hosts \in HostCounts : Launch(a, hosts)
        PROVE  Quiet /\ UNCHANGED vars
    BY <2>1 DEF Command, Kill, Launch, WavesInv
  <2>2. QED
    BY <1>1, <1>2, <1>3, <2>1 DEF TopoNext

\* The waves of an L start exactly L connections, for every L, wave size and
\* number of namespaces, if all the namespaces reach the switch.
THEOREM WavesInvariant == TopoSpec => []WavesExact
<1>1. TopoInit => WavesInv
  BY DEF TopoInit, Init, WavesInv, InCycle, DumpsCycle, Dumping, Mid
<1>2. SweepTyped /\ WavesInv /\ [TopoNext]_allVars => WavesInv'
  BY WavesStep
<1>3. WavesInv => WavesExact
  <2> SUFFICES ASSUME WavesInv, step = "fetch", 1 .. NS \subseteq Reaching
               PROVE  driven = LVALUES[li]
    BY DEF WavesExact
  <2>1. driven \in Nat /\ driven + remaining = LVALUES[li] /\ remaining = 0
    BY DEF WavesInv, InCycle, Mid
  <2>2. QED
    BY <2>1
<1>4. QED
  BY <1>1, <1>2, <1>3, SweepTypeCorrect, PTL DEF TopoSpec

-----------------------------------------------------------------------------
(* The network *)

\* Four commands are a sequence.
LEMMA FourCommands ==
  ASSUME NEW S, NEW a \in S, NEW b \in S, NEW c \in S, NEW d \in S
  PROVE  /\ <<a, b, c, d>> \in Seq(S) /\ Len(<<a, b, c, d>>) = 4
         /\ <<a, b, c, d>>[1] = a /\ <<a, b, c, d>>[2] = b
         /\ <<a, b, c, d>>[3] = c /\ <<a, b, c, d>>[4] = d
OBVIOUS

\* The elements of a sequence that begins with four commands, by position.
LEMMA PrefixAt ==
  ASSUME NEW S, NEW a \in S, NEW b \in S, NEW c \in S, NEW d \in S,
         NEW t \in Seq(S), NEW u, u = <<a, b, c, d>> \o t
  PROVE  /\ u \in Seq(S) /\ Len(u) = 4 + Len(t)
         /\ u[1] = a /\ u[2] = b /\ u[3] = c /\ u[4] = d
         /\ \A k \in 1 .. Len(t) : u[4 + k] = t[k]
<1> DEFINE s == <<a, b, c, d>>
<1>1. s \in Seq(S) /\ Len(s) = 4 /\ s[1] = a /\ s[2] = b /\ s[3] = c /\ s[4] = d
  BY FourCommands
<1> HIDE DEF s
<1>2. /\ s \o t \in Seq(S) /\ Len(s \o t) = Len(s) + Len(t)
      /\ \A k \in 1 .. Len(s) + Len(t) :
           (s \o t)[k] = IF k <= Len(s) THEN s[k] ELSE t[k - Len(s)]
  BY <1>1, ConcatProperties
<1>3. Len(t) \in Nat
  OBVIOUS
<1>4. \A k \in 1 .. Len(t) : 4 + k \in 1 .. 4 + Len(t) /\ ~(4 + k <= 4) /\ (4 + k) - 4 = k
  BY <1>3
<1>5. /\ 1 \in 1 .. 4 + Len(t) /\ 2 \in 1 .. 4 + Len(t)
      /\ 3 \in 1 .. 4 + Len(t) /\ 4 \in 1 .. 4 + Len(t)
  BY <1>3
<1>6. u = s \o t
  BY DEF s
<1>7. /\ u[1] = a /\ u[2] = b /\ u[3] = c /\ u[4] = d
  BY <1>1, <1>2, <1>5, <1>6
<1>8. \A k \in 1 .. Len(t) : u[4 + k] = t[k]
  BY <1>1, <1>2, <1>4, <1>6
<1>9. QED
  BY <1>1, <1>2, <1>6, <1>7, <1>8

\* The commands of setup, by position.
SetupOps == <<"netns add", "link add veth", "set veth netns", "set peer master",
              "addr add veth">>

LEMMA SetupProgram ==
  ASSUME NEW hosts \in 1 .. CleanRange
  PROVE  /\ setup(hosts) \in Seq(Commands)
         /\ Len(setup(hosts)) = 4 + 5 * hosts
         /\ setup(hosts)[1] = Cmd("link add bridge", 0)
         /\ setup(hosts)[2] = Cmd("addr flush nic", 0)
         /\ setup(hosts)[3] = Cmd("set nic master", 0)
         /\ setup(hosts)[4] = Cmd("addr add bridge", 0)
         /\ \A i \in 1 .. hosts, m \in 0 .. 4 :
              setup(hosts)[4 + (5 * (i - 1) + m + 1)] = Cmd(SetupOps[m + 1], i)
<1> DEFINE s == <<Cmd("link add bridge", 0), Cmd("addr flush nic", 0),
                  Cmd("set nic master", 0), Cmd("addr add bridge", 0)>>
           t == Each(SetupOps, hosts)
           at(k) == Cmd(SetupOps[((k - 1) % 5) + 1], ((k - 1) \div 5) + 1)
           K == 5 * hosts
<1>0. CleanRange \in Nat /\ hosts \in Nat /\ Hosts = 1 .. CleanRange /\ K \in Nat
  BY TopoAssumption DEF Hosts
<1>1. setup(hosts) = s \o t
  BY DEF setup, SetupOps
<1>2. t = [k \in 1 .. K |-> at(k)]
  <2>1. Len(SetupOps) = 5
    BY DEF SetupOps
  <2>2. hosts * 5 = 5 * hosts
    BY <1>0
  <2>3. QED
    BY <2>1, <2>2 DEF Each
<1>3. /\ Cmd("link add bridge", 0) \in Commands /\ Cmd("addr flush nic", 0) \in Commands
      /\ Cmd("set nic master", 0) \in Commands /\ Cmd("addr add bridge", 0) \in Commands
  BY DEF Cmd, Commands, Ops
<1>4. \A k \in 1 .. K : at(k) \in Commands
  <2> SUFFICES ASSUME NEW k \in 1 .. K PROVE at(k) \in Commands
    OBVIOUS
  <2>1. ((k - 1) % 5) + 1 \in 1 .. 5 /\ ((k - 1) \div 5) + 1 \in 1 .. hosts
    BY <1>0
  <2>2. ((k - 1) \div 5) + 1 \in Hosts
    BY <1>0, <2>1
  <2>3. \A m \in 1 .. 5 : SetupOps[m] \in Ops
    <3>1. \A m \in 1 .. 5 : m = 1 \/ m = 2 \/ m = 3 \/ m = 4 \/ m = 5
      OBVIOUS
    <3>2. /\ SetupOps[1] \in Ops /\ SetupOps[2] \in Ops /\ SetupOps[3] \in Ops
          /\ SetupOps[4] \in Ops /\ SetupOps[5] \in Ops
      BY DEF SetupOps, Ops
    <3>3. QED
      BY <3>1, <3>2
  <2>4. \A op \in Ops, i \in Hosts : Cmd(op, i) \in Commands
    BY DEF Cmd, Commands
  <2>5. QED
    BY <2>1, <2>2, <2>3, <2>4
<1>5. t \in Seq(Commands) /\ Len(t) = K
  <2> HIDE DEF at, K
  <2>1. QED
    BY <1>0, <1>2, <1>4
<1>6. /\ setup(hosts) \in Seq(Commands) /\ Len(setup(hosts)) = 4 + K
      /\ setup(hosts)[1] = Cmd("link add bridge", 0)
      /\ setup(hosts)[2] = Cmd("addr flush nic", 0)
      /\ setup(hosts)[3] = Cmd("set nic master", 0)
      /\ setup(hosts)[4] = Cmd("addr add bridge", 0)
      /\ \A k \in 1 .. K : setup(hosts)[4 + k] = t[k]
  <2> DEFINE a == Cmd("link add bridge", 0)
             b == Cmd("addr flush nic", 0)
             c == Cmd("set nic master", 0)
             d == Cmd("addr add bridge", 0)
             u == setup(hosts)
  <2>1. u = <<a, b, c, d>> \o t
    BY <1>1
  <2>2. a \in Commands /\ b \in Commands /\ c \in Commands /\ d \in Commands
    BY <1>3
  <2> HIDE DEF a, b, c, d, u, t, K
  <2>3. /\ u \in Seq(Commands) /\ Len(u) = 4 + Len(t)
        /\ u[1] = a /\ u[2] = b /\ u[3] = c /\ u[4] = d
        /\ \A k \in 1 .. Len(t) : u[4 + k] = t[k]
    BY <1>5, <2>1, <2>2, PrefixAt
  <2>4. QED
    BY <1>5, <2>3 DEF a, b, c, d, u
<1>7. ASSUME NEW i \in 1 .. hosts, NEW m \in 0 .. 4
      PROVE  setup(hosts)[4 + (5 * (i - 1) + m + 1)] = Cmd(SetupOps[m + 1], i)
  <2> DEFINE k == 5 * (i - 1) + m + 1
  <2>1. k \in 1 .. K /\ (k - 1) % 5 = m /\ ((k - 1) \div 5) + 1 = i
    BY <1>0
  <2> HIDE DEF k
  <2>2. setup(hosts)[4 + k] = t[k]
    <3> HIDE DEF t, K
    <3>1. QED
      BY <1>6, <2>1
  <2>3. t[k] = at(k)
    <3> HIDE DEF t, at
    <3>1. QED
      BY <1>2, <2>1
  <2>4. at(k) = Cmd(SetupOps[m + 1], i)
    BY <2>1
  <2>5. QED
    BY <2>2, <2>3, <2>4 DEF k
<1>8. QED
  BY <1>6, <1>7

\* The commands of clean, by position; -n does not matter up to CleanRange.
LEMMA CleanProgram ==
  ASSUME NEW hosts \in 1 .. CleanRange
  PROVE  /\ clean(hosts) \in Seq(Commands)
         /\ Len(clean(hosts)) = CleanRange + 4
         /\ \A i \in 1 .. CleanRange : clean(hosts)[i] = Cmd("netns del", i)
         /\ clean(hosts)[CleanRange + 1] = Cmd("set nic nomaster", 0)
         /\ clean(hosts)[CleanRange + 2] = Cmd("addr flush bridge", 0)
         /\ clean(hosts)[CleanRange + 3] = Cmd("link del bridge", 0)
         /\ clean(hosts)[CleanRange + 4] = Cmd("addr add nic", 0)
<1> DEFINE s == Each(<<"netns del">>, CleanRange)
           t == <<Cmd("set nic nomaster", 0), Cmd("addr flush bridge", 0),
                  Cmd("link del bridge", 0), Cmd("addr add nic", 0)>>
<1>0. CleanRange \in Nat /\ Hosts = 1 .. CleanRange
  BY TopoAssumption DEF Hosts
<1>1. clean(hosts) = s \o t
  <2>1. MaxOf(hosts, CleanRange) = CleanRange
    BY <1>0 DEF MaxOf
  <2>2. QED
    BY <2>1 DEF clean
<1>2. s = [k \in 1 .. CleanRange |-> Cmd("netns del", k)]
  <2>1. Len(<<"netns del">>) = 1 /\ <<"netns del">>[1] = "netns del"
    OBVIOUS
  <2>2. \A k \in 1 .. CleanRange : ((k - 1) % 1) + 1 = 1 /\ ((k - 1) \div 1) + 1 = k
    BY <1>0
  <2>3. CleanRange * 1 = CleanRange
    BY <1>0
  <2>4. QED
    BY <2>1, <2>2, <2>3 DEF Each
<1>3. s \in Seq(Commands) /\ Len(s) = CleanRange
  <2>1. \A k \in 1 .. CleanRange : Cmd("netns del", k) \in Commands
    BY <1>0 DEF Cmd, Commands, Ops
  <2> DEFINE c(k) == Cmd("netns del", k)
  <2>2. s = [k \in 1 .. CleanRange |-> c(k)] /\ \A k \in 1 .. CleanRange : c(k) \in Commands
    BY <1>2, <2>1
  <2> HIDE DEF s, c
  <2>3. QED
    BY <1>0, <2>2
<1>4. /\ Cmd("set nic nomaster", 0) \in Commands /\ Cmd("addr flush bridge", 0) \in Commands
      /\ Cmd("link del bridge", 0) \in Commands /\ Cmd("addr add nic", 0) \in Commands
  BY DEF Cmd, Commands, Ops
<1>5. /\ clean(hosts) \in Seq(Commands) /\ Len(clean(hosts)) = Len(s) + 4
      /\ \A k \in 1 .. Len(s) : clean(hosts)[k] = s[k]
      /\ clean(hosts)[Len(s) + 1] = Cmd("set nic nomaster", 0)
      /\ clean(hosts)[Len(s) + 2] = Cmd("addr flush bridge", 0)
      /\ clean(hosts)[Len(s) + 3] = Cmd("link del bridge", 0)
      /\ clean(hosts)[Len(s) + 4] = Cmd("addr add nic", 0)
  <2>1. /\ t \in Seq(Commands) /\ Len(t) = 4
        /\ t[1] = Cmd("set nic nomaster", 0) /\ t[2] = Cmd("addr flush bridge", 0)
        /\ t[3] = Cmd("link del bridge", 0) /\ t[4] = Cmd("addr add nic", 0)
    BY <1>4, FourCommands
  <2> HIDE DEF s, t
  <2>2. /\ s \o t \in Seq(Commands) /\ Len(s \o t) = Len(s) + 4
        /\ \A k \in 1 .. Len(s) : (s \o t)[k] = s[k]
        /\ \A k \in 1 .. 4 : (s \o t)[Len(s) + k] = t[k]
    <3>1. /\ s \o t \in Seq(Commands) /\ Len(s \o t) = Len(s) + Len(t)
          /\ \A k \in 1 .. Len(s) + Len(t) :
               (s \o t)[k] = IF k <= Len(s) THEN s[k] ELSE t[k - Len(s)]
      BY <1>3, <2>1, ConcatProperties
    <3>2. Len(s) \in Nat
      BY <1>0, <1>3
    <3>3. \A k \in 1 .. 4 : /\ Len(s) + k \in 1 .. Len(s) + 4
                            /\ ~(Len(s) + k <= Len(s)) /\ (Len(s) + k) - Len(s) = k
      BY <3>2
    <3>4. \A k \in 1 .. 4 : (s \o t)[Len(s) + k] = t[k]
      BY <2>1, <3>1, <3>3
    <3>5. \A k \in 1 .. Len(s) : (s \o t)[k] = s[k]
      <4>1. \A k \in 1 .. Len(s) : k \in 1 .. Len(s) + 4 /\ k <= Len(s)
        BY <3>2
      <4>2. Len(s) + Len(t) = Len(s) + 4
        BY <2>1
      <4>3. ASSUME NEW k \in 1 .. Len(s) PROVE (s \o t)[k] = s[k]
        <5>1. k \in 1 .. Len(s) + Len(t) /\ k <= Len(s)
          BY <4>1, <4>2
        <5>2. (s \o t)[k] = IF k <= Len(s) THEN s[k] ELSE t[k - Len(s)]
          BY <3>1, <5>1
        <5>3. QED
          BY <5>1, <5>2
      <4>4. QED
        BY <4>3
    <3>6. QED
      BY <2>1, <3>1, <3>4, <3>5
  <2>3. 1 \in 1 .. 4 /\ 2 \in 1 .. 4 /\ 3 \in 1 .. 4 /\ 4 \in 1 .. 4
    OBVIOUS
  <2>4. QED
    BY <1>1, <2>1, <2>2, <2>3
<1> HIDE DEF s
<1>6. \A k \in 1 .. CleanRange : clean(hosts)[k] = Cmd("netns del", k)
  BY <1>2, <1>3, <1>5
<1>7. QED
  BY <1>3, <1>5, <1>6

\* A command changes the state of a host within its type, and an interface is
\* only ever inside a namespace that exists.
LEMMA HostTyped ==
  ASSUME NEW h \in HostState, NEW op \in Ops, h.veth = "in" => h.ns
  PROVE  /\ Host(h, op) \in HostState
         /\ Host(h, op).veth = "in" => Host(h, op).ns
<1> USE DEF HostState
<1>1. CASE op = "netns add"
  BY <1>1 DEF Host
<1>2. CASE op = "link add veth"
  BY <1>2 DEF Host
<1>3. CASE op = "set veth netns"
  BY <1>3 DEF Host
<1>4. CASE op = "set peer master"
  BY <1>4 DEF Host
<1>5. CASE op = "addr add veth"
  BY <1>5 DEF Host
<1>6. CASE op = "netns del"
  BY <1>6 DEF Host, NoHost
<1>7. CASE op \notin {"netns add", "link add veth", "set veth netns", "set peer master",
                      "addr add veth", "netns del"}
  BY <1>7 DEF Host
<1>8. QED
  BY <1>1, <1>2, <1>3, <1>4, <1>5, <1>6, <1>7

\* Each of the five commands of a host achieves its step, if the ones before did.
LEMMA HostUpStep ==
  ASSUME NEW h \in HostState, net.bridge, NEW m \in 0 .. 4, HostUp(h, m)
  PROVE  HostUp(Host(h, SetupOps[m + 1]), m + 1)
<1> USE DEF HostState, HostUp
<1>1. CASE m = 0
  BY <1>1 DEF Host, SetupOps
<1>2. CASE m = 1
  BY <1>2 DEF Host, SetupOps
<1>3. CASE m = 2
  BY <1>3 DEF Host, SetupOps
<1>4. CASE m = 3
  BY <1>4 DEF Host, SetupOps
<1>5. CASE m = 4
  BY <1>5 DEF Host, SetupOps
<1>6. QED
  BY <1>1, <1>2, <1>3, <1>4, <1>5

\* Nothing is expected of a host before its first command, and nothing new
\* after its last.
LEMMA HostUpOutside ==
  ASSUME NEW h, NEW a \in Int, HostUp(h, a), a >= 5 \/ a <= -1
  PROVE  HostUp(h, a + 1)
BY DEF HostUp

\* What each command for the whole machine does.
LEMMA EffectOf ==
  /\ Effect("link add bridge") = [net EXCEPT !.bridge = TRUE]
  /\ Effect("addr flush nic") = [net EXCEPT !.nicIp = FALSE]
  /\ net.bridge => Effect("set nic master") = [net EXCEPT !.master = TRUE]
  /\ net.bridge => Effect("addr add bridge") = [net EXCEPT !.brIp = TRUE]
  /\ Effect("set nic nomaster") = [net EXCEPT !.master = FALSE]
  /\ Effect("addr flush bridge") = [net EXCEPT !.brIp = FALSE]
  /\ Effect("link del bridge") =
       [net EXCEPT !.bridge = FALSE, !.brIp = FALSE, !.master = FALSE,
                   !.host = [j \in Hosts |-> [net.host[j] EXCEPT !.port = FALSE]]]
  /\ Effect("addr add nic") = [net EXCEPT !.nicIp = TRUE]
BY DEF Effect

\* One command of setup.
LEMMA SetupCommand ==
  ASSUME TopoInv, action = "setup", Command, NEW k \in Nat,
         LeftOf(setup(n), k), SetupDone(k)
  PROVE  SetupDone(k + 1)'
<1>0. CleanRange \in Nat /\ Hosts = 1 .. CleanRange /\ n \in 1 .. CleanRange /\ net \in NetState
  BY TopoAssumption DEF Hosts, TopoInv
<1>1. /\ Len(prog) \in Nat /\ Len(prog) > 0 /\ Head(prog) = prog[1]
      /\ 4 + 5 * n = k + Len(prog) /\ prog[1] = setup(n)[k + 1]
  <2>1. prog \in Seq(Commands) /\ prog # <<>>
    BY DEF TopoInv, Command
  <2>2. Len(prog) \in Nat /\ Len(prog) > 0 /\ Head(prog) = prog[1]
    BY <2>1
  <2>3. 1 \in 1 .. Len(prog)
    BY <2>2
  <2>4. QED
    BY <1>0, <2>2, <2>3, SetupProgram DEF LeftOf
<1>2. CASE k < 4
  <2>0. k \in {0, 1, 2, 3}
    BY <1>2
  <2>1. \A op : prog[1] = Cmd(op, 0) => net' = Effect(op)
    BY <1>1 DEF Command, Cmd
  <2>2. \A i \in Hosts : HostUp(net'.host[i], (k + 1) - (5 * i - 1))
    <3>1. \A i \in Hosts : (k + 1) - (5 * i - 1) <= 0 /\ (k + 1) - (5 * i - 1) \in Int
      BY <1>0, <1>2
    <3>2. QED
      BY <3>1 DEF HostUp
  <2>3. /\ k + 1 >= 1 => net'.bridge
        /\ k + 1 >= 2 => ~net'.nicIp
        /\ k + 1 >= 3 => net'.master
        /\ k + 1 >= 4 => net'.brIp
    <3>1. CASE k = 0
      <4>1. net' = [net EXCEPT !.bridge = TRUE]
        <5>1. k + 1 = 1
          BY <3>1
        <5>2. setup(n)[1] = Cmd("link add bridge", 0)
          BY <1>0, SetupProgram
        <5>3. prog[1] = Cmd("link add bridge", 0)
          BY <1>1, <5>1, <5>2
        <5>4. net' = Effect("link add bridge")
          BY <2>1, <5>3
        <5>5. QED
          BY <5>4, EffectOf
      <4>2. QED
        BY <1>0, <3>1, <4>1 DEF NetState
    <3>2. CASE k = 1
      <4>1. net' = [net EXCEPT !.nicIp = FALSE]
        <5>1. k + 1 = 2
          BY <3>2
        <5>2. setup(n)[2] = Cmd("addr flush nic", 0)
          BY <1>0, SetupProgram
        <5>3. prog[1] = Cmd("addr flush nic", 0)
          BY <1>1, <5>1, <5>2
        <5>4. net' = Effect("addr flush nic")
          BY <2>1, <5>3
        <5>5. QED
          BY <5>4, EffectOf
      <4>2. QED
        BY <1>0, <3>2, <4>1 DEF NetState, SetupDone
    <3>3. CASE k = 2
      <4>0. net.bridge /\ ~net.nicIp
        BY <3>3 DEF SetupDone
      <4>1. net' = [net EXCEPT !.master = TRUE]
        <5>1. k + 1 = 3
          BY <3>3
        <5>2. setup(n)[3] = Cmd("set nic master", 0)
          BY <1>0, SetupProgram
        <5>3. prog[1] = Cmd("set nic master", 0)
          BY <1>1, <5>1, <5>2
        <5>4. net' = Effect("set nic master")
          BY <2>1, <5>3
        <5>5. QED
          BY <4>0, <5>4, EffectOf
      <4>2. QED
        BY <1>0, <3>3, <4>0, <4>1 DEF NetState
    <3>4. CASE k = 3
      <4>0. net.bridge /\ ~net.nicIp /\ net.master
        BY <3>4 DEF SetupDone
      <4>1. net' = [net EXCEPT !.brIp = TRUE]
        <5>1. k + 1 = 4
          BY <3>4
        <5>2. setup(n)[4] = Cmd("addr add bridge", 0)
          BY <1>0, SetupProgram
        <5>3. prog[1] = Cmd("addr add bridge", 0)
          BY <1>1, <5>1, <5>2
        <5>4. net' = Effect("addr add bridge")
          BY <2>1, <5>3
        <5>5. QED
          BY <4>0, <5>4, EffectOf
      <4>2. QED
        BY <1>0, <3>4, <4>0, <4>1 DEF NetState
    <3>5. QED
      BY <2>0, <3>1, <3>2, <3>3, <3>4
  <2>4. QED
    BY <2>2, <2>3 DEF SetupDone, HostUp
<1>3. CASE k >= 4
  <2> DEFINE i == ((k - 4) \div 5) + 1
             m == (k - 4) % 5
  <2>1. i \in 1 .. n /\ m \in 0 .. 4 /\ k + 1 = 4 + (5 * (i - 1) + m + 1)
    BY <1>0, <1>1, <1>3
  <2> HIDE DEF i, m
  <2>2. prog[1] = Cmd(SetupOps[m + 1], i)
    BY <1>0, <1>1, <2>1, SetupProgram
  <2>3. i # 0 /\ i \in Hosts /\ i \in Int
    BY <1>0, <2>1
  <2>4. net' = [net EXCEPT !.host[i] = Host(net.host[i], SetupOps[m + 1])]
    BY <1>1, <2>2, <2>3 DEF Command, Cmd
  <2>5. /\ net'.host[i] = Host(net.host[i], SetupOps[m + 1])
        /\ \A j \in Hosts : j # i => net'.host[j] = net.host[j]
        /\ net'.bridge = net.bridge /\ net'.nicIp = net.nicIp
        /\ net'.master = net.master /\ net'.brIp = net.brIp
    BY <1>0, <2>3, <2>4 DEF NetState
  <2>6. net.bridge /\ ~net.nicIp /\ net.master /\ net.brIp
    BY <1>3 DEF SetupDone
  <2>7. ASSUME NEW j \in Hosts
        PROVE  HostUp(net'.host[j], (k + 1) - (5 * j - 1))
    <3>1. HostUp(net.host[j], k - (5 * j - 1))
      BY DEF SetupDone
    <3>2. CASE j = i
      <4>1. k - (5 * j - 1) = m /\ (k + 1) - (5 * j - 1) = m + 1
        BY <2>1, <2>3, <3>2
      <4>2. net.host[i] \in HostState
        BY <1>0, <2>3 DEF NetState
      <4>3. HostUp(net.host[i], m)
        BY <3>1, <3>2, <4>1
      <4>4. HostUp(Host(net.host[i], SetupOps[m + 1]), m + 1)
        BY <2>1, <2>6, <4>2, <4>3, HostUpStep
      <4>5. QED
        BY <3>2, <4>1, <4>4, <2>5
    <3>3. CASE j # i
      <4> DEFINE a == k - (5 * j - 1)
      <4>1. a \in Int /\ (a >= 5 \/ a <= -1) /\ (k + 1) - (5 * j - 1) = a + 1
        BY <1>0, <2>1, <2>3, <3>3
      <4>2. HostUp(net.host[j], a)
        BY <3>1
      <4> HIDE DEF a
      <4>3. HostUp(net.host[j], a + 1)
        BY <4>1, <4>2, HostUpOutside
      <4>4. QED
        BY <2>5, <3>3, <4>1, <4>3
    <3>4. QED
      BY <3>2, <3>3
  <2>8. net'.bridge /\ ~net'.nicIp /\ net'.master /\ net'.brIp
    BY <2>5, <2>6
  <2>9. QED
    BY <2>7, <2>8 DEF SetupDone, HostUp
<1>4. QED
  BY <1>2, <1>3

\* One command of clean.
LEMMA CleanCommand ==
  ASSUME TopoInv, action = "clean", Command, NEW k \in Nat,
         LeftOf(clean(n), k), CleanDone(k)
  PROVE  CleanDone(k + 1)'
<1>0. CleanRange \in Nat /\ Hosts = 1 .. CleanRange /\ n \in 1 .. CleanRange /\ net \in NetState
  BY TopoAssumption DEF Hosts, TopoInv
<1>1. /\ Len(prog) \in Nat /\ Len(prog) > 0 /\ Head(prog) = prog[1]
      /\ CleanRange + 4 = k + Len(prog) /\ prog[1] = clean(n)[k + 1]
  <2>1. prog \in Seq(Commands) /\ prog # <<>>
    BY DEF TopoInv, Command
  <2>2. Len(prog) \in Nat /\ Len(prog) > 0 /\ Head(prog) = prog[1]
    BY <2>1
  <2>3. 1 \in 1 .. Len(prog)
    BY <2>2
  <2>4. QED
    BY <1>0, <2>2, <2>3, CleanProgram DEF LeftOf
<1>2. CASE k < CleanRange
  <2>1. k + 1 \in 1 .. CleanRange /\ k + 1 \in Hosts /\ k + 1 # 0
    BY <1>0, <1>2
  <2>2. prog[1] = Cmd("netns del", k + 1)
    BY <1>0, <1>1, <2>1, CleanProgram
  <2>3. net' = [net EXCEPT !.host[k + 1] = Host(net.host[k + 1], "netns del")]
    <3>1. Head(prog).op = "netns del" /\ Head(prog).host = k + 1
      <4>1. Head(prog) = Cmd("netns del", k + 1)
        BY <1>1, <2>2
      <4>2. Cmd("netns del", k + 1).op = "netns del" /\ Cmd("netns del", k + 1).host = k + 1
        BY DEF Cmd
      <4>3. QED
        BY <4>1, <4>2
    <3>2. net' = [net EXCEPT !.host[Head(prog).host]
                                = Host(net.host[Head(prog).host], Head(prog).op)]
      BY <2>1, <3>1 DEF Command
    <3>3. QED
      BY <3>1, <3>2
  <2>4. /\ net'.host[k + 1] = Host(net.host[k + 1], "netns del")
        /\ \A j \in Hosts : j # k + 1 => net'.host[j] = net.host[j]
    BY <1>0, <2>1, <2>3 DEF NetState
  <2>5. net.host[k + 1] \in HostState
    BY <1>0, <2>1 DEF NetState
  <2>6. ~Host(net.host[k + 1], "netns del").ns
    BY <2>5 DEF Host, HostState, NoHost
  <2>7. \A j \in Hosts : k + 1 >= j => ~net'.host[j].ns
    <3> SUFFICES ASSUME NEW j \in Hosts, k + 1 >= j PROVE ~net'.host[j].ns
      OBVIOUS
    <3>1. CASE j = k + 1
      BY <2>4, <2>6, <3>1
    <3>2. CASE j # k + 1
      <4>1. k >= j
        BY <1>0, <3>2
      <4>2. QED
        BY <2>4, <3>2, <4>1 DEF CleanDone
    <3>3. QED
      BY <3>1, <3>2
  <2>8. QED
    BY <1>0, <1>2, <2>7 DEF CleanDone
<1>3. CASE k >= CleanRange
  <2> DEFINE m == k - CleanRange
  <2>1. m \in {0, 1, 2, 3} /\ k + 1 = CleanRange + (m + 1)
    BY <1>0, <1>1, <1>3
  <2>3. \A op : prog[1] = Cmd(op, 0) => net' = Effect(op)
    BY <1>1 DEF Command, Cmd
  <2>4. \A i \in Hosts : ~net.host[i].ns
    <3>1. \A i \in Hosts : k >= i
      BY <1>0, <1>3
    <3>2. QED
      BY <3>1 DEF CleanDone
  <2>5. /\ m >= 1 => ~net.master
        /\ m >= 2 => ~net.brIp
        /\ m >= 3 => ~net.bridge
    BY <1>0, <1>3 DEF CleanDone
  <2> HIDE DEF m
  <2>6. /\ \A i \in Hosts : ~net'.host[i].ns
        /\ m >= 0 => ~net'.master
        /\ m >= 1 => ~net'.brIp
        /\ m >= 2 => ~net'.bridge
        /\ m >= 3 => net'.nicIp
    <3>1. CASE m = 0
      <4>1. net' = [net EXCEPT !.master = FALSE]
        <5>1. k + 1 = CleanRange + 1
          BY <2>1, <3>1
        <5>2. clean(n)[CleanRange + 1] = Cmd("set nic nomaster", 0)
          BY <1>0, CleanProgram
        <5>3. prog[1] = Cmd("set nic nomaster", 0)
          BY <1>1, <5>1, <5>2
        <5>4. net' = Effect("set nic nomaster")
          BY <2>3, <5>3
        <5>5. QED
          BY <5>4, EffectOf
      <4>2. QED
        BY <1>0, <2>4, <3>1, <4>1 DEF NetState
    <3>2. CASE m = 1
      <4>1. net' = [net EXCEPT !.brIp = FALSE]
        <5>1. k + 1 = CleanRange + 2
          BY <2>1, <3>2
        <5>2. clean(n)[CleanRange + 2] = Cmd("addr flush bridge", 0)
          BY <1>0, CleanProgram
        <5>3. prog[1] = Cmd("addr flush bridge", 0)
          BY <1>1, <5>1, <5>2
        <5>4. net' = Effect("addr flush bridge")
          BY <2>3, <5>3
        <5>5. QED
          BY <5>4, EffectOf
      <4>2. QED
        BY <1>0, <2>4, <2>5, <3>2, <4>1 DEF NetState
    <3>3. CASE m = 2
      <4>1. net' = [net EXCEPT !.bridge = FALSE, !.brIp = FALSE, !.master = FALSE,
                       !.host = [j \in Hosts |-> [net.host[j] EXCEPT !.port = FALSE]]]
        <5>1. k + 1 = CleanRange + 3
          BY <2>1, <3>3
        <5>2. clean(n)[CleanRange + 3] = Cmd("link del bridge", 0)
          BY <1>0, CleanProgram
        <5>3. prog[1] = Cmd("link del bridge", 0)
          BY <1>1, <5>1, <5>2
        <5>4. net' = Effect("link del bridge")
          BY <2>3, <5>3
        <5>5. QED
          BY <5>4, EffectOf
      <4>2. /\ ~net'.bridge /\ ~net'.brIp /\ ~net'.master
            /\ net'.host = [j \in Hosts |-> [net.host[j] EXCEPT !.port = FALSE]]
        BY <1>0, <4>1 DEF NetState
      <4>3. \A i \in Hosts : net.host[i] \in HostState
        BY <1>0 DEF NetState
      <4>4. \A i \in Hosts : net'.host[i].ns = net.host[i].ns
        BY <4>2, <4>3 DEF HostState
      <4>5. QED
        BY <2>4, <3>3, <4>2, <4>4
    <3>4. CASE m = 3
      <4>1. net' = [net EXCEPT !.nicIp = TRUE]
        <5>1. k + 1 = CleanRange + 4
          BY <2>1, <3>4
        <5>2. clean(n)[CleanRange + 4] = Cmd("addr add nic", 0)
          BY <1>0, CleanProgram
        <5>3. prog[1] = Cmd("addr add nic", 0)
          BY <1>1, <5>1, <5>2
        <5>4. net' = Effect("addr add nic")
          BY <2>3, <5>3
        <5>5. QED
          BY <5>4, EffectOf
      <4>2. QED
        BY <1>0, <2>4, <2>5, <3>4, <4>1 DEF NetState
    <3>5. QED
      BY <2>1, <3>1, <3>2, <3>3, <3>4
  <2>7. /\ k + 1 >= CleanRange + 1 => m >= 0
        /\ k + 1 >= CleanRange + 2 => m >= 1
        /\ k + 1 >= CleanRange + 3 => m >= 2
        /\ k + 1 >= CleanRange + 4 => m >= 3
    BY <1>0, <2>1
  <2>8. QED
    BY <2>6, <2>7 DEF CleanDone
<1>4. QED
  BY <1>0, <1>2, <1>3

\* A command keeps the network's state within its type.
LEMMA CommandTyped ==
  ASSUME TopoInv, Command
  PROVE  /\ net' \in NetState
         /\ \A i \in Hosts : net'.host[i].veth = "in" => net'.host[i].ns
<1>0. net \in NetState /\ \A i \in Hosts : net.host[i].veth = "in" => net.host[i].ns
  BY DEF TopoInv
<1>1. Head(prog) \in Commands
  BY DEF TopoInv, Command
<1> DEFINE op == Head(prog).op
           i == Head(prog).host
<1>5. op \in Ops /\ i \in {0} \cup Hosts
  BY <1>1 DEF Commands
<1>2. CASE i = 0
  <2>2. net' = Effect(op)
    BY <1>2 DEF Command
  <2> HIDE DEF op, i
  <2>3. CASE op = "link del bridge"
    <3>1. net' = [net EXCEPT !.bridge = FALSE, !.brIp = FALSE, !.master = FALSE,
                     !.host = [j \in Hosts |-> [net.host[j] EXCEPT !.port = FALSE]]]
      BY <2>2, <2>3 DEF Effect
    <3>2. \A j \in Hosts : net.host[j] \in HostState
      BY <1>0 DEF NetState
    <3>3. \A j \in Hosts : /\ [net.host[j] EXCEPT !.port = FALSE] \in HostState
                           /\ [net.host[j] EXCEPT !.port = FALSE].veth = net.host[j].veth
                           /\ [net.host[j] EXCEPT !.port = FALSE].ns = net.host[j].ns
      BY <3>2 DEF HostState
    <3>4. net'.host = [j \in Hosts |-> [net.host[j] EXCEPT !.port = FALSE]]
      BY <1>0, <3>1 DEF NetState
    <3>5. net' \in NetState
      <4>1. [j \in Hosts |-> [net.host[j] EXCEPT !.port = FALSE]] \in [Hosts -> HostState]
        BY <3>3
      <4>2. QED
        BY <1>0, <3>1, <4>1 DEF NetState
    <3>6. QED
      BY <1>0, <3>3, <3>4, <3>5
  <2>4. CASE op # "link del bridge"
    <3>1. net'.host = net.host
      BY <1>0, <2>2, <2>4 DEF Effect, NetState
    <3>2. net' \in NetState
      BY <1>0, <2>2, <2>4 DEF Effect, NetState
    <3>3. QED
      BY <1>0, <3>1, <3>2
  <2>5. QED
    BY <2>3, <2>4
<1>3. CASE i # 0
  <2>1. i \in Hosts
    BY <1>3, <1>5
  <2>3. net' = [net EXCEPT !.host[i] = Host(net.host[i], op)]
    BY <1>3 DEF Command
  <2> HIDE DEF op, i
  <2>4. net.host[i] \in HostState
    BY <1>0, <2>1 DEF NetState
  <2>5. /\ Host(net.host[i], op) \in HostState
        /\ Host(net.host[i], op).veth = "in" => Host(net.host[i], op).ns
    BY <1>0, <1>5, <2>1, <2>4, HostTyped
  <2>6. /\ net' \in NetState
        /\ net'.host[i] = Host(net.host[i], op)
        /\ \A j \in Hosts : j # i => net'.host[j] = net.host[j]
    BY <1>0, <2>1, <2>3, <2>5 DEF NetState
  <2>7. QED
    BY <1>0, <2>5, <2>6
<1>4. QED
  BY <1>2, <1>3

\* What is left of a program after one command more.
LEMMA LeftNext ==
  ASSUME TopoInv, Command, NEW program, NEW k \in Nat, LeftOf(program, k)
  PROVE  /\ Len(program) = k + 1 + Len(prog')
         /\ \A j \in 1 .. Len(prog') : prog'[j] = program[k + 1 + j]
<1>1. prog \in Seq(Commands) /\ prog # <<>> /\ prog' = Tail(prog)
  BY DEF TopoInv, Command
<1>2. /\ Len(prog) \in Nat /\ Len(prog') = Len(prog) - 1
      /\ \A j \in 1 .. Len(prog) - 1 : prog'[j] = prog[j + 1]
  BY <1>1
<1>3. ASSUME NEW j \in 1 .. Len(prog') PROVE prog'[j] = program[k + 1 + j]
  <2>1. j + 1 \in 1 .. Len(prog) /\ k + (j + 1) = k + 1 + j /\ j \in 1 .. Len(prog) - 1
    BY <1>2
  <2>2. prog[j + 1] = program[k + (j + 1)]
    BY <2>1 DEF LeftOf
  <2>3. QED
    BY <1>2, <2>1, <2>2
<1>4. QED
  BY <1>2, <1>3 DEF LeftOf

\* The invariant of the network survives a step.
LEMMA TopoStep ==
  ASSUME TopoInv, [TopoNext]_allVars
  PROVE  TopoInv'
<1>1. CASE \E a \in {"setup", "clean"}, hosts \in HostCounts : Launch(a, hosts)
  <2>1. PICK a \in {"setup", "clean"}, hosts \in HostCounts : Launch(a, hosts)
    BY <1>1
  <2>2. hosts \in 1 .. CleanRange /\ CleanRange \in Nat /\ Hosts = 1 .. CleanRange
    BY TopoAssumption DEF Hosts
  <2>3. /\ action' = a /\ n' = hosts /\ net' = net
        /\ prog' = IF a = "setup" THEN setup(hosts) ELSE clean(hosts)
    BY <2>1 DEF Launch
  <2>4. prog' \in Seq(Commands)
    BY <2>2, <2>3, SetupProgram, CleanProgram
  <2>5. CASE a = "setup"
    <3>1. Len(prog') \in Nat /\ prog' = setup(n')
      BY <2>3, <2>4, <2>5
    <3>2. (LeftOf(setup(n), 0))'
      BY <3>1 DEF LeftOf
    <3>3. (SetupDone(0))'
      <4>1. \A i \in Hosts : 0 - (5 * i - 1) \in Int /\ 0 - (5 * i - 1) < 1
        BY <2>2
      <4>2. QED
        BY <4>1 DEF SetupDone, HostUp
    <3>4. QED
      BY <2>2, <2>3, <2>4, <2>5, <3>2, <3>3 DEF TopoInv
  <2>6. CASE a = "clean"
    <3>1. Len(prog') \in Nat /\ prog' = clean(n')
      BY <2>3, <2>4, <2>6
    <3>2. (LeftOf(clean(n), 0))'
      BY <3>1 DEF LeftOf
    <3>3. (CleanDone(0))'
      BY <2>2 DEF CleanDone
    <3>4. QED
      BY <2>2, <2>3, <2>4, <2>6, <3>2, <3>3 DEF TopoInv
  <2>7. QED
    BY <2>5, <2>6
<1>2. CASE Command
  <2>1. /\ net' \in NetState
        /\ \A i \in Hosts : net'.host[i].veth = "in" => net'.host[i].ns
    BY <1>2, CommandTyped
  <2>2. /\ prog \in Seq(Commands) /\ prog # <<>> /\ prog' = Tail(prog)
        /\ UNCHANGED <<action, n>>
    BY <1>2 DEF Command, TopoInv
  <2>3. prog' \in Seq(Commands)
    BY <2>2
  <2>4. ASSUME action = "setup"
        PROVE  \E k \in Nat : (LeftOf(setup(n), k) /\ SetupDone(k))'
    <3>1. PICK k \in Nat : LeftOf(setup(n), k) /\ SetupDone(k)
      BY <2>4 DEF TopoInv
    <3>2. SetupDone(k + 1)'
      BY <1>2, <2>4, <3>1, SetupCommand
    <3>3. (LeftOf(setup(n), k + 1))'
      <4>1. setup(n)' = setup(n)
        BY <2>2 DEF setup, Each, Cmd
      <4>2. /\ Len(setup(n)) = k + 1 + Len(prog')
            /\ \A j \in 1 .. Len(prog') : prog'[j] = setup(n)[k + 1 + j]
        BY <1>2, <3>1, LeftNext
      <4>3. QED
        BY <4>1, <4>2 DEF LeftOf
    <3>4. k + 1 \in Nat
      OBVIOUS
    <3>5. QED
      BY <3>2, <3>3, <3>4
  <2>5. ASSUME action = "clean"
        PROVE  \E k \in Nat : (LeftOf(clean(n), k) /\ CleanDone(k))'
    <3>1. PICK k \in Nat : LeftOf(clean(n), k) /\ CleanDone(k)
      BY <2>5 DEF TopoInv
    <3>2. CleanDone(k + 1)'
      BY <1>2, <2>5, <3>1, CleanCommand
    <3>3. (LeftOf(clean(n), k + 1))'
      <4>1. clean(n)' = clean(n)
        BY <2>2 DEF clean, Each, Cmd
      <4>2. /\ Len(clean(n)) = k + 1 + Len(prog')
            /\ \A j \in 1 .. Len(prog') : prog'[j] = clean(n)[k + 1 + j]
        BY <1>2, <3>1, LeftNext
      <4>3. QED
        BY <4>1, <4>2 DEF LeftOf
    <3>4. k + 1 \in Nat
      OBVIOUS
    <3>5. QED
      BY <3>2, <3>3, <3>4
  <2>6. action # "killed"
    BY <2>2 DEF TopoInv
  <2>7. QED
    BY <2>1, <2>2, <2>3, <2>4, <2>5, <2>6 DEF TopoInv
<1>3. CASE Kill
  <2>1. prog' = <<>> /\ action' = "killed" /\ UNCHANGED <<net, n>>
    BY <1>3 DEF Kill
  <2>2. QED
    BY <2>1 DEF TopoInv
<1>4. CASE UNCHANGED topoVars
  <2>1. UNCHANGED <<net, prog, action, n>>
    BY <1>4 DEF topoVars
  <2>2. setup(n)' = setup(n) /\ clean(n)' = clean(n)
    BY <2>1 DEF setup, clean, Each, Cmd
  <2>3. ASSUME action = "setup"
        PROVE  \E k \in Nat : (LeftOf(setup(n), k) /\ SetupDone(k))'
    <3>1. PICK k \in Nat : LeftOf(setup(n), k) /\ SetupDone(k)
      BY <2>3 DEF TopoInv
    <3>2. LeftOf(setup(n), k)'
      BY <2>1, <2>2, <3>1 DEF LeftOf
    <3>3. SetupDone(k)'
      BY <2>1, <3>1 DEF SetupDone
    <3>4. QED
      BY <3>2, <3>3
  <2>4. ASSUME action = "clean"
        PROVE  \E k \in Nat : (LeftOf(clean(n), k) /\ CleanDone(k))'
    <3>1. PICK k \in Nat : LeftOf(clean(n), k) /\ CleanDone(k)
      BY <2>4 DEF TopoInv
    <3>2. LeftOf(clean(n), k)'
      BY <2>1, <2>2, <3>1 DEF LeftOf
    <3>3. CleanDone(k)'
      BY <2>1, <3>1 DEF CleanDone
    <3>4. QED
      BY <3>2, <3>3
  <2>5. QED
    BY <2>1, <2>3, <2>4 DEF TopoInv
<1>5. QED
  BY <1>1, <1>2, <1>3, <1>4 DEF TopoNext, allVars

\* A clean that ends restores the NIC and leaves no namespace; a setup that ends
\* connects all its senders; whatever killed or repeated runs came before.
THEOREM RepeatableInvariant == TopoSpec => []Repeatable
<1>1. TopoInit => TopoInv
  <2> SUFFICES ASSUME TopoInit PROVE TopoInv
    OBVIOUS
  <2>0. CleanRange \in Nat \ {0} /\ Hosts = 1 .. CleanRange /\ CleanRange \in 1 .. CleanRange
    BY TopoAssumption DEF Hosts
  <2>1. net = Plain /\ action = "clean" /\ n = CleanRange /\ prog = <<>>
    BY DEF TopoInit
  <2>2. net \in NetState /\ \A i \in Hosts : ~net.host[i].ns /\ net.host[i].veth # "in"
    BY <2>1 DEF Plain, NoHost, NetState, HostState
  <2>3. LeftOf(clean(n), CleanRange + 4)
    <3>1. Len(clean(n)) = CleanRange + 4
      BY <2>0, <2>1, CleanProgram
    <3>2. QED
      BY <2>0, <2>1, <3>1 DEF LeftOf
  <2>4. CleanDone(CleanRange + 4)
    <3>1. ~net.master /\ ~net.brIp /\ ~net.bridge /\ net.nicIp
      BY <2>1 DEF Plain
    <3>2. QED
      BY <2>2, <3>1 DEF CleanDone
  <2>5. CleanRange + 4 \in Nat
    BY <2>0
  <2>6. prog \in Seq(Commands)
    BY <2>1
  <2>7. QED
    BY <2>0, <2>1, <2>2, <2>3, <2>4, <2>5, <2>6 DEF TopoInv
<1>2. TopoInv /\ [TopoNext]_allVars => TopoInv'
  BY TopoStep
<1>3. TopoInv => Repeatable
  <2> SUFFICES ASSUME TopoInv, prog = <<>> PROVE Repeatable
    BY DEF Repeatable
  <2>0. /\ CleanRange \in Nat /\ Hosts = 1 .. CleanRange /\ n \in 1 .. CleanRange
        /\ net \in NetState /\ Len(prog) = 0
    BY TopoAssumption DEF Hosts, TopoInv
  <2>1. ASSUME action = "clean"
        PROVE  /\ net.nicIp /\ ~net.brIp /\ ~net.master /\ ~net.bridge
               /\ \A i \in Hosts : ~net.host[i].ns /\ net.host[i].veth # "in"
    <3>1. PICK k \in Nat : LeftOf(clean(n), k) /\ CleanDone(k)
      BY <2>1 DEF TopoInv
    <3>2. k = CleanRange + 4
      <4>1. Len(clean(n)) = CleanRange + 4 /\ Len(clean(n)) = k + Len(prog)
        BY <2>0, <3>1, CleanProgram DEF LeftOf
      <4>2. QED
        BY <2>0, <4>1
    <3>3. \A i \in Hosts : k >= i
      BY <2>0, <3>2
    <3>4. \A i \in Hosts : ~net.host[i].ns
      BY <3>1, <3>3 DEF CleanDone
    <3>5. net.nicIp /\ ~net.brIp /\ ~net.master /\ ~net.bridge
      BY <2>0, <3>1, <3>2 DEF CleanDone
    <3>6. QED
      BY <3>4, <3>5 DEF TopoInv
  <2>2. ASSUME action = "setup"
        PROVE  1 .. n \subseteq Reaching /\ net.brIp /\ ~net.nicIp
    <3>1. PICK k \in Nat : LeftOf(setup(n), k) /\ SetupDone(k)
      BY <2>2 DEF TopoInv
    <3>2. k = 4 + 5 * n
      <4>1. Len(setup(n)) = 4 + 5 * n /\ Len(setup(n)) = k + Len(prog)
        BY <2>0, <3>1, SetupProgram DEF LeftOf
      <4>2. QED
        BY <2>0, <4>1
    <3>3. net.bridge /\ net.master /\ net.brIp /\ ~net.nicIp
      BY <2>0, <3>1, <3>2 DEF SetupDone
    <3>4. ASSUME NEW i \in 1 .. n PROVE i \in Reaching
      <4>1. i \in Hosts /\ k - (5 * i - 1) >= 5 /\ k - (5 * i - 1) \in Int
        BY <2>0, <3>2
      <4>2. HostUp(net.host[i], k - (5 * i - 1)) /\ net.host[i] \in HostState
        BY <2>0, <3>1, <4>1 DEF SetupDone, NetState
      <4>3. /\ net.host[i].ns /\ net.host[i].veth = "in"
            /\ net.host[i].port /\ net.host[i].addr
        BY <4>1, <4>2 DEF HostUp
      <4>4. net.host[i] = [ns |-> TRUE, veth |-> "in", port |-> TRUE, addr |-> TRUE]
        BY <4>2, <4>3 DEF HostState
      <4>5. QED
        BY <3>3, <4>1, <4>4 DEF Reaching, Reaches
    <3>5. QED
      BY <3>3, <3>4
  <2>3. QED
    BY <2>1, <2>2 DEF Repeatable
<1>4. QED
  BY <1>1, <1>2, <1>3, PTL DEF TopoSpec

=============================================================================
