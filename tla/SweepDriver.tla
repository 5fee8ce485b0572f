----------------------------- MODULE SweepDriver -----------------------------
(***************************************************************************)
(* run_sweep.sh and run_overload.sh: one capture / transfer / dump /       *)
(* analyse cycle per connection count L.                                   *)
(*                                                                         *)
(* Every step that crosses ssh may fail.  What the scripts check is a      *)
(* stuck Python shell (its message is matched) and that the dump advanced  *)
(* the time stamp of the switch's CSV; other exit codes are ignored.  Data *)
(* is abstracted to the set of cycles whose packets it contains.  The      *)
(* sender namespaces that reach the server are a parameter: Topology.      *)
(***************************************************************************)
EXTENDS Naturals, Sequences, FiniteSets, Functions

CONSTANTS
  LVALUES,    \* connection counts, in order
  MAXCONC,    \* connections per wave
  NS,         \* sender namespaces
  Failures,   \* the calls that may fail: subset of Calls
  MaxExecs,   \* bound: executions of the script
  MaxBusy     \* bound: times another Python shell takes the switch

Calls == {"stat", "reset", "capture", "dump", "scp", "analyze"}

ASSUME SweepAssumption ==
  /\ LVALUES \in Seq(Nat \ {0})
  /\ MAXCONC \in Nat \ {0} /\ NS \in Nat \ {0}
  /\ Failures \subseteq Calls
  /\ MaxExecs \in Nat /\ MaxBusy \in Nat

VARIABLES
  step,       \* where the script is
  ret,        \* the step after dump_switch_checked
  li,         \* index into LVALUES
  cycle,      \* cycles begun so far: the tag of the current one
  remaining, driven,  \* connections of this L still to start, and started
  before,     \* the first stat of dump_switch_checked
  reg,        \* the switch's register
  remote,     \* the CSV on the switch: [data, mtime]
  local,      \* the CSV fetched
  pcap,       \* the capture file, as <<data>>; <<>> if there is none
  summary,    \* per L: the archived summary, as <<[pcap, sw]>> or <<>>
  rows,       \* the results table
  busy,       \* another Python shell is active
  clock, nexecs, nbusy

vars == <<step, ret, li, cycle, remaining, driven, before, reg, remote, local, pcap,
          summary, rows, busy, clock, nexecs, nbusy>>

\* A call that may fail does what ok says or, if it fails, what bad says.
Try(call, ok, bad) == ok \/ (call \in Failures /\ bad)

Goto(s) == step' = s /\ clock' = clock + 1

-----------------------------------------------------------------------------
(* The script *)

\* The preflight only looks at the first namespace.
Start(reach) ==
  /\ step \in {"idle", "done", "aborted"} /\ nexecs < MaxExecs
  /\ 1 \in reach
  /\ nexecs' = nexecs + 1
  /\ li' = 0 /\ ret' = "next"
  /\ Goto("stat_before")
  /\ UNCHANGED <<cycle, remaining, driven, before, reg, remote, local, pcap, summary,
                 rows, busy, nbusy>>

\* A stat over ssh that fails prints nothing, which ${..:-0} reads as 0.
StatBefore ==
  /\ step = "stat_before"
  /\ Try("stat", before' = remote.mtime, before' = 0)
  /\ Goto("dump")
  /\ UNCHANGED <<ret, li, cycle, remaining, driven, reg, remote, local, pcap, summary,
                 rows, busy, nexecs, nbusy>>

\* bfshell_run dump_buckets.py: only the message of a busy shell is detected.
Dump ==
  /\ step = "dump"
  /\ IF busy THEN Goto("aborted") /\ UNCHANGED remote
     ELSE /\ Goto("stat_after")
          /\ Try("dump", remote' = [data |-> reg, mtime |-> clock], UNCHANGED remote)
  /\ UNCHANGED <<ret, li, cycle, remaining, driven, before, reg, local, pcap, summary,
                 rows, busy, nexecs, nbusy>>

\* Mutant of StatAfter: the time stamp need not advance.
StatAfter_NotOlder ==
  /\ step = "stat_after"
  /\ \E after \in {remote.mtime} \cup (IF "stat" \in Failures THEN {0} ELSE {}) :
        Goto(IF after >= before THEN ret ELSE "aborted")
  /\ UNCHANGED <<ret, li, cycle, remaining, driven, before, reg, remote, local, pcap,
                 summary, rows, busy, nexecs, nbusy>>

StatAfter ==
  /\ step = "stat_after"
  /\ \E after \in {remote.mtime} \cup (IF "stat" \in Failures THEN {0} ELSE {}) :
        Goto(IF after > before THEN ret ELSE "aborted")
  /\ UNCHANGED <<ret, li, cycle, remaining, driven, before, reg, remote, local, pcap,
                 summary, rows, busy, nexecs, nbusy>>

\* The next L, if any; then reset_counts.py.
NextL ==
  /\ step = "next"
  /\ IF li = Len(LVALUES)
     THEN Goto("done") /\ UNCHANGED <<li, cycle, remaining, driven>>
     ELSE /\ Goto("reset")
          /\ li' = li + 1 /\ cycle' = cycle + 1
          /\ remaining' = LVALUES[li + 1] /\ driven' = 0
  /\ UNCHANGED <<ret, before, reg, remote, local, pcap, summary, rows, busy, nexecs, nbusy>>

ResetCounts ==
  /\ step = "reset"
  /\ IF busy THEN Goto("aborted") /\ UNCHANGED reg
     ELSE Goto("capture") /\ Try("reset", reg' = {}, UNCHANGED reg)
  /\ UNCHANGED <<ret, li, cycle, remaining, driven, before, remote, local, pcap, summary,
                 rows, busy, nexecs, nbusy>>

\* The old capture is removed; tcpdump may fail to start, which is not checked.
StartCapture ==
  /\ step = "capture"
  /\ Goto("drive")
  /\ Try("capture", pcap' = <<{}>>, pcap' = <<>>)
  /\ UNCHANGED <<ret, li, cycle, remaining, driven, before, reg, remote, local, summary,
                 rows, busy, nexecs, nbusy>>

\* Mutant of Split: the remainder is not spread.
Split_NoExtra(conc) ==
  LET nns == IF conc < NS THEN conc ELSE NS
  IN [i \in 1 .. nns |-> conc \div nns]

\* run_wave: conc connections over at most NS namespaces, -P per namespace.
Split(conc) ==
  LET nns == IF conc < NS THEN conc ELSE NS
  IN [i \in 1 .. nns |->
        (conc \div nns) + (IF i <= conc % nns THEN 1 ELSE 0)]

Conc == IF remaining < MAXCONC THEN remaining ELSE MAXCONC

\* One wave; the clients' exit codes are ignored, those of clients whose
\* namespace is missing or cut off included.
Wave(reach) ==
  /\ step = "drive" /\ remaining > 0
  /\ driven' = driven + SumFunction([i \in reach \cap DOMAIN Split(Conc) |-> Split(Conc)[i]])
  /\ remaining' = remaining - Conc
  /\ reg' = reg \cup {cycle}
  /\ pcap' = IF pcap = <<>> THEN pcap ELSE <<pcap[1] \cup {cycle}>>
  /\ clock' = clock + 1
  /\ UNCHANGED <<step, ret, li, cycle, before, remote, local, summary, rows, busy,
                 nexecs, nbusy>>

\* tcpdump is stopped, and the register dumped.
StopCapture ==
  /\ step = "drive" /\ remaining = 0
  /\ ret' = "fetch"
  /\ Goto("stat_before")
  /\ UNCHANGED <<li, cycle, remaining, driven, before, reg, remote, local, pcap, summary,
                 rows, busy, nexecs, nbusy>>

\* scp, unchecked.
Fetch ==
  /\ step = "fetch"
  /\ Try("scp", local' = remote.data, UNCHANGED local)
  /\ Goto("analyze")
  /\ UNCHANGED <<ret, li, cycle, remaining, driven, before, reg, remote, pcap, summary,
                 rows, busy, nexecs, nbusy>>

\* pcap_buckets.py archives a summary unless it fails (no capture, say); the
\* metrics are scraped from whatever summary of this L there is, and a row is
\* written in any case.  The capture is removed.
Analyze ==
  /\ step = "analyze"
  /\ LET archived == IF pcap = <<>> THEN summary[li]
                     ELSE <<[pcap |-> pcap[1], sw |-> local]>>
     IN Try("analyze", summary' = [summary EXCEPT ![li] = archived], UNCHANGED summary)
  /\ rows' = Append(rows, [L |-> LVALUES[li], cycle |-> cycle, data |-> summary'[li]])
  /\ pcap' = <<>>
  /\ Goto("next")
  /\ UNCHANGED <<ret, li, cycle, remaining, driven, before, reg, remote, local, busy,
                 nexecs, nbusy>>

\* An operator starts or ends a Python shell on the switch (the monitor, say).
Operator ==
  /\ nbusy < MaxBusy \/ busy
  /\ busy' = ~busy
  /\ nbusy' = IF busy THEN nbusy ELSE nbusy + 1
  /\ UNCHANGED <<step, ret, li, cycle, remaining, driven, before, reg, remote, local,
                 pcap, summary, rows, clock, nexecs>>

\* A switch with counts and a CSV of an earlier day: cycle 0.
Init ==
  /\ step = "idle" /\ ret = "next" /\ li = 0 /\ cycle = 0
  /\ remaining = 0 /\ driven = 0 /\ before = 0
  /\ reg = {0} /\ remote = [data |-> {0}, mtime |-> 1] /\ local = {0}
  /\ pcap = <<>> /\ summary = [i \in 1 .. Len(LVALUES) |-> <<>>]
  /\ rows = <<>> /\ busy = FALSE /\ clock = 2 /\ nexecs = 0 /\ nbusy = 0

Script(reach) ==
  \/ Start(reach) \/ StatBefore \/ Dump \/ StatAfter \/ NextL \/ ResetCounts
  \/ StartCapture \/ Wave(reach) \/ StopCapture \/ Fetch \/ Analyze

-----------------------------------------------------------------------------
(* The figures *)

\* The rows that have metrics: the figures skip the others.
Good == {i \in 1 .. Len(rows) : rows[i].data # <<>>}

\* Mutant of load: the first row of an L stays.
load_KeepFirst ==
  [l \in {rows[i].L : i \in Good} |->
     rows[CHOOSE i \in Good : rows[i].L = l /\ \A j \in Good : rows[j].L = l => j >= i]]

\* load of plot_accuracy.py, and the same in plot_overload.py: the last good row
\* of each L.
load ==
  [l \in {rows[i].L : i \in Good} |->
     rows[CHOOSE i \in Good : rows[i].L = l /\ \A j \in Good : rows[j].L = l => j <= i]]

-----------------------------------------------------------------------------
(* Properties *)

\* A row that has metrics compares the capture of its own cycle with the
\* switch's counts of that cycle and of no other: the guards keep stale CSVs,
\* uncleared counters and another shell's interference out of the table.
FreshRows ==
  \A i \in 1 .. Len(rows) :
     LET data == rows[i].data
     IN data # <<>> => /\ data[1].pcap = {rows[i].cycle}
                       /\ data[1].sw = {rows[i].cycle}

\* "so the freshest measurement wins": once a sweep has ended, the figure shows
\* that sweep and nothing of the ones before it, aborted or complete, although
\* they all write to one table.  (An L given twice shows its last measurement.)
FreshFigure ==
  step = "done" =>
     \A i \in 1 .. Len(LVALUES) :
        (\A j \in i + 1 .. Len(LVALUES) : LVALUES[j] # LVALUES[i]) =>
        /\ LVALUES[i] \in DOMAIN load
        /\ load[LVALUES[i]].cycle = cycle - Len(LVALUES) + i
=============================================================================
