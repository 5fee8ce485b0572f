----------------------------- MODULE CidlenSweep -----------------------------
(***************************************************************************)
(* run_cidlen_sweep.sh: one overload sweep per connection ID length, with  *)
(* the server on PC2 restarted for each, skipping lengths that are done.   *)
(*                                                                         *)
(* run_overload.sh is seen from its caller: after its preflight it makes   *)
(* the table, then appends rows for its targets in order, with metrics or  *)
(* without (a failed analysis leaves the fields empty), and may stop       *)
(* before any of them.  A row is the target and the length the server      *)
(* really used.                                                            *)
(***************************************************************************)
EXTENDS Naturals, Sequences, FiniteSets, SequencesExt

CONSTANTS
  CIDLENS,        \* the lengths, in order
  Targets,        \* number of targets of a sweep; the last one is 2^20
  OldLen,         \* 8: its original run lives in 2pow20_overload/
  Failures,       \* the calls that may fail: subset of Calls
  MaxExecs,       \* bound: executions of the script
  MaxInterrupts   \* bound: times the script is killed

Calls == {"pkill", "start", "path", "overload", "analysis"}

\* Without arguments the script takes its default list, so CIDLENS has a length.
ASSUME CidlenAssumption ==
  /\ CIDLENS \in Seq(1 .. 20) /\ CIDLENS # <<>>
  /\ Targets \in Nat \ {0}
  /\ Failures \subseteq Calls
  /\ MaxExecs \in Nat /\ MaxInterrupts \in Nat

VARIABLES
  step,       \* where the script is
  ni,         \* index into CIDLENS
  li,         \* target the overload sweep is at
  server,     \* the -cid-length of the server that runs, 0 if none does
  files,      \* lengths whose own overload_results.csv exists
  results,    \* length -> its rows: [l, server]
  oldDone,    \* 2pow20_overload/ has its endpoint row
  summary,    \* cidlen_summary.csv: [n, l]
  cut,        \* Ctrl-C was pressed in this sweep: its tcpdump and sudo loop are gone
  seen,       \* history: lengths skipped, given up or swept in this execution
  nexecs, nints

vars == <<step, ni, li, server, files, results, oldDone, summary, cut, seen, nexecs,
          nints>>

Lens == Range(CIDLENS)
N == CIDLENS[ni]

\* grep '^1048576,': the endpoint's row is there, with or without metrics.
results_complete(n) == \E i \in 1 .. Len(results[n]) : results[n][i].l = Targets

\* Mutant of length_done: the directory of the original run is forgotten.
length_done_OwnDir(n) == results_complete(n)

length_done(n) == results_complete(n) \/ (n = OldLen /\ oldDone)

May(call) == call \in Failures

-----------------------------------------------------------------------------
(* The script *)

Init ==
  /\ step = "idle" /\ ni = 1 /\ li = 1
  /\ server \in {0} \cup Lens
  /\ files = {} /\ results = [n \in Lens |-> <<>>] /\ oldDone \in BOOLEAN
  /\ summary = <<>> /\ cut = FALSE /\ seen = {} /\ nexecs = 0 /\ nints = 0

Start ==
  /\ step \in {"idle", "done", "killed"} /\ nexecs < MaxExecs
  /\ nexecs' = nexecs + 1
  /\ step' = "length" /\ ni' = 1 /\ seen' = {}
  /\ UNCHANGED <<li, server, files, results, oldDone, summary, cut, nints>>

\* The next length, or the end.
Continue == /\ ni' = ni + 1
            /\ step' = IF ni = Len(CIDLENS) THEN "done" ELSE "length"
            /\ seen' = seen \cup {N}

Skip ==
  /\ step = "length" /\ length_done(N)
  /\ Continue
  /\ UNCHANGED <<li, server, files, results, oldDone, summary, cut, nexecs, nints>>

Begin ==
  /\ step = "length" /\ ~length_done(N)
  /\ step' = "pkill"
  /\ UNCHANGED <<ni, li, server, files, results, oldDone, summary, cut, seen, nexecs, nints>>

\* Mutant of KillServer: the pattern matches no process.
KillServer_NoMatch ==
  /\ step = "pkill" /\ step' = "start"
  /\ UNCHANGED <<server, ni, li, files, results, oldDone, summary, cut, seen, nexecs, nints>>

\* restart_server, first ssh.  It fails without a connection, or when the
\* server belongs to another user; nobody looks at the result.
KillServer ==
  /\ step = "pkill" /\ step' = "start"
  /\ server' = 0 \/ (May("pkill") /\ server' = server)
  /\ UNCHANGED <<ni, li, files, results, oldDone, summary, cut, seen, nexecs, nints>>

\* Second ssh: a server that still holds the port makes the new one fail.
StartServer ==
  /\ step = "start" /\ step' = "probe"
  /\ \/ server' = IF server = 0 THEN N ELSE server
     \/ May("start") /\ server' = server
  /\ UNCHANGED <<ni, li, files, results, oldDone, summary, cut, seen, nexecs, nints>>

\* probe_server: a client generates N-byte IDs of its own, prints the first of
\* them once connected, and its length is compared with N.
Probe ==
  /\ step = "probe" /\ server # 0
  /\ step' = "preflight" /\ li' = 1 /\ cut' = FALSE
  /\ UNCHANGED <<ni, server, files, results, oldDone, summary, seen, nexecs, nints>>

\* Mutant of ProbeFailed: the script gives up.
ProbeFailed_Exit ==
  /\ step = "probe" /\ (server = 0 \/ May("path"))
  /\ step' = "done"
  /\ UNCHANGED <<ni, li, server, files, results, oldDone, summary, cut, seen, nexecs, nints>>

\* Fifteen tries without a connection: this length is left out.
ProbeFailed ==
  /\ step = "probe" /\ (server = 0 \/ May("path"))
  /\ Continue
  /\ UNCHANGED <<li, server, files, results, oldDone, summary, cut, nexecs, nints>>

\* run_overload.sh found sudo, namespaces, path and switch shell in order, and
\* makes the table with its header line unless there is one.
OverloadBegin ==
  /\ step = "preflight" /\ step' = "sweep" /\ files' = files \cup {N}
  /\ UNCHANGED <<ni, li, server, results, oldDone, summary, cut, seen, nexecs, nints>>

\* It writes the row of its next target.
OverloadRow ==
  /\ step = "sweep"
  /\ \E measured \in {<<server>>} \cup (IF May("analysis") \/ cut THEN {<<>>} ELSE {}) :
        results' = [results EXCEPT ![N] = Append(@, [l |-> li, server |-> measured])]
  /\ step' = IF li = Targets THEN "store" ELSE "sweep"
  /\ li' = li + 1
  /\ UNCHANGED <<ni, server, files, oldDone, summary, cut, seen, nexecs, nints>>

\* It exits early: partial results are kept.
OverloadAbort ==
  /\ step \in {"preflight", "sweep"} /\ (May("overload") \/ cut)
  /\ step' = "store"
  /\ UNCHANGED <<ni, li, server, files, results, oldDone, summary, cut, seen, nexecs, nints>>

\* Ctrl-C while run_overload.sh is in front.  Its trap kills tcpdump and the loop
\* that keeps sudo alive but does not exit, so the sweep goes on, and so does the
\* caller, whose child did not die of the signal.
CtrlC ==
  /\ step \in {"preflight", "sweep"} /\ ~cut
  /\ cut' = TRUE
  /\ UNCHANGED <<step, ni, li, server, files, results, oldDone, summary, seen, nexecs, nints>>

\* Mutant of Store: a length is stored once.
Store_Once ==
  /\ step = "store"
  /\ summary' = IF results[N] = <<>> \/ \E i \in 1 .. Len(summary) : summary[i].n = N
                THEN summary ELSE Append(summary, [n |-> N, l |-> Last(results[N]).l])
  /\ Continue
  /\ UNCHANGED <<li, server, files, results, oldDone, cut, nexecs, nints>>

\* The endpoint, or else the last row there is, goes into the summary.
Store ==
  /\ step = "store"
  /\ summary' = IF results_complete(N) THEN Append(summary, [n |-> N, l |-> Targets])
                ELSE IF results[N] = <<>> THEN summary
                ELSE Append(summary, [n |-> N, l |-> Last(results[N]).l])
  /\ Continue
  /\ UNCHANGED <<li, server, files, results, oldDone, cut, nexecs, nints>>

\* load of plot_cidlen.py: the targets drawn for a length, from the first of its
\* directories that has a table, be it only a header line; rows without metrics
\* are left out.  The original run is only kept as its endpoint.
load(n) ==
  IF n \in files THEN {r.l : r \in {x \in Range(results[n]) : x.server # <<>>}}
  ELSE IF n = OldLen /\ oldDone THEN {Targets} ELSE {}

\* The operator runs run_overload.sh by hand, between executions, with its default
\* CIDLEN and OUTDIR, to the end.
OperatorRun ==
  /\ step \in {"idle", "done", "killed"} /\ ~oldDone
  /\ oldDone' = TRUE
  /\ UNCHANGED <<step, ni, li, server, files, results, summary, cut, seen, nexecs, nints>>

\* A closed terminal or a reboot of PC1 at any step, or Ctrl-C where no trap is
\* set: the script ends.
Interrupt ==
  /\ step \notin {"idle", "done", "killed"} /\ nints < MaxInterrupts
  /\ step' = "killed" /\ nints' = nints + 1
  /\ UNCHANGED <<ni, li, server, files, results, oldDone, summary, cut, seen, nexecs>>

Next == \/ Start \/ Skip \/ Begin \/ KillServer \/ StartServer \/ Probe \/ ProbeFailed
        \/ OverloadBegin \/ OverloadRow \/ OverloadAbort \/ CtrlC \/ Store
        \/ OperatorRun \/ Interrupt

Spec == Init /\ [][Next]_vars

-----------------------------------------------------------------------------
(* Properties *)

\* Every row of a length was measured against a server of that length,
\* whichever server an earlier length, execution or operator left running.
OwnLength ==
  \A n \in Lens : \A i \in 1 .. Len(results[n]) :
     results[n][i].server \in {<<>>, <<n>>}

\* A length whose endpoint row is there, in its own directory or the original
\* run's, is left alone, however often the script is killed and started again.
\* (Until then the executions share a table: what an early stop left stays in it.)
NoRework ==
  [][\A n \in Lens : results_complete(n) \/ (n = OldLen /\ oldDone)
        => results'[n] = results[n]]_vars

\* "appends the 2^20 endpoint to cidlen_summary.csv": an execution that ends has
\* been through all lengths, those whose server could not be brought up included;
\* and unless a kill fell between a sweep and its summary line, every length that
\* has an endpoint is in the summary with it, however many partial sweeps of that
\* length went before.
EndpointStored ==
  step = "done" =>
     /\ seen = Lens
     /\ nints = 0 => \A n \in Lens :
          results_complete(n) => [n |-> n, l |-> Targets] \in Range(summary)

\* "It SKIPS any length whose results are already complete": what the script
\* takes for complete is in the figure of the study with its endpoint.
SkippedIsPlotted ==
  \A n \in Lens :
     results_complete(n) \/ (n = OldLen /\ oldDone) => Targets \in load(n)
=============================================================================
