------------------------------ MODULE ByteParity ------------------------------
(***************************************************************************)
(* The byte experiment: what the Go client says it received against what   *)
(* the switch's byte counter says went by.                                 *)
(*                                                                         *)
(* run_bytes_sweep.sh (one flow) and run_bytes_manyflows.sh (all flows)    *)
(* reset the counter, run the client with -single-cid -download, dump and  *)
(* fetch the counter, and let analyze_bytes.py join the two by bucket.     *)
(* The client prints a 17-bit bucket and megabytes with two decimals; the  *)
(* counter has a 15-bit index.  The client's generators are CidGenerator.  *)
(* An execution stands for one size of the sweep, whose files an earlier   *)
(* execution with that size may have left; PC1's switch_bytes.csv is one   *)
(* file for all of them, and comes with the repository.                    *)
(* With ~singleBucket a client is started by hand and no script runs.      *)
(***************************************************************************)
EXTENDS CidGenerator, Integers, FiniteSetsExt

CONSTANTS
  Slots,         \* slots of quic_flow_bytes: 2^15
  DefaultSlots,  \* what analyze_bytes.py folds with unless told: 2^10
  Quantum,       \* bytes in 0.01 MB
  Payload,       \* bytes of stream data in a data packet
  Header,        \* bytes of headers on the wire; a packet without data is that
  flowSize,      \* flow -> bytes asked for, in data packets
  TopK,          \* --topk
  Shipped,       \* the switch_bytes.csv of a fresh clone: slot -> bytes
  MaxOther,      \* bound: lost, retransmitted, control and foreign packets
  MaxExecs       \* bound: executions of the scripts

VARIABLES
  script, step,     \* the script running and what it does next
  exec,             \* executions so far: a time stamp for the files
  quic_flow_bytes,  \* slot -> bytes
  others,           \* packets of MaxOther used
  recv,             \* flow -> bytes read from its stream
  log,              \* flow -> [bucket, mb]: its two lines, <<>> if missing
  switch,           \* switch_bytes.csv on PC1: slot -> bytes
  fetched,          \* the execution whose counter that is; 0: the clone's
  diff,             \* script -> its diff CSV: whose rows, [exec, slots]; exec 0: none
  results           \* rows of the sweep's table, points of the plot: [script, by, of]

fileVars == <<switch, fetched, diff, results>>
wireVars == <<quic_flow_bytes, others, recv>>
byteVars == <<script, step, exec, log, wireVars, fileVars>>
allVars == <<genVars, byteVars>>

Scripts == {"sweep", "many"}

ASSUME ByteAssumption ==
  /\ {Slots, DefaultSlots, Quantum, Payload, Header} \subseteq Nat \ {0}
  /\ NBuckets % Slots = 0 /\ Slots % DefaultSlots = 0
  /\ Flows \subseteq Nat /\ IsFiniteSet(Flows) /\ 0 \in Flows
  /\ DOMAIN Shipped \subseteq 0 .. Slots - 1 /\ \A s \in DOMAIN Shipped : Shipped[s] \in Nat

\* FLOWS is 1 in the sweep and P in the other script.
Driven == IF script = "sweep" THEN {0} ELSE Flows

\* --counter-bits: the sweep leaves the default.
FoldSlots == IF script = "sweep" THEN DefaultSlots ELSE Slots

-----------------------------------------------------------------------------
(* analyze_bytes.py *)

\* The flows with both lines; the others are warned about and left out.
flows == {f \in Flows : log[f].bucket # <<>> /\ log[f].mb # <<>>}

ctr_idx(f) == log[f].bucket[1] % FoldSlots

flowsIn(s) == {f \in flows : ctr_idx(f) = s}

\* parse_client_log: delivered bytes by counter slot, those of a slot summed.
bucket_bytes == [s \in {ctr_idx(f) : f \in flows} |->
                   SumFunction([f \in flowsIn(s) |-> log[f].mb[1]])]

matched == DOMAIN bucket_bytes \cap DOMAIN switch
app_only == DOMAIN bucket_bytes \ DOMAIN switch

\* delta of a matched slot; the relative error is delta / app_bytes.
delta(s) == switch[s] - bucket_bytes[s]

\* Mutant of rank_map: lightest first.
rank_map_Ascending(v, order) ==
  [s \in DOMAIN v |-> 1 + Cardinality({c \in DOMAIN v :
     v[c] < v[s] \/ (v[c] = v[s] /\ order[c] < order[s])})]

\* rank_map: heaviest first; the sort is stable, so ties keep the order in which
\* the dictionary was filled: by flow in the log, by slot in the CSV.
rank_map(v, order) ==
  [s \in DOMAIN v |-> 1 + Cardinality({c \in DOMAIN v :
     v[c] > v[s] \/ (v[c] = v[s] /\ order[c] < order[s])})]

app_rank == rank_map(bucket_bytes, [s \in DOMAIN bucket_bytes |-> Min(flowsIn(s))])
sw_rank == rank_map(switch, [s \in DOMAIN switch |-> s])

top(rank) == {s \in DOMAIN rank : rank[s] <= TopK}
overlap == top(app_rank) \cap top(sw_rank)
exact == {s \in overlap : app_rank[s] = sw_rank[s]}

\* plot_bytes.py: the switch's other slots are drawn as control traffic.
control == DOMAIN switch \ diff[script].slots

-----------------------------------------------------------------------------
(* Actions *)

ByteInit ==
  /\ GenInit
  /\ script = "none" /\ step = (IF singleBucket THEN "idle" ELSE "byhand")
  /\ exec = 0 /\ others = 0
  /\ quic_flow_bytes = [s \in 0 .. Slots - 1 |-> 0]
  /\ recv = [f \in Flows |-> 0]
  /\ log = [f \in Flows |-> [bucket |-> <<>>, mb |-> <<>>]]
  /\ switch = Shipped /\ fetched = 0
  /\ diff = [s \in Scripts |-> [exec |-> 0, slots |-> {}]]
  /\ results = {}

\* A script starts: its preflight dump has refreshed the remote CSV.
Preflight(s) ==
  /\ step = "idle" /\ exec < MaxExecs
  /\ script' = s /\ step' = "reset" /\ exec' = exec + 1
  /\ UNCHANGED <<genVars, wireVars, log, fileVars>>

\* reset_counts.py ends; the client starts and its log is opened afresh.
ResetCounts ==
  /\ step = "reset"
  /\ quic_flow_bytes' = [s \in 0 .. Slots - 1 |-> 0]
  /\ recv' = [f \in Flows |-> 0]
  /\ log' = [f \in Flows |-> [bucket |-> <<>>, mb |-> <<>>]]
  /\ step' = "client"
  /\ UNCHANGED <<genVars, script, exec, others, fileVars>>

\* The switch shell is stuck: the script exits.
Abort ==
  /\ step \in {"reset", "dump"}
  /\ step' = "idle"
  /\ UNCHANGED <<genVars, script, exec, log, wireVars, fileVars>>

Count(s, n) == quic_flow_bytes' = [quic_flow_bytes EXCEPT ![s] = @ + n]

\* Dial returns: a server packet to the first ID has crossed the switch, and
\* the bucket of that ID is printed.
Connect(f) ==
  /\ step = "client" /\ f \in Driven
  /\ Connected(f)
  /\ \E d \in Fields :
        Shows(d, first[f][1]) /\ Count(MeasuredBucket(d, first[f][1]) % Slots, Header)
  /\ log' = [log EXCEPT ![f].bucket = <<p4Bucket(first[f][1])>>]
  /\ UNCHANGED <<script, step, exec, others, recv, fileVars>>

\* The server pushes a data packet, on any ID the client has issued.
Push(f) ==
  /\ step = "client" /\ printed[f] # <<>> /\ log[f].mb = <<>>
  /\ recv[f] < Payload * flowSize[f]
  /\ \E id \in issued[f], d \in Fields :
        Shows(d, id) /\ Count(MeasuredBucket(d, id) % Slots, Header + Payload)
  /\ recv' = [recv EXCEPT ![f] = @ + Payload]
  /\ UNCHANGED <<genVars, script, step, exec, log, others, fileVars>>

\* A packet that brings no stream any further: lost behind the switch, a
\* retransmission, an ACK, the other direction.
Other(s, n) ==
  /\ step = "client" /\ others < MaxOther
  /\ others' = others + 1 /\ Count(s, n)
  /\ UNCHANGED <<genVars, script, step, exec, log, recv, fileVars>>

\* "%.2f": the nearest hundredth of a megabyte, either one at a tie.
Decimals(n) == {k * Quantum : k \in {n \div Quantum, n \div Quantum + 1}}
                 \cap {m \in 0 .. n + Quantum : 2 * (m - n) <= Quantum /\ 2 * (n - m) <= Quantum}

\* The stream ends, complete or broken off, and what was read is printed.
Delivered(f) ==
  /\ step = "client" /\ printed[f] # <<>> /\ log[f].mb = <<>>
  /\ \E m \in Decimals(recv[f]) : log' = [log EXCEPT ![f].mb = <<m>>]
  /\ UNCHANGED <<genVars, script, step, exec, wireVars, fileVars>>

\* The client process ends.  A flow that could not dial or open its stream has
\* no "MB delivered" line; without any such line the script exits.
ClientExit ==
  /\ step = "client"
  /\ \A f \in Flows : recv[f] > 0 => log[f].mb # <<>>
  /\ step' = IF \E f \in Flows : log[f].mb # <<>> THEN "dump" ELSE "idle"
  /\ hasTarget' = [f \in Flows |-> FALSE] /\ targetBucket' = [f \in Flows |-> 0]
  /\ call' = [f \in Flows |-> "none"] /\ target' = [f \in Flows |-> 0]
  /\ issued' = [f \in Flows |-> {}]
  /\ first' = [f \in Flows |-> <<>>] /\ printed' = [f \in Flows |-> <<>>]
  /\ UNCHANGED <<singleBucket, script, exec, log, wireVars, fileVars>>

\* Mutant of FetchCounter: the dump takes the slots above a threshold.
FetchCounter_Threshold ==
  /\ step = "dump"
  /\ switch' = [s \in {t \in 0 .. Slots - 1 : quic_flow_bytes[t] > Header} |->
                  quic_flow_bytes[s]]
  /\ fetched' = exec /\ step' = "analyze"
  /\ UNCHANGED <<genVars, script, exec, log, wireVars, diff, results>>

\* dump_bytes.py writes the nonzero slots and scp fetches them.
FetchCounter ==
  /\ step = "dump"
  /\ switch' = [s \in {t \in 0 .. Slots - 1 : quic_flow_bytes[t] > 0} |->
                  quic_flow_bytes[s]]
  /\ fetched' = exec /\ step' = "analyze"
  /\ UNCHANGED <<genVars, script, exec, log, wireVars, diff, results>>

\* scp fails; nothing looks at its status and the old file is analyzed.
FetchFails ==
  /\ step = "dump"
  /\ step' = "analyze"
  /\ UNCHANGED <<genVars, script, exec, log, wireVars, fileVars>>

\* main of analyze_bytes.py: the diff is only written if something matched.
Analyze ==
  /\ step = "analyze"
  /\ diff' = IF matched = {} THEN diff
             ELSE [diff EXCEPT ![script] = [exec |-> exec, slots |-> matched]]
  /\ step' = "append"
  /\ UNCHANGED <<genVars, script, exec, log, wireVars, switch, fetched, results>>

\* The sweep appends a row of whatever diff file is there (that with the most
\* application bytes: with one flow there is one); the other script plots all.
RecordRow ==
  /\ step = "append"
  /\ LET rows == {[script |-> script, by |-> exec, of |-> diff[script].exec] :
                    s \in diff[script].slots}
     IN  results' = IF script = "sweep" THEN results \cup rows
                    ELSE {r \in results : r.script = "sweep"} \cup rows
  /\ step' = "idle"
  /\ UNCHANGED <<genVars, script, exec, log, wireVars, switch, fetched, diff>>

ByteNext ==
  \/ \E f \in Flows :
       \/ /\ step = "byhand" \/ (step = "client" /\ f \in Driven)
          /\ GenCall(f) /\ UNCHANGED byteVars
       \/ step = "byhand" /\ Connected(f) /\ UNCHANGED byteVars
       \/ Connect(f) \/ Push(f) \/ Delivered(f)
  \/ \E s \in 0 .. Slots - 1, n \in {Header, Header + Payload} : Other(s, n)
  \/ \E s \in Scripts : Preflight(s)
  \/ ResetCounts \/ Abort \/ ClientExit \/ FetchCounter \/ FetchFails \/ Analyze \/ RecordRow

ByteSpec == ByteInit /\ [][ByteNext]_allVars

-----------------------------------------------------------------------------
(* Properties *)

\* The fold of the analysis is the fold of the switch for every printed bucket.
Aligned == \A f \in flows : ctr_idx(f) = log[f].bucket[1] % Slots

\* This execution's counter is on PC1 and folded as the switch folds.
Joined == step = "append" /\ fetched = exec /\ Aligned

\* When this execution's counter was fetched and the folds agree, no flow that
\* delivered is missed by the data plane or drawn as control traffic, and no
\* slot falls short of what its flows received by more than the two decimals of
\* their lines: a negative error would be "a real accounting problem".
NoUndercount ==
  Joined =>
    /\ app_only = {} /\ control \cap DOMAIN bucket_bytes = {}
    /\ \A s \in matched :
          2 * delta(s) >= 0 - Quantum * Cardinality(flowsIn(s))

\* Bytes the switch counted in a slot beyond what its flows received.
excess(s) == switch[s] - SumFunctionOnSet(recv, {f \in flows : log[f].bucket[1] % Slots = s})

\* The ranking can be trusted where the gap is wide enough: a slot whose volume
\* exceeds that of another by more than that one's overhead and the decimals of
\* both is ranked before it by the application and by the switch, and the
\* heaviest such slots are the switch's too.
RankingAgrees ==
  Joined =>
    LET app(s) == IF s \in matched THEN bucket_bytes[s] ELSE 0
        slack(s) == Quantum * Cardinality(flowsIn(s))
        clear(s, t) == 2 * (app(s) - app(t) - excess(t)) > slack(s) + slack(t)
    IN  /\ \A s \in matched, t \in DOMAIN switch :
              clear(s, t) => sw_rank[s] < sw_rank[t] /\ (t \in matched => app_rank[s] < app_rank[t])
        /\ \A s \in matched :
              (app_rank[s] <= TopK /\ \A t \in DOMAIN switch \ {s} : clear(s, t)) => s \in exact

\* analyze_bytes.py says that it folds the printed bucket through the counter's
\* own mask, "so the join lands on the counter's index space".  (The sweep folds
\* with the default, which is narrower.)
JoinLands == step = "analyze" => Aligned

\* run_bytes_sweep.sh appends "the matched bucket row(s)" of the join and warns
\* when a run has none: no row comes from a file an earlier execution left.
\* (analyze_bytes.py does not write the file when nothing matched.)
AppendsThisRun == \A r \in results : r.script = "sweep" => r.of = r.by
=============================================================================
