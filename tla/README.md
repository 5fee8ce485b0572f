# P4-QUIC: specifications, model checking and proofs

TLA+ modules for the P4-QUIC measurement system: a Tofino pipeline that counts
QUIC packets per connection ID, the control and monitoring scripts on the
switch, the traffic generators, the offline replica of the pipeline, and the
shell scripts that drive the experiments.

## The system

| part | state | operations | talks to |
|---|---|---|---|
| ingress pipeline (`p4src/`) | `dcid_len_reg`, `quic_pkt_count`, `quic_flow_bytes`, `cfg_tbl`, `forwarding`, digests | one packet: parse, learn or recall the length, mask, hash, count, digest, forward | driver (digests, tables, registers) |
| control scripts (`setup.py`, `reset_counts.py`, `set_*.py`) | none; one Python shell at a time | sequences of driver calls | switch |
| dumps (`dump_buckets.py`, `count_buckets.py`, `dump_bytes.py`, `count_lens.py`) | rows read so far | cell-by-cell read, filter, CSV | switch |
| live views (`poll_quic.py`, `display_quic.py`) | last values and last activity per slot; lines printed | slot-by-slot poll, delta, idle timeout; register a callback, print each digest | switch, driver |
| `quic_monitor.py` | dictionaries `ctr_dcid`, `bucket_dir`, `bucket_ckey`; poll state | digest callback (driver thread), poll loop (main thread) | switch |
| `pcap_buckets.py` | capture ranges, learned lengths, accumulators | detect ranges, learn phase, bucket phase, merge; worker pool | capture, switch CSV |
| `analyze_pcap.py`, `endpoint_buckets.py` | none | what tshark lists per ID, flow and endpoint, compared with the switch | capture, monitor |
| Go client, CID generator | target bucket per flow | `GenerateConnectionID`, `firstCID` | quic-go, switch (the bucket) |
| Go client and server | per-flow counts, results channel, aggregates | dial, write/read, reply, fallback, collect; accept, read, echo, push | each other over QUIC |
| aioquic client and server | per-flow counts, `_stream_bytes` | send, STATS request, reply, timeout, gather | each other over QUIC |
| `run_sweep.sh`, `run_overload.sh` | files on two hosts, results table | reset, capture, drive, dump, fetch, analyse | all of the above |
| `topo_pc1.py` | namespaces, veth pairs, bridge, addresses | setup, clean: lists of `ip` commands | the clients of `run_overload.sh` |
| byte experiment (`run_bytes_sweep.sh`, `run_bytes_manyflows.sh`, `analyze_bytes.py`) | client log, counter CSV, diff CSV, results | reset, client, dump, join by bucket, rank, append or plot | Go client, switch |
| figures (`plot_*.py`) | none | which rows of the tables are drawn | results tables |
| `run_cidlen_sweep.sh` | per-length tables, summary | skip, restart, probe, sweep, store | server host, `run_overload.sh` |

What is hard here: packets interleave with multi-call scripts; the meaning of a
short header depends on an earlier packet of its flow; the digest is sent once
and may be lost; the monitor's two threads share dictionaries; figures come from
replies that race timeouts; drivers ignore most exit codes and are run again
after failures. `PROJECT.json` lists the hazards by line.

What makes each part correct: the pipeline counts every packet under its
connection ID and never hashes ciphertext; scripts leave a consistent switch;
dumps and the monitor show what the registers hold; the replica equals the
switch and tshark; the traffic generators report what was delivered and end; a results row
compares one cycle's capture with the same cycle's counters; the byte join neither
misses a flow nor shows less than it received; the topology can be set up and
cleaned in any order; a figure shows the last good measurement.

## Modules

| module | models | composes |
|---|---|---|
| `QuicMask` | the 20-byte field, `mask_tbl`, `set_mask` | |
| `QuicSwitch` | pipeline, digest driver, control scripts | `QuicMask` |
| `QuicReset` | how far `reset_counts.py` drives register and counter apart: a history of its window | `QuicSwitch` |
| `QuicFlowCount` | abstract: each packet that crosses is charged to the connection ID it carries | |
| `QuicPath` | the switch in a measurement wave (endpoints that shake hands first, resets between waves) | `QuicSwitch`; refines `QuicFlowCount` |
| `QuicDumps` | register dumps under traffic | `QuicSwitch` |
| `QuicViews` | `poll_quic.py`, `display_quic.py` next to dumps and scripts | `QuicDumps` |
| `QuicMonitor` | `quic_monitor.py` on a live switch | `QuicPath` |
| `PcapBuckets` | `pcap_buckets.py` on a capture taken next to the switch | `QuicSwitch` |
| `GroundTruth` | `analyze_pcap.py`, `endpoint_buckets.py`, the report and cross-check of `pcap_buckets.py` | `PcapBuckets` |
| `CidGenerator` | `-single-cid` generator and the bucket the client prints | `QuicMask` |
| `ByteParity` | the byte experiment: both scripts, `analyze_bytes.py`, what `plot_bytes.py` draws | `CidGenerator` |
| `GoPerf` | Go client and server | |
| `AioPerf` | Python client and server | |
| `SweepDriver` | `run_sweep.sh`, `run_overload.sh` | |
| `Topology` | `topo_pc1.py` under repeated sweeps | `SweepDriver` |
| `CidlenSweep` | `run_cidlen_sweep.sh`, what `plot_cidlen.py` reads | |
| `OperatorProofs` | lemmas about the mask, finite sets, sums and recursion over an interval | `QuicMask` |
| `QuicSwitchProofs`, `QuicPathProofs`, `ByteParityProofs`, `GoPerfProofs`, `CidlenSweepProofs`, `TopologyProofs` | theorems about the module of the name; `QuicPathProofs` also about `QuicMonitor`, `ByteParityProofs` about `CidGenerator`, `CidlenSweepProofs` about `AioPerf`, `TopologyProofs` about `SweepDriver` | `OperatorProofs` |
| `QuicReaderProofs` | theorems about what reads the switch: `QuicDumps`, `QuicViews`, and offline `PcapBuckets`, `GroundTruth` | `QuicSwitchProofs` |
| `MC*` | instances for TLC | |

How state and actions correspond to the code:

* **QuicSwitch.** `Process(p)` is the whole of `Ingress.apply` for one packet:
  `eff_len` (steps 1-5), `flow_id` (6-7), `Learn`, `Count` with the digest (9),
  and `Egress` for `forwarding`. Registers are functions from index to value;
  `quic_pkt_count` wraps at `CntMod` (2^32), lengths are bytes, the counter of 64
  bits is a natural number. The two CRCs are arbitrary functions (`CRC16`,
  `CRC32`). A packet is a record of what the parser branches on, the field that
  is on the wire behind the header (`dcid`), and the true connection ID (`cid`),
  which the pipeline never reads. Every driver call of a script is a step
  (`SetupClear`, `SetupForward` twice, `SetupArm`, ..., `ResetPktCount`,
  `ResetFlowBytes`, `ResetLens`); `shell` is the one Python shell that only lets
  one script run. `Deliver` hands the oldest digest to the registered callback;
  without one, an error is logged (`nolearn`).
* **QuicPath.** `open` holds the 4-tuples whose Handshake has crossed. `Send`
  restricts `Process` to short headers of open flows; resets happen with no open
  flow, as `run_sweep.sh` does it. `crossed` records the QUIC packets with the IDs
  they carry; `QuicFlowCount` appends to it in the step in which it charges a
  packet, so the refinement leaves no room for a packet that is charged to another
  ID, counted twice or not counted.
* **QuicDumps.** `DumpBegin`, one `ReadCell` per cell of the sync, `DumpEnd` with
  the filter of the script (`Kept`).
* **QuicViews.** A poll is `PollAgain`, one `PullSlot` per slot, `PollPrint`; the
  first pull is the warm-up, and `PollStop` is the `pkill`. Rates become the
  deltas they are computed from. `DisplayStart` registers the callback over
  whatever is there, `on_quic_digest` is the driver's call, and `DisplayKill`
  ends the shell without deregistering.
* **QuicMonitor.** The callback is two steps (`OnDigest` files the DCID,
  `OnDigestEndpoint` the 4-tuple) because a poll may run between; the poll loop
  is read, iterate key by key, group. `MonFatal` is the exception of an iterator
  whose dictionary has grown. `MonStop` is Ctrl-C in the poll loop, which runs
  `finally`; `MonKill` is the `pkill` its banner recommends, or Ctrl-C before the
  `try`, after which the callback stays registered for nobody (`DigestLost`). A
  packet is `Rotated` if its flow's Handshake carried another ID.
* **PcapBuckets.** `Detect` picks the ranges, workers learn and bucket in any
  order, `LearnDone` and `BucketDone` merge. The capture is the list of packets
  the switch processed.
* **GroundTruth.** Pure operators on a finished `PcapBuckets` state: `dcid_info`
  and `compare_with_p4` of `analyze_pcap.py`, `agg` of `endpoint_buckets.py`, and
  `separated`, `sw_only`, `pc_only` of the report. `Coalesced` says how many
  further QUIC packets a datagram holds, `Tracked` for which short headers tshark
  knows the ID; the others are blank in its output (`Listed`). `p4_buckets_seen` is
  what `quic_monitor.py` logs: the raw index of a counting slot it has an ID for.
* **CidGenerator.** `Enter` is the first critical section, `FirstId`, `SearchId`,
  `AnyId` the three ways a call ends, `RandError` the fourth, `Connected` prints.
* **ByteParity.** `Preflight` to `RecordRow` are the stages of one execution of
  either script; while the client runs, its generators (`GenCall`), `Connect`,
  `Push`, `Other` and `Delivered` interleave. `Decimals` is the `%.2f` of the
  client's line, `ctr_idx` the fold of `analyze_bytes.py`, `rank_map` its stable
  sort. Bytes are small numbers: a header, a payload and a quantum. `FetchFails` is
  an `scp` that fails unnoticed: the file on PC1 stays that of an earlier execution
  or of the clone (`Shipped`), which `fetched` tells.
* **GoPerf.** One action per step of `runFlow` and of the server's handlers. A
  Write blocks while the transport takes its bytes (`WriteByte`, `PushByte`) and
  counts them only when it returns; a connection may fail at any moment.
* **AioPerf.** An action is the code between two awaits or one event handler; the
  data stream and the STATS stream are not ordered.
* **SweepDriver, CidlenSweep.** One action per line that crosses ssh or changes a
  file; `Failures` names the calls that may fail without notice. Data is the set
  of cycles (or the server's length) it stems from. `load` is what a plot reads
  of the table. In `CidlenSweep` the table exists from `OverloadBegin` on, if only
  with its header (`files`); `CtrlC` is the trap of `run_overload.sh` that does not
  exit, `Interrupt` what really ends the script, `OperatorRun` the original run.
* **Topology.** `setup` and `clean` are sequences of commands, `Command` runs the
  next one, `Kill` drops the rest; `Host` and `Effect` say what the kernel makes
  of a command, which is nothing if it fails. A sweep counts the connections of
  namespaces that reach the switch only (`Reaching`).

## Runs

Passing runs:

| run | shows | bounds |
|---|---|---|
| `switch` | types; lengths only from Handshakes; buckets of the ID or of the empty mask; register and counter differ by exactly the packets of the reset window; transparency; `setup.py` completes | 3 packets in flight order of choice, scripts at any point, `CntMod` small so that cells wrap |
| `path` | `PathInv`; refinement of `QuicFlowCount` | 4 packets, 2 scripts; an ID that is rotated to in mid-flow |
| `dumps` | torn dumps bracket true counts; the deltas of polls add up; a slot that moved is printed; the display's lines are the buckets that started counting, with the bytes of the digest | 3 packets, 2 scripts, 2 polls, idle timeout of one poll, `MinCount` 2 |
| `monitor` | slots known from long headers attributed rightly; all but those of rotated IDs identified, eventually; every poll ends | 3 packets, one of them under a rotated ID, 2 polls, 2 script starts, buckets below the fold |
| `pcap` | replica equals the switch on orderly captures and is off by unlearned packets on others; sharded equals serial; what tshark lists and leaves blank adds up to the registers; the cross-check is quiet | 5 packets in any order, 1 to 3 workers, one coalesced datagram, two IDs in one bucket, captures tshark cannot follow |
| `bytes` | one printed bucket per connection; where the counter was fetched and the folds agree no flow is missed or short, clear gaps rank alike | 2 flows of one data packet, 4 IDs of which two buckets fold into one slot, one packet without progress, 2 executions of either script, `scp` failing |
| `goperf` | exact replies, no under-reporting, totals agree, everything ends, no leak | 2 flows, sizes below and above a chunk, both directions, both modes |
| `aioperf` | no figure above what was queued or, if it is the server's, received; the client ends | 2 flows, a full and a partial piece |
| `sweep` | rows and figures of their own cycle; exact waves; setup and clean repair each other | 2 values of L, 2 sweeps, failing dumps, another shell twice; 3 executions of `topo_pc1.py` with 2 or 3 senders, killed anywhere |
| `cidlen` | own length; endpoints stored and no length left out; a finished table is left alone | 2 lengths, 3 executions, 1 kill, Ctrl-C in every sweep, every failure but `pkill` |

Why the bounds are enough: packets are independent apart from the two registers
they meet in, so a wave needs an Initial, a Handshake and short headers of one
flow plus a packet of another flow to show every interaction of two packets with
a script between; both sides of every boundary (mask length 0 and above 20, fold,
wrap, chunk, wave, filter, quantum, idle timeout) are in the instances. Two
executions are enough for a file of one to be met by another, three executions of
`topo_pc1.py` for a kill between two others.

Runs that refute a statement of the repository (each has a finding in
`PROJECT.json` that quotes it):

| run | statement | what happens |
|---|---|---|
| `monitor_fold` | the byte counter index has 10 bits | it has 15: slots above the fold stay unidentified |
| `cidlen_probe` | the probe sees the server's length | it sees the client's own; a server that survives `pkill` is measured under the wrong length |

### Other statements of the repository that the code does not keep

Each is a formula of the module named, outside the configurations that are run
with every change: put it into the cfg named, as its one INVARIANT (the two of
`QuicSwitch` as its one PROPERTY), and TLC shows a violation within a minute.

| formula | cfg | statement | what the trace shows |
|---|---|---|---|
| `PktCountServerToClient` (`QuicSwitch`) | `MCSwitch` | `README.md:289-290`: "`quic_pkt_count` (a register) increments for server→client packets"; likewise `ingress.p4:50` | a client's packet counts: `ingress.p4:221` is under the QUIC test only |
| `DigestPerPacket` (`QuicSwitch`) | `MCSwitch` | `display_quic.py:73`: "digest fires once per QUIC packet received by the switch"; likewise `headers.p4:86` | the second packet of a bucket sends none (`ingress.p4:222`) |
| `Coalescable` (`QuicMonitor`) | `MCMonitor` | `plots/system_description.txt:222-223`: "the control plane can coalesce a connection's buckets by 4-tuple from the digests" | the first packet of a rotated ID is a short header; its digest says length 20, so the ID's slot gets no endpoint (`quic_monitor.py:57`) |
| `OtherLengthsMisread` (`GroundTruth`) | `MCPcap` | `analyze_pcap.py:146`: "P4 will read wrong bytes" of an ID that is not 20 bytes long; likewise `:171` | the switch masks to the ID's length and counts it in its own bucket |
| `NoneMissed` (`GroundTruth`) | `MCPcap` | `analyze_pcap.py:170`: "DCIDs with 20-byte CID → P4 will identify correctly", by an index "as P4 would compute" (`:49`) | `--compare` folds to 10 bits, the log names 15-bit slots (`quic_monitor.py:249`): an ID that was identified is reported as missed |
| `JoinLands` (`ByteParity`) | `MCBytes` | `analyze_bytes.py:59-60`: "so the join lands on the counter's index space"; `ingress.p4:47` asks for `--counter-bits 15` | `run_bytes_sweep.sh:126` leaves the fold at 10 bits |
| `AppendsThisRun` (`ByteParity`) | `MCBytes` | `run_bytes_sweep.sh:123`: "append the matched bucket row(s)", and a warning at `:134` if there is none | nothing matched, so no file is written (`analyze_bytes.py:273`), and an earlier execution's row is appended again |
| `SkippedIsPlotted` (`CidlenSweep`) | `MCCidlen` | `run_cidlen_sweep.sh:11-12`: "It SKIPS any length whose results are already complete" | a row without metrics counts as complete (`:55`) and `plot_cidlen.py:38` drops it |

### Known limits of the code that the models reproduce

Each of these is a behaviour of the model; the passing runs keep to the
conditions under which the stated property holds.

* Monitor: a digest of a new slot that arrives while the poll loop iterates
  `ctr_dcid` ends it (`MonFatal`); leaving removes the callback of `setup.py`
  (`Leave`), killing it leaves its own behind (`MonKill`). A digest fired by a short
  header says length 20: when a connection changes to another ID, which the
  repository calls normal, the slot filed is one the switch may never count in,
  and the one it counts in stays "pending digest" (`Coalescable`). Slots that
  counted before the callback came are never identified (`base`).
* `poll_quic.py` and `display_quic.py`: the display announces a line per QUIC
  packet, it prints one per bucket (`DigestPerPacket`); the line of a short header
  shows 20 bytes of field, ciphertext included; it never deregisters its callback,
  so digests after its end go nowhere until `setup.py` runs again.
* Length register: two flows with one 16-bit key and two lengths overwrite each
  other's (`KeyAssumption` and `Comparable` exclude it). A 32-bit cell that wraps
  sends a second digest.
* `pcap_buckets.py` learns every length before it buckets, the switch does not:
  `ParityUpToLearning` says exactly how far they may be apart. Its check for an
  ID in two buckets cannot fire, since its key is the hashed byte string.
  `analyze_pcap.py` marks every ID that is not 20 bytes long as one the switch
  will misread, which holds for the naive arm only (`OtherLengthsMisread`), and
  compares a 10-bit fold with the raw slots of the log (`NoneMissed`).
* Byte experiment: `analyze_bytes.py` folds to 10 bits unless told otherwise, and
  `run_bytes_sweep.sh` does not tell it. A flow whose bucket has a bit of 0x7C00
  set then has no match, or the wrong one (`JoinLands`); if nothing matches, no diff
  is written and the row appended is that of an earlier execution of this size
  (`AppendsThisRun`). An `scp` that fails is not noticed (`FetchFails`). `Joined`,
  this execution's counter was fetched and the folds agree, is the condition under
  which `NoUndercount` and `RankingAgrees` hold. A server too old for `-download`
  delivers "0.00 MB", which passes the check for a line.
* Topology: `clean` covers 64 namespaces or `-n`, whichever is more, so a larger
  setup needs the same `-n` to be cleaned. A pair left in the root namespace by a
  kill stays until the next setup moves it. The preflight of `run_overload.sh`
  looks at `hs1` only: with fewer or cut-off senders a sweep drives fewer than L
  connections and records a row all the same (`WavesExact` has the condition).
* Go client: "MB delivered" is the client's own count when no reply comes, and
  may miss part of a Write that failed; `-n 0` without `-t` writes until the
  connection fails. Python client: STATS may be answered
  before data that was queued earlier.
* Sweeps: a failing first `stat`, `scp` or `reset`, or on a repeated execution a
  failing capture or analysis, puts a stale row into the table (set `Failures` in
  `MCSweep.cfg` accordingly and `FreshRows` fails).
* Length study: an endpoint row without metrics counts as complete and is skipped
  for ever, though the figure has nothing for it; a table of header or partial rows
  in `cid08_overload/` hides the original run from the figure (`SkippedIsPlotted`).
  Ctrl-C does not end a sweep: it goes on without capture (`CtrlC`). An execution
  appends to what an early stop left in a table. A kill between a sweep and its
  summary line loses the line for good.

`CHECK_DEADLOCK FALSE` is set throughout: traffic, executions and polls are
bounded, and the programs do end.

### Fairness

* `switch`: the driver delivers the digests it holds, and a batch script that has
  the shell runs to its end (`bfshell -b`). Nothing is assumed of packets.
* `monitor`: the driver's thread and the main thread are both scheduled by Python.
* `goperf`: goroutines are scheduled (weak fairness per flow, for client and
  server), timers fire; nothing is assumed of the network. The closing of a
  connection by a flow that has reported stands also for the server's idle
  timeout, if `main` returns first.
* `aioperf`: the client's loop runs and its five second timer fires. Nothing is
  assumed of the server or of the path.

## Proofs

All are for arbitrary constants; tlapm checks every leaf. A theorem that needs
more than the named assumptions of the model says so in its `ASSUME`. The
inductive invariants were model-checked on the instances of the runs before they
were proved.

* `OperatorProofs`: `MaskKeepsCid` (masking with the ID's length leaves the ID,
  zero-padded, whatever follows it) from the 21 rows of the table
  (`RowKeepsPrefix`); `MaskDropsAll` for length 0 and lengths beyond the table.
  `SubsetInduction` is induction over the subsets of a finite set with the
  property given as a set, which the provers can use; from it follow the facts
  about `SumFunctionOnSet` (`SumRecursion`, `SumInsert`, `SumSame`, `SumClose`, ...)
  that the totals need. `IntervalInduction` and `RecursionExists` do the same for
  an interval of numbers: a recursive function on `0 .. n` with a given step
  exists and has the values its step dictates, which is what a `LET` recursion in
  the model needs before anything can be said of its result. `SumFibres`,
  `CardParts`: counting a set part by part.
* `QuicSwitchProofs`: `TypeCorrect`; `LearnedInvariant`, inductive with the type
  invariant: only `Learn` writes the register, only for Handshakes, and a reset
  writes 0; `AwareInvariant` from it: in the aware arm the length used is the
  wire's, a Handshake's or 0, and by the mask theorems the hash input is the
  padded ID or nothing. `CountersInvariant`, for `QuicReset`: a counter slot against the
  sum of the buckets folded onto it; they differ by exactly the packets `window`
  has recorded, which is an equation in both directions. It needs `CellsBounded`, no cell has outrun the packets, to know that none has wrapped
  where the property speaks of fewer than 2^32 packets. `TransparentInvariant`
  from `WiredInv`, which says how much of the table is written at each step of
  `setup.py`: the callback is registered last, so a callback means a full table.
* `QuicPathProofs`: `PathInvariant`, and from it `PathImplementsCounting`, the
  refinement of `QuicFlowCount`, in which every packet is charged to its own ID in the step in
  which it crosses. `PathInv` is the strengthening: without "an open
  flow's length is in the register" a short header could be counted elsewhere,
  without "resets meet no open flow" that fact would not survive a reset, and
  without "no cell has outrun the packets" a count could wrap. Assumptions:
  connection IDs fit the field and do not share a counter slot
  (`CidAssumption`), no other flow overwrites a flow's length (`KeyAssumption`),
  fewer packets than 2^32 (`NoWrapAssumption`). These are the conditions under
  which the experiment is meaningful, and `switch` shows what is left without
  them (`AwareBuckets`).
  `AttributionInvariant` and `IdentifiedInvariant` are about the monitor in such
  a wave, with IDs that rotate. `CrossedInv`: every open flow has had its Handshake
  counted, so the first packet of a bucket has a long header, and its digest the
  true length, unless the ID is a rotated one. `FiledInv`: every digest half
  handled is of a packet whose bucket counts, and a slot filed with a length below
  20, so from a long header, is one that counts and has its endpoint. `WaitingInv`: a slot that started counting
  under the monitor is a rotated ID's, or filed, or its digest is under way.
  Hypotheses: `FoldsAgree`, for the connection IDs in use the monitor's 10 bits
  select the switch's slot (`monitor_fold` shows the other case); for
  `AllIdentified`, no ID is empty, since the callback skips digests of length 0.
  The instance of the run `monitor` satisfies both.
* `QuicReaderProofs`, dumps and views: `DumpInvariant`, `PollInvariant`, `MovedAlways`,
  `DisplayInvariant`, all from `ViewInv`. A reader walks a table while packets
  flow: `DumpInv` says that each row read lies between the value at the start and
  the value now, and no row above the filter was passed by; `PollInv` that what
  was printed, added to the warm-up read, is the last read of the slot, which lies
  between the marks of its pull; `DisplayInv` that lines printed and digests
  waiting are the buckets that started counting, and that a line shows the ID of a
  long header or the field of a short one. They hold because the shell lets
  no reset run next to a reader (`ShellInv`) and because no register cell wraps
  (`CellsBounded`, where the property has fewer than 2^32 packets).
* `QuicReaderProofs`, the replica: `ShardedSerial` needs no hypothesis. The phases
  get closed forms in record numbers: `LearnedIn(c, a, b)` is the last Handshake of
  each 4-tuple among records a + 1 .. b, `CountedIn` the records per bucket, and
  `LearnPhaseIs`, `BucketPhaseIs` show that the recursive functions compute them.
  Both join at a cut (`LearnedJoin`, `HitsJoin`), the walk of `detect` tiles the
  capture whatever the sizes and the number of workers (`WalkTiles`), so merging in
  range order gives the serial run (`MergeMapsIs`, `MergePartsIs`). `ToolInv`: what
  the workers have returned so far is what their ranges hold.
  `ParityInvariant`, `UpToLearningInvariant`, `CrossCheckInvariant` and
  `GroundTruthInvariant` add `SwitchInv`: a length cell holds what a captured
  Handshake with its key taught, a bucket counts the captured packets that had a
  length in time. Replica and switch then count the same records, each in the
  bucket of its ID (`OrderlyKnows`) or, before its Handshake, of the empty mask.
  The report and tshark's listing are sums of those counts over buckets
  (`SeparatedIs`, `AffectedAre`, `AggListed`, `InfoListed`). What tshark tracks is
  arbitrary: the frames it leaves blank enter the equation. Hypothesis
  `Comparable`: fewer packets than 2^32, no VLAN tag on UDP 443 (the tool strips
  tags, the switch's parser does not look behind them), IDs of at most 20 bytes,
  and no Handshake that teaches a flow's cell another length. `OwnKeys`, for the two
  that speak of captures in any order: no two flows share a length cell, else the
  switch knows a length that the tool, which keeps whole 4-tuples, does not. The
  instance of the run `pcap` satisfies both (`TrafficAssumption`). A datagram holds
  any number of further packets (`CoalescedAssumption`).
* `ByteParityProofs`, the generators: `GenInvariant` (the target is settled before
  anything is searched for, every issued ID has it, the printed ID is the first)
  and `OneBucketPerConnection`: with the mask theorem, every packet to an ID of a
  `-single-cid` connection counts in the printed bucket; `PrintedInvariant` is the
  same inside the experiment.
* `ByteParityProofs`, the experiment: `UndercountInvariant` and
  `RankingInvariant` from `ByteInvariant`. `CellInv` is the heart of `ByteInv`:
  a counter cell holds, for every flow printed for it, a header and all the flow
  received, because each data packet counts in the bucket of the ID it carries
  and that is the printed one. Hence a flow with both lines has a nonzero cell,
  every slot of the log matches, the diff is written, and a slot holds at
  least what its flows received; `LineInv` bounds the two decimals per flow and
  `SumClose` per slot. `FileInv` says that the CSV is the counter if it was fetched in
  this execution, and then the diff this execution's. The set of flows is finite; other packets, in any number, may hit
  any slot. As in the properties, the results are for the executions whose
  counter was fetched and whose fold agrees with the switch's (`Joined`); `MaxOther`,
  `MaxExecs`, `TopK` and the sizes are arbitrary.
* `GoPerfProofs`: `ReplyInvariant`, `UnderreportInvariant`, `TotalsInvariant` from
  `GoInv`: per flow the bytes on the way and at the far end are those counted at
  the near end and those of the blocked Write (`Upload`, `Download`); a result is
  in the channel or collected, once (`ChannelInv`); the client's total is the sum
  over collected flows, the server's over streams that have ended (`SumsInv`).
* `CidlenSweepProofs`: `EndpointInvariant` and `NoReworkAlways` from `CidlenInv` (the execution has been through the lengths before the current
  one, which is not done; before any kill an endpoint is in the summary or about
  to be), and `OwnLengthInvariant` from `ServerInv`, on the hypothesis that
  `pkill` does not fail (`cidlen_probe` shows what happens otherwise).
  `OverreportInvariant` is about `AioPerf` and shares nothing with them:
  `BytesInv` says that every queued byte is in the send buffer or with the server
  and that an answer is a count the server has had, so it stays a lower bound of
  what the server has, however late it comes.
* `TopologyProofs`: `FreshRowsInvariant` and `FreshFigureInvariant` for any number
  of executions and values of L, on the hypothesis that only dumps fail unnoticed,
  which is what the mtime guard is for: `FreshInv` says what cycle the register,
  the capture and the two CSVs stem from at every step, `FigureInv` that
  the table ends with the rows of this execution. `WavesInvariant`: started and
  remaining connections make L, and `topo_pc1.py` does not run under a sweep.
  `RepeatableInvariant` for every number of senders up to the range of `clean`:
  `TopoInv` says what the first k commands of the program have left, on whatever
  network state they started (`SetupCommand`, `CleanCommand`).

Only model-checked:

* liveness (`SetupCompletes`, `EventuallyAttributed`, `PollEnds`, `AllCollected`,
  `NoLeak`, the ends of `AioPerf`), which needs fairness and ENABLED.

Every invariant and every action property that a passing run checks is proved.

## Assumptions about what is not in the repository

One bfshell Python shell at a time; digest callbacks run in a thread of the
driver; a callback stays registered after its script ends; the two ports are in
one pipe; one counter read is atomic per entry; the monitor's counter read is a
snapshot; `bucket_dir` and `bucket_ckey`, written by adjacent statements, change
together; quic-go calls a connection's generator from one goroutine at a time;
QUIC streams are reliable and in order; mtimes of two dumps differ. A
`callback_register` over an existing callback replaces it or is refused; the
driver may or may not notice that a killed display or monitor is gone. tshark
lists the ID of a long header, and that of a short one where it has followed the
connection; elsewhere it lists none, and the packets of one datagram share an ID.
bash goes on after Ctrl-C if the child it waits for has not died of the signal.
A failing `ip` command changes nothing, and deleting a
namespace deletes the veth end in it and its peer.

Left out: truncated packets and IP options in captures, the interval reporters,
all printing, the size grid of the byte sweep.

## Not modelled

* P4 egress and checksum: empty, no state.
* `dump_mask.py`: prints the constant `mask_tbl`; what it should show is
  `MaskKeepsCid`.
* `deploy.sh`, `config_env.sh`: copying and compiling.
* `create_topology_organized.ipynb`: provisions a FABRIC testbed for a TCP
  congestion control study; it calls no code of this system.
* Drawing in `plots/`; `plot_buckets.py` draws literals.

## Plan

1. Done: switch, path and refinement, dumps and live views, monitor, replica and
   ground truth, generators, byte experiment, drivers, topology, and the proofs of
   their safety properties.
2. `SweepDriver`: an abstract specification (one row per cycle, from that
   cycle's data) and the refinement under the failures the guards catch.
