----------------------------- MODULE QuicMonitor -----------------------------
(***************************************************************************)
(* quic_monitor.py on the switch of QuicPath.                              *)
(*                                                                         *)
(* The script's main thread polls the byte counter; the driver's thread    *)
(* runs on_quic_digest and fills the dictionaries the poll loop reads.     *)
(* Python switches threads between bytecodes: the callback is two steps    *)
(* (the DCID is known, then the endpoint is), and the loop over ctr_dcid   *)
(* is one step per key.  bucket_dcid is written and never read; ctr_len    *)
(* changes with ctr_dcid.  Rates are abstracted to which slots moved.      *)
(***************************************************************************)
EXTENDS QuicPath, FiniteSets

CONSTANTS
  MonCtrs,    \* slots the monitor folds a bucket to: ctr_idx = bucket & 0x3FF
  IdlePolls,  \* INACTIVITY_TIMEOUT, in polls
  MaxPolls    \* bound: polls in a behaviour

VARIABLES
  mon,          \* where the main thread is
  cb,           \* the digest the callback is working on, as <<d>>; else <<>>
  ctr_dcid,     \* slot -> [dcid, len]
  bucket_dir,   \* slot -> "dn" | "up"
  bucket_ckey,  \* slot -> client endpoint
  prev_pkts,    \* slot -> packets at the last poll
  last_active,  \* slot -> poll in which it last moved
  now,          \* polls done
  visible,      \* slots not hidden as idle
  todo, size,   \* the iterator over ctr_dcid: keys left, size when created
  shown,        \* the rows printed: [ckey, dir, slot]
  base          \* history: slots already counting when the callback came

dictVars == <<ctr_dcid, bucket_dir, bucket_ckey>>
pollVars == <<prev_pkts, last_active, now, visible, todo, size, shown>>
MonVars == <<mon, cb, dictVars, pollVars, base>>
monVars == <<pathVars, MonVars>>

Watching == learn_client = "monitor" /\ mon # "off"   \* the process runs, registered
Counting == {c \in Ctrs : quic_flow_pkts[c] > 0}   \* read_counter's entries
Get(f, x, default) == IF x \in DOMAIN f THEN f[x] ELSE default
Put(f, x, v) == [y \in DOMAIN f \cup {x} |-> IF y = x THEN v ELSE f[y]]

-----------------------------------------------------------------------------
(* The callback *)

\* The first dcid_len bytes of the 20 in the digest.
ShownDcid(d) ==
  SubSeq(d.dcid, 1, IF d.dcid_len > DcidBytes THEN DcidBytes ELSE d.dcid_len)

\* Mutant of ctr_idx: hash the raw field, speculative bytes included.
ctr_idx_Raw(d) == (CRC32(d.dcid) % NBuckets) % MonCtrs

ctr_idx(d) == (CRC32(Padded(ShownDcid(d))) % NBuckets) % MonCtrs

\* Mutant of ClientOf: the source is taken for the client in both directions.
ClientOf_Src(d) == <<d.src, d.sp>>

\* The client endpoint: the side that is not on port 443.
ClientOf(d) == IF d.sp = 443 THEN <<d.dst, d.dp>> ELSE <<d.src, d.sp>>
DirOf(d) == IF d.sp = 443 THEN "dn" ELSE "up"

\* A digest arrives; one without a DCID is skipped.
OnDigest ==
  /\ Watching /\ digests # <<>> /\ cb = <<>>
  /\ digests' = Tail(digests)
  /\ LET d == Head(digests)
     IN IF d.dcid_len = 0
        THEN UNCHANGED <<ctr_dcid, cb>>
        ELSE /\ ctr_dcid' = Put(ctr_dcid, ctr_idx(d),
                                [dcid |-> ShownDcid(d), len |-> d.dcid_len])
             /\ cb' = <<d>>
  /\ UNCHANGED <<regVars, tblVars, learn_client, nolearn, shell, npackets, nscripts,
                 waveVars, mon, bucket_dir, bucket_ckey, pollVars, base>>

\* Mutant of OnDigestEndpoint: the endpoint of a known slot is not refreshed,
\* nor is that of a new one.
OnDigestEndpoint_Lost ==
  /\ cb # <<>>
  /\ cb' = <<>>
  /\ UNCHANGED <<pathVars, mon, dictVars, pollVars, base>>

\* ... and the callback goes on to the 4-tuple.
OnDigestEndpoint ==
  /\ cb # <<>>
  /\ bucket_dir' = Put(bucket_dir, ctr_idx(cb[1]), DirOf(cb[1]))
  /\ bucket_ckey' = Put(bucket_ckey, ctr_idx(cb[1]), ClientOf(cb[1]))
  /\ cb' = <<>>
  /\ UNCHANGED <<pathVars, mon, ctr_dcid, pollVars, base>>

-----------------------------------------------------------------------------
(* The main thread *)

Main(from, to) == mon = from /\ mon' = to

\* A fresh process: empty dictionaries; callback_deregister.
MonStart ==
  /\ Main("off", "gone")
  /\ Begin("monitor")
  /\ learn_client' = "none"
  /\ ctr_dcid' = <<>> /\ bucket_dir' = <<>> /\ bucket_ckey' = <<>>
  /\ prev_pkts' = <<>> /\ last_active' = <<>> /\ visible' = {}
  /\ todo' = {} /\ size' = 0 /\ shown' = {}
  /\ cb' = <<>>
  /\ UNCHANGED <<regVars, tblVars, digests, nolearn, npackets, waveVars, now, base>>

MonRegister ==
  /\ Main("gone", "warm")
  /\ learn_client' = "monitor"
  /\ base' = Counting
  /\ UNCHANGED <<regVars, tblVars, digests, nolearn, shell, npackets, nscripts,
                 waveVars, cb, dictVars, pollVars>>

MonWarmUp ==
  /\ Main("warm", "poll")
  /\ prev_pkts' = [c \in Counting |-> quic_flow_pkts[c]]
  /\ UNCHANGED <<pathVars, cb, dictVars, last_active, now, visible, todo, size,
                 shown, base>>

\* One poll: deltas, activity, visibility; then an iterator over ctr_dcid.
MonRead ==
  /\ Main("poll", "iter")
  /\ now < MaxPolls
  /\ now' = now + 1
  /\ prev_pkts' = [c \in DOMAIN prev_pkts \cup Counting |-> quic_flow_pkts[c]]
  /\ last_active' =
       LET moved == {c \in Counting : quic_flow_pkts[c] > Get(prev_pkts, c, 0)}
       IN [c \in DOMAIN last_active \cup moved |->
             IF c \in moved THEN now' ELSE last_active[c]]
  /\ visible' = {c \in Counting \cap DOMAIN last_active' :
                   now' - last_active'[c] < IdlePolls}
  /\ todo' = DOMAIN ctr_dcid
  /\ size' = Cardinality(DOMAIN ctr_dcid)
  /\ UNCHANGED <<pathVars, cb, dictVars, shown, base>>

\* next() on the iterator raises if the dictionary has changed size; otherwise
\* it yields a key (whose length goes into the printed CIDlen) or ends.
MonIterate ==
  /\ mon = "iter" /\ Cardinality(DOMAIN ctr_dcid) = size
  /\ \/ /\ todo = {} /\ mon' = "group" /\ UNCHANGED todo
     \/ \E idx \in todo : todo' = todo \ {idx} /\ UNCHANGED mon
  /\ UNCHANGED <<pathVars, cb, dictVars, prev_pkts, last_active, now, visible, size,
                 shown, base>>

\* The table: visible slots whose DCID is known, by client endpoint.  The
\* others are summed up as "pending digest".
MonGroup ==
  /\ Main("group", "poll")
  /\ shown' = {[ckey |-> Get(bucket_ckey, c, <<>>), dir |-> Get(bucket_dir, c, "dn"),
                slot |-> c] : c \in visible \cap DOMAIN ctr_dcid}
  /\ UNCHANGED <<pathVars, cb, dictVars, prev_pkts, last_active, now, visible, todo,
                 size, base>>

\* The finally clause: the callback is deregistered and the shell given back.
Leave(to) ==
  /\ mon' = to
  /\ learn_client' = "none"
  /\ shell' = "free"
  /\ UNCHANGED <<regVars, tblVars, digests, nolearn, npackets, nscripts, waveVars,
                 cb, dictVars, pollVars, base>>

\* Mutant of MonFatal: the exception is swallowed and the iteration retried.
MonFatal_Retried == /\ mon = "iter" /\ Cardinality(DOMAIN ctr_dcid) # size
                    /\ UNCHANGED monVars

\* "dictionary changed size during iteration" ends the loop as [fatal].
MonFatal == /\ mon = "iter" /\ Cardinality(DOMAIN ctr_dcid) # size
            /\ Leave("fatal")

\* Ctrl-C in the poll loop: KeyboardInterrupt, then finally.
MonStop == mon \in {"poll", "iter", "group"} /\ Leave("off")

\* "pkill -f bfrtcli", or Ctrl-C before the loop's try is entered: the process
\* ends without its finally clause, and its dictionaries are gone.  Nothing
\* deregisters the callback; the driver may notice that its shell is gone.
MonKill ==
  /\ mon \in {"gone", "warm", "poll", "iter", "group"}
  /\ mon' = "off"
  /\ learn_client' \in {learn_client, "none"}
  /\ shell' = "free"
  /\ cb' = <<>> /\ ctr_dcid' = <<>> /\ bucket_dir' = <<>> /\ bucket_ckey' = <<>>
  /\ UNCHANGED <<regVars, tblVars, digests, nolearn, npackets, nscripts, waveVars,
                 pollVars, base>>

\* A digest for the callback of a killed monitor: nobody reads it.
DigestLost ==
  /\ learn_client = "monitor" /\ mon = "off" /\ digests # <<>>
  /\ digests' = Tail(digests)
  /\ UNCHANGED <<regVars, tblVars, learn_client, nolearn, shell, npackets, nscripts,
                 waveVars, MonVars>>

-----------------------------------------------------------------------------
(* Specification *)

\* setup.py has run: both directions wired, its no-op callback registered.
MonInit ==
  /\ dcid_len_reg = [k \in Keys |-> 0]
  /\ quic_pkt_count = [b \in Buckets |-> 0]
  /\ quic_flow_pkts = [c \in Ctrs |-> 0]
  /\ quic_flow_bytes = [c \in Ctrs |-> 0]
  /\ force_len = 0
  /\ forwarding = [q \in Ports |-> Peer(q)]
  /\ digests = <<>> /\ learn_client = "noop" /\ nolearn = FALSE
  /\ shell = "free" /\ npackets = 0 /\ nscripts = 0
  /\ open = {} /\ crossed = <<>>
  /\ mon = "off" /\ cb = <<>>
  /\ ctr_dcid = <<>> /\ bucket_dir = <<>> /\ bucket_ckey = <<>>
  /\ prev_pkts = <<>> /\ last_active = <<>> /\ now = 0 /\ visible = {}
  /\ todo = {} /\ size = 0 /\ shown = {} /\ base = {}

Callback == OnDigest \/ OnDigestEndpoint
MainThread == MonRegister \/ MonWarmUp \/ MonRead \/ MonIterate \/ MonGroup \/ MonFatal

Monitor == Callback \/ MainThread \/ MonStart \/ MonStop \/ MonKill \/ DigestLost

MonNext == \/ Monitor
           \/ ((\E p \in Packets : Send(p)) \/ (Deliver /\ UNCHANGED waveVars))
              /\ UNCHANGED MonVars

\* The driver's thread and the main thread are both scheduled.
MonSpec == MonInit /\ [][MonNext]_monVars
             /\ WF_monVars(Callback) /\ WF_monVars(MainThread)

-----------------------------------------------------------------------------
(* Properties *)

\* A short header under another connection ID than its flow's Handshake packets:
\* the endpoint was given it later, in encrypted frames the switch cannot read.
Rotated(p) == /\ Short(p)
              /\ \E q \in Packets : /\ Handshake(q) /\ flow_tuple(q) = flow_tuple(p)
                                    /\ q.cid # p.cid
RotatedSlots == {CtrOf(CidBucket(p.cid)) : p \in {q \in Packets : Rotated(q)}}

\* The callback has filed the DCID of slot idx and not yet its endpoint.
BetweenSteps(idx) == cb # <<>> /\ ctr_idx(cb[1]) = idx

\* A slot the monitor knows by a length below 20, so from a long header, is one
\* the switch counts in, and it is attributed to a client whose packets it counts:
\* endpoint and direction are those of a flow hashed there, but for the moment
\* between the callback's two steps.  Rotated IDs do not disturb it: the digest of
\* a bucket that a short header starts says length 20, is filed under the slot of
\* the raw 20 bytes, and the next long header to be filed there overwrites it.
Attribution ==
  \A idx \in DOMAIN ctr_dcid :
     ctr_dcid[idx].len < DcidBytes =>
       /\ idx \in Counting
       /\ ~BetweenSteps(idx) =>
            idx \in DOMAIN bucket_ckey /\ \E p \in Packets :
               /\ Quic(p) /\ CtrOf(CidBucket(p.cid)) = idx
               /\ bucket_ckey[idx] = IF p.sp = 443 THEN <<p.dst, p.dp>> ELSE <<p.src, p.sp>>
               /\ bucket_dir[idx] = IF p.sp = 443 THEN "dn" ELSE "up"

\* With every digest handled, every slot that started counting after the callback
\* was registered is known to the monitor, but for those of rotated IDs.
AllIdentified ==
  /\ Watching /\ digests = <<>> /\ cb = <<>>
  => Counting \subseteq base \cup RotatedSlots \cup DOMAIN ctr_dcid

\* What system_description.txt says of rotation: the control plane can coalesce a
\* connection's buckets by 4-tuple from the digests.  With every digest handled,
\* every slot that started counting under the monitor has its endpoint.  (A slot
\* that a rotated ID's short header started has none.)
Coalescable ==
  /\ Watching /\ digests = <<>> /\ cb = <<>>
  => Counting \subseteq base \cup DOMAIN bucket_ckey

\* A slot that starts counting under the monitor gets its endpoint, unless the
\* monitor leaves first or the slot is a rotated ID's: for the others
\* "(unidentified)" and "pending digest" are transient.
EventuallyAttributed ==
  \A c \in Ctrs \ RotatedSlots :
     (Watching /\ c \in Counting \ base) ~> (c \in DOMAIN bucket_ckey \/ ~Watching)

\* A poll always ends, however the callback's insertions fall into its loop
\* over ctr_dcid: with the table printed, stopped, or as [fatal], and then the
\* monitor has given the shell and the callback back.
PollEnds ==
  mon = "iter" ~> \/ mon \in {"group", "off"}
                  \/ mon = "fatal" /\ shell = "free" /\ learn_client = "none"
=============================================================================
