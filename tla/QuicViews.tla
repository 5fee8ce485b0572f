------------------------------ MODULE QuicViews ------------------------------
(***************************************************************************)
(* The live views of the switch: poll_quic.py, which polls the byte        *)
(* counter and prints the slots that move, and display_quic.py, which      *)
(* prints every digest.  Like the dumps each holds the one Python shell    *)
(* until it is killed, and like a dump a poll pulls the counter slot by    *)
(* slot while packets keep flowing.  Rates are abstracted to the deltas    *)
(* they are computed from.                                                 *)
(***************************************************************************)
EXTENDS QuicDumps, Integers, FiniteSets

CONSTANTS
  IdlePolls,  \* INACTIVITY_TIMEOUT, in polls
  MaxPolls    \* bound: polls of one execution of poll_quic.py

ASSUME ViewAssumption == IdlePolls \in Nat \ {0} /\ MaxPolls \in Nat

VARIABLES
  poll,         \* where poll_quic.py is: off, warm, pull, sleep
  pulled,       \* slot -> <<packets, bytes>> of the nonzero entries read
  prev,         \* slot -> <<packets, bytes>> at its last read
  last_active,  \* slot -> poll in which it last moved
  now,          \* polls begun
  visible,      \* slots printed by the last poll
  moved,        \* history: slot -> sum of the deltas printed
  marks,        \* history: the counter when the warm-up began and ended, when
                \* the current pull began and when the last one ended
  lines,        \* what display_quic.py has printed
  since         \* history: buckets counting and digests waiting at its start

pollVars == <<poll, pulled, prev, last_active, now, visible, moved, marks>>
dispVars == <<lines, since>>
viewVars == <<pollVars, dispVars>>

Cell(c) == <<quic_flow_pkts[c], quic_flow_bytes[c]>>
Cells == [c \in Ctrs |-> Cell(c)]
\* A Python dict is a function: d.get(x, default), and d updated with e.
Get(d, x, default) == IF x \in DOMAIN d THEN d[x] ELSE default
Updated(d, e) == [x \in DOMAIN d \cup DOMAIN e |-> IF x \in DOMAIN e THEN e[x] ELSE d[x]]

-----------------------------------------------------------------------------
(* poll_quic.py *)

PollStart ==
  /\ Begin("poll")
  /\ poll' = "warm" /\ at' = 0
  /\ pulled' = <<>> /\ prev' = <<>> /\ last_active' = <<>> /\ visible' = {}
  /\ moved' = [c \in Ctrs |-> <<0, 0>>] /\ now' = 0
  /\ marks' = [w0 |-> Cells, w1 |-> Cells, began |-> Cells, ended |-> Cells]
  /\ UNCHANGED <<regVars, tblVars, dgstVars, npackets, node, rows, report, base,
                 dispVars>>

\* read_counter: one more slot; a slot at zero is left out.
PullSlot ==
  /\ poll \in {"warm", "pull"} /\ at < NCtrs
  /\ pulled' = IF Cell(at) = <<0, 0>> THEN pulled
             ELSE Updated(pulled, [c \in {at} |-> Cell(c)])
  /\ at' = at + 1
  /\ UNCHANGED <<vars, node, rows, report, base, poll, prev, last_active, now,
                 visible, moved, marks, dispVars>>

PollWarmUp ==
  /\ poll = "warm" /\ at = NCtrs
  /\ poll' = "sleep"
  /\ prev' = pulled
  /\ marks' = [marks EXCEPT !.w1 = Cells, !.ended = Cells]
  /\ UNCHANGED <<vars, dumpVars, pulled, last_active, now, visible, moved, dispVars>>

PollAgain ==
  /\ poll = "sleep" /\ now < MaxPolls
  /\ poll' = "pull" /\ now' = now + 1 /\ at' = 0 /\ pulled' = <<>>
  /\ marks' = [marks EXCEPT !.began = Cells]
  /\ UNCHANGED <<vars, node, rows, report, base, prev, last_active, visible, moved,
                 dispVars>>

Previous(c) == Get(prev, c, <<0, 0>>)

Delta(c) == <<pulled[c][1] - Previous(c)[1], pulled[c][2] - Previous(c)[2]>>

\* Mutant of Stored: the first value of a slot is kept.
Stored_Once == Updated(pulled, prev)

Stored == Updated(prev, pulled)

\* Mutant of Activity: a slot's first move is remembered, not its last.
Activity_First(active) == Updated([c \in active |-> now], last_active)

Activity(active) == Updated(last_active, [c \in active |-> now])

\* The entries are compared with the last ones and the table is printed.
PollPrint ==
  /\ poll = "pull" /\ at = NCtrs
  /\ poll' = "sleep"
  /\ LET active == {c \in DOMAIN pulled : Delta(c)[1] > 0 \/ Delta(c)[2] > 0}
     IN /\ last_active' = Activity(active)
        /\ moved' = [c \in Ctrs |-> IF c \in active
                                    THEN <<moved[c][1] + Delta(c)[1],
                                           moved[c][2] + Delta(c)[2]>>
                                    ELSE moved[c]]
  /\ prev' = Stored
  /\ visible' = {c \in DOMAIN pulled \cap DOMAIN last_active' :
                   now - last_active'[c] < IdlePolls}
  /\ marks' = [marks EXCEPT !.ended = Cells]
  /\ UNCHANGED <<vars, dumpVars, pulled, now, dispVars>>

\* pkill -f bfrtcli, at any moment: the process and what it held are gone.
PollStop ==
  /\ poll # "off"
  /\ poll' = "off" /\ shell' = "free"
  /\ at' = 0 /\ now' = 0 /\ visible' = {}
  /\ pulled' = <<>> /\ prev' = <<>> /\ last_active' = <<>>
  /\ moved' = <<>> /\ marks' = <<>>
  /\ UNCHANGED <<regVars, tblVars, dgstVars, npackets, nscripts, node, rows, report,
                 base, dispVars>>

Poll == PollStart \/ PullSlot \/ PollWarmUp \/ PollAgain \/ PollPrint \/ PollStop

-----------------------------------------------------------------------------
(* display_quic.py *)

\* Mutant of truncate_dcid: the field is shown as it is.
truncate_dcid_Raw(dcid, len) == dcid

truncate_dcid(dcid, len) == SubSeq(dcid, 1, IF len > DcidBytes THEN DcidBytes ELSE len)

\* The callback is registered over whatever setup.py, the monitor or an
\* earlier display left: the driver replaces it, or refuses and the script ends.
DisplayStart ==
  /\ Begin("display")
  /\ learn_client' = "display"
  /\ lines' = <<>>
  /\ since' = [counting |-> {b \in Buckets : quic_pkt_count[b] > 0},
               waiting |-> Len(digests)]
  /\ UNCHANGED <<regVars, tblVars, digests, nolearn, npackets, dumpVars, pollVars>>
DisplayRefused ==
  /\ learn_client # "none" /\ shell = "free" /\ nscripts < MaxScripts
  /\ nscripts' = nscripts + 1
  /\ UNCHANGED <<regVars, tblVars, dgstVars, shell, npackets, dumpVars, viewVars>>

\* The driver calls on_quic_digest, which stays registered when the script is
\* killed: its output then goes nowhere.
on_quic_digest ==
  /\ learn_client = "display" /\ digests # <<>>
  /\ digests' = Tail(digests)
  /\ lines' = IF shell = "display"
              THEN LET d == Head(digests)
                   IN Append(lines, [form |-> d.form, dcid_len |-> d.dcid_len,
                                     dcid |-> truncate_dcid(d.dcid, d.dcid_len)])
              ELSE lines
  /\ UNCHANGED <<regVars, tblVars, learn_client, nolearn, shell, npackets, nscripts,
                 dumpVars, pollVars, since>>

\* "kill $(pgrep -f run_bfshell)": nothing deregisters the callback; the driver
\* may notice that its shell is gone.
DisplayKill ==
  /\ shell = "display"
  /\ shell' = "free"
  /\ learn_client' \in {"display", "none"}
  /\ lines' = <<>> /\ since' = <<>>
  /\ UNCHANGED <<regVars, tblVars, digests, nolearn, npackets, nscripts, dumpVars,
                 pollVars>>

Display == DisplayStart \/ DisplayRefused \/ on_quic_digest \/ DisplayKill

-----------------------------------------------------------------------------
(* Specification *)

ViewInit ==
  /\ DumpInit
  /\ poll = "off" /\ now = 0 /\ visible = {}
  /\ pulled = <<>> /\ prev = <<>> /\ last_active = <<>>
  /\ moved = <<>> /\ marks = <<>>
  /\ lines = <<>> /\ since = <<>>

ViewNext == \/ Poll
            \/ Display
            \/ (DumpNext \/ (Deliver /\ UNCHANGED dumpVars)) /\ UNCHANGED viewVars

ViewSpec == ViewInit /\ [][ViewNext]_<<allVars, viewVars>>

-----------------------------------------------------------------------------
(* Properties *)

Between(lo, x, hi) == \A i \in 1 .. 2 : lo[i] <= x[i] /\ x[i] <= hi[i]
Minus(x, y) == <<x[1] - y[1], x[2] - y[2]>>

\* The rates poll_quic.py prints add up: between two polls the deltas of a slot
\* sum to no more packets and bytes than it counted since the warm-up began,
\* and to no less than it counted from the end of the warm-up to the beginning
\* of the last pull.  Nothing is shown twice, nothing is lost, although every
\* pull is torn by traffic.
PollAddsUp ==
  poll = "sleep" /\ now > 0 =>
     \A c \in Ctrs :
        Between(Minus(marks.began[c], marks.w1[c]), moved[c],
                Minus(Cell(c), marks.w0[c]))

\* A slot that counted a packet between two pulls is printed by the second, also
\* when it counts for the first time.
MovedIsVisible ==
  [][PollPrint => \A c \in Ctrs : marks.began[c] # marks.ended[c] => c \in visible']_
    <<allVars, viewVars>>

\* The bytes a line shows for packet p: a long header's connection ID, up to the 20
\* bytes of the field; of a short header the whole field, ciphertext included.
ShownFor(p) == IF p.form = "long" THEN truncate_dcid(p.cid, Len(p.cid)) ELSE p.dcid

\* The display prints one line for each bucket that starts counting while it
\* runs and for each digest it found waiting (as long as no register cell can have
\* wrapped), so not one per packet as its banner says (see DigestPerPacket); and
\* every line shows what ShownFor says of one QUIC packet.
DisplayLines ==
  shell = "display" =>
     /\ npackets < CntMod =>
          Len(lines) + Len(digests)
            = since.waiting + Cardinality({b \in Buckets : quic_pkt_count[b] > 0}
                                            \ since.counting)
     /\ \A i \in DOMAIN lines :
          \E p \in Packets : /\ Quic(p) /\ lines[i].form = p.form
                             /\ lines[i].dcid = ShownFor(p)
=============================================================================
