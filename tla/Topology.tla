------------------------------ MODULE Topology ------------------------------
(***************************************************************************)
(* topo_pc1.py: the sender namespaces on PC1, their veth pairs, and the    *)
(* bridge that takes the place of the NIC; composed with the sweep that    *)
(* drives clients in these namespaces.                                     *)
(*                                                                         *)
(* The script is a list of ip commands.  A command that finds what it      *)
(* wants already there, or not there, fails, and the script goes on; that  *)
(* is what makes it repeatable.  It can be killed between two commands.    *)
(* Commands that only bring links up or tune them go with the one before.  *)
(***************************************************************************)
EXTENDS SweepDriver

CONSTANTS
  HostCounts,   \* the -n values used
  CleanRange,   \* clean deletes at least that many namespaces: 64
  MaxTopo       \* bound: executions of topo_pc1.py

VARIABLES
  net,          \* what is configured on PC1
  action, n,    \* the last action given to topo_pc1.py, with its -n
  prog,         \* the commands still to run
  ntopo

topoVars == <<net, action, n, prog, ntopo>>
allVars == <<vars, topoVars>>

MaxOf(a, b) == IF a > b THEN a ELSE b
Hosts == 1 .. CleanRange

ASSUME TopoAssumption == CleanRange \in Nat \ {0} /\ HostCounts \subseteq 1 .. CleanRange

\* veth is where hsI-eth0 is: nowhere, in the root namespace, or in hsI;
\* port says that its peer is a port of the bridge.
NoHost == [ns |-> FALSE, veth |-> "none", port |-> FALSE, addr |-> FALSE]

\* The plain experiment: the data-plane address is on the NIC.
Plain == [bridge |-> FALSE, master |-> FALSE, nicIp |-> TRUE, brIp |-> FALSE,
          host |-> [i \in Hosts |-> NoHost]]

-----------------------------------------------------------------------------
(* The commands *)

Cmd(op, i) == [op |-> op, host |-> i]
\* All of ops for the first host, then for the second, and so on.
Each(ops, hosts) ==
  [k \in 1 .. hosts * Len(ops) |-> Cmd(ops[((k - 1) % Len(ops)) + 1], ((k - 1) \div Len(ops)) + 1)]

setup(hosts) ==
  <<Cmd("link add bridge", 0), Cmd("addr flush nic", 0), Cmd("set nic master", 0),
    Cmd("addr add bridge", 0)>>
  \o Each(<<"netns add", "link add veth", "set veth netns", "set peer master",
            "addr add veth">>, hosts)

\* Mutant of clean: only the namespaces of this -n go.
clean_OwnCount(hosts) ==
  Each(<<"netns del">>, hosts)
  \o <<Cmd("set nic nomaster", 0), Cmd("addr flush bridge", 0), Cmd("link del bridge", 0),
       Cmd("addr add nic", 0)>>

clean(hosts) ==
  Each(<<"netns del">>, MaxOf(hosts, CleanRange))
  \o <<Cmd("set nic nomaster", 0), Cmd("addr flush bridge", 0), Cmd("link del bridge", 0),
       Cmd("addr add nic", 0)>>

\* What the kernel makes of a command; one that cannot be done changes nothing.
Host(h, op) ==
  CASE op = "netns add" -> [h EXCEPT !.ns = TRUE]
    [] op = "link add veth" /\ h.veth = "none" -> [h EXCEPT !.veth = "root"]
    [] op = "set veth netns" /\ h.veth = "root" /\ h.ns -> [h EXCEPT !.veth = "in"]
    [] op = "set peer master" /\ h.veth # "none" /\ net.bridge -> [h EXCEPT !.port = TRUE]
    [] op = "addr add veth" /\ h.veth = "in" -> [h EXCEPT !.addr = TRUE]
    [] op = "netns del" /\ h.ns -> IF h.veth = "in" THEN NoHost ELSE [h EXCEPT !.ns = FALSE]
    [] OTHER -> h

Effect(op) ==
  CASE op = "link add bridge" -> [net EXCEPT !.bridge = TRUE]
    [] op = "addr flush nic" -> [net EXCEPT !.nicIp = FALSE]
    [] op = "set nic master" /\ net.bridge -> [net EXCEPT !.master = TRUE]
    [] op = "addr add bridge" /\ net.bridge -> [net EXCEPT !.brIp = TRUE]
    [] op = "set nic nomaster" -> [net EXCEPT !.master = FALSE]
    [] op = "addr flush bridge" -> [net EXCEPT !.brIp = FALSE]
    [] op = "link del bridge" ->
         [net EXCEPT !.bridge = FALSE, !.brIp = FALSE, !.master = FALSE,
                     !.host = [i \in Hosts |-> [@[i] EXCEPT !.port = FALSE]]]
    [] op = "addr add nic" -> [net EXCEPT !.nicIp = TRUE]
    [] OTHER -> net

\* hsI is set up and its packets reach the switch.
Reaches(i) == /\ net.host[i] = [ns |-> TRUE, veth |-> "in", port |-> TRUE, addr |-> TRUE]
              /\ net.bridge /\ net.master
Reaching == {i \in Hosts : Reaches(i)}

-----------------------------------------------------------------------------
(* Actions *)

TopoInit == /\ Init
            /\ net = Plain /\ action = "clean" /\ n = CleanRange
            /\ prog = <<>> /\ ntopo = 0

\* The operator does not rebuild the network under a sweep.
Quiet == step \in {"idle", "done", "aborted"}

Launch(a, hosts) ==
  /\ prog = <<>> /\ Quiet /\ ntopo < MaxTopo
  /\ ntopo' = ntopo + 1 /\ action' = a /\ n' = hosts
  /\ prog' = IF a = "setup" THEN setup(hosts) ELSE clean(hosts)
  /\ UNCHANGED <<vars, net>>

Command ==
  /\ prog # <<>>
  /\ LET c == Head(prog)
     IN  net' = IF c.host = 0 THEN Effect(c.op)
                ELSE [net EXCEPT !.host[c.host] = Host(@, c.op)]
  /\ prog' = Tail(prog)
  /\ UNCHANGED <<vars, action, n, ntopo>>

Kill ==
  /\ prog # <<>>
  /\ prog' = <<>> /\ action' = "killed"
  /\ UNCHANGED <<vars, net, n, ntopo>>

TopoNext ==
  \/ \E a \in {"setup", "clean"}, hosts \in HostCounts : Launch(a, hosts)
  \/ Command \/ Kill
  \/ prog = <<>> /\ (Script(Reaching) \/ Operator) /\ UNCHANGED topoVars

TopoSpec == TopoInit /\ [][TopoNext]_allVars

-----------------------------------------------------------------------------
(* Properties *)

\* "so the plain (non-namespaced) experiment keeps working afterwards": a clean
\* that ends restores the NIC and leaves no namespace, and a setup that ends
\* leaves all its senders reaching the switch and the address in one place,
\* whatever killed or repeated runs with other counts came before.
Repeatable ==
  prog = <<>> =>
    /\ action = "clean" =>
         /\ net.nicIp /\ ~net.brIp /\ ~net.master /\ ~net.bridge
         /\ \A i \in Hosts : ~net.host[i].ns /\ net.host[i].veth # "in"
    /\ action = "setup" => 1 .. n \subseteq Reaching /\ net.brIp /\ ~net.nicIp

\* The waves of an L start exactly L connections, however L, MAXCONC and the
\* number of namespaces divide, if all the namespaces it uses reach the switch.
WavesExact ==
  step = "fetch" /\ 1 .. NS \subseteq Reaching => driven = LVALUES[li]
=============================================================================
