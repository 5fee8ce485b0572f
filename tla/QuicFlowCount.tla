---------------------------- MODULE QuicFlowCount ----------------------------
(***************************************************************************)
(* What the switch promises: a packet count and a byte count for every     *)
(* connection ID, clearable.  Each packet that crosses is charged to the   *)
(* connection ID it carries, in the step in which it crosses, and to no    *)
(* other.  No hashes, no learned lengths, no masks.                        *)
(***************************************************************************)
EXTENDS Naturals, Sequences

CONSTANTS Cids, Sizes   \* connection IDs; packet sizes
VARIABLES
  crossed,  \* the packets that have crossed, in order, as <<cid, size>>
  count,    \* connection ID -> packets since the last clear
  bytes     \* connection ID -> bytes since the last clear

flowVars == <<crossed, count, bytes>>

Init == /\ crossed = <<>>
        /\ count = [c \in Cids |-> 0]
        /\ bytes = [c \in Cids |-> 0]

Cross(c, n) == /\ crossed' = Append(crossed, <<c, n>>)
               /\ count' = [count EXCEPT ![c] = @ + 1]
               /\ bytes' = [bytes EXCEPT ![c] = @ + n]

ClearCount == /\ count' = [c \in Cids |-> 0]
              /\ UNCHANGED <<crossed, bytes>>

ClearBytes == /\ bytes' = [c \in Cids |-> 0]
              /\ UNCHANGED <<crossed, count>>

Next == \/ \E c \in Cids, n \in Sizes : Cross(c, n)
        \/ ClearCount
        \/ ClearBytes

Spec == Init /\ [][Next]_flowVars
=============================================================================
