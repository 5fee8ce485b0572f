----------------------------- MODULE CidGenerator -----------------------------
(***************************************************************************)
(* The connection ID generator of the Go client, one per flow.             *)
(*                                                                         *)
(* With -single-cid every connection ID after the first is searched until  *)
(* it hashes to the bucket of the first, so that the switch counts the     *)
(* server's packets in one register slot however many IDs the connection   *)
(* issues.  The bucket of the first ID is printed, and is what the byte    *)
(* experiment joins the switch's counter with.                             *)
(*                                                                         *)
(* The target is read in one critical section and set in another.  quic-go *)
(* calls the generator of a connection from Dial and then from that        *)
(* connection's run loop, never from both (external), so a flow has at     *)
(* most one call in progress; calls of different flows interleave.         *)
(***************************************************************************)
EXTENDS QuicMask, FiniteSets

CONSTANTS
  Flows,
  Ids,        \* what rand.Read may return: IDs of the length asked for
  Fields,     \* 20-byte fields that may be on the wire, ciphertext included
  CRC32(_),   \* external: crc32.ChecksumIEEE, and the hash of the switch
  NBuckets,   \* 131072 in the code
  MaxCids     \* bound: connection IDs issued per flow

VARIABLES
  singleBucket,  \* the -single-cid flag
  hasTarget,     \* flow -> a target bucket has been recorded
  targetBucket,  \* flow -> that bucket
  call,          \* flow -> "none" | "first" | "search" | "any": a call's branch
  target,        \* flow -> the target as the call in progress read it
  issued,        \* flow -> the IDs generated
  first,         \* flow -> what once.Do put into the channel, as <<id>>
  printed        \* flow -> the ID whose bucket is printed, as <<id>>

genVars == <<singleBucket, hasTarget, targetBucket, call, target, issued, first, printed>>

ASSUME GenAssumption ==
  /\ NBuckets \in Nat \ {0}
  /\ MaxCids \in Nat
  /\ Ids \subseteq Seq(Byte)
  /\ Fields \subseteq Dcid
  /\ \A id \in Ids : Len(id) <= DcidBytes /\ CRC32(Padded(id)) \in Nat

p4Bucket(id) == CRC32(Padded(id)) % NBuckets

\* The bucket the length-aware switch counts a packet in that shows id in d.
MeasuredBucket(d, id) == CRC32(Masked(d, Len(id))) % NBuckets

-----------------------------------------------------------------------------
(* Actions *)

GenInit ==
  /\ singleBucket \in BOOLEAN
  /\ hasTarget = [f \in Flows |-> FALSE]
  /\ targetBucket = [f \in Flows |-> 0]
  /\ call = [f \in Flows |-> "none"]
  /\ target = [f \in Flows |-> 0]
  /\ issued = [f \in Flows |-> {}]
  /\ first = [f \in Flows |-> <<>>]
  /\ printed = [f \in Flows |-> <<>>]

\* GenerateConnectionID is called and looks at the target, under the lock.
Enter(f) ==
  /\ call[f] = "none" /\ Cardinality(issued[f]) < MaxCids
  /\ call' = [call EXCEPT ![f] = IF ~singleBucket THEN "any"
                                 ELSE IF hasTarget[f] THEN "search" ELSE "first"]
  /\ target' = [target EXCEPT ![f] = targetBucket[f]]
  /\ UNCHANGED <<singleBucket, hasTarget, targetBucket, issued, first, printed>>

\* The call returns id; once.Do keeps the first one.
Return(f, id) ==
  /\ call' = [call EXCEPT ![f] = "none"]
  /\ issued' = [issued EXCEPT ![f] = @ \cup {id}]
  /\ first' = [first EXCEPT ![f] = IF @ = <<>> THEN <<id>> ELSE @]
  /\ UNCHANGED <<singleBucket, target, printed>>

\* Mutant of FirstId: the bucket is recorded, the flag is not set.
FirstId_NoFlag(f, id) ==
  /\ call[f] = "first"
  /\ targetBucket' = [targetBucket EXCEPT ![f] = p4Bucket(id)]
  /\ UNCHANGED hasTarget
  /\ Return(f, id)

\* No target yet: any ID, whose bucket becomes the target.
FirstId(f, id) ==
  /\ call[f] = "first"
  /\ targetBucket' = [targetBucket EXCEPT ![f] = p4Bucket(id)]
  /\ hasTarget' = [hasTarget EXCEPT ![f] = TRUE]
  /\ Return(f, id)

\* The search loop ends with an ID of the target bucket.
SearchId(f, id) ==
  /\ call[f] = "search" /\ p4Bucket(id) = target[f]
  /\ Return(f, id)
  /\ UNCHANGED <<hasTarget, targetBucket>>

AnyId(f, id) ==
  /\ call[f] = "any"
  /\ Return(f, id)
  /\ UNCHANGED <<hasTarget, targetBucket>>

\* rand.Read fails: the call returns an error and nothing else has changed.
RandError(f) ==
  /\ call[f] # "none"
  /\ call' = [call EXCEPT ![f] = "none"]
  /\ UNCHANGED <<singleBucket, hasTarget, targetBucket, target, issued, first, printed>>

\* Dial has returned, so the channel holds an ID: firstCID does not time out.
Connected(f) ==
  /\ first[f] # <<>> /\ printed[f] = <<>>
  /\ printed' = [printed EXCEPT ![f] = first[f]]
  /\ UNCHANGED <<singleBucket, hasTarget, targetBucket, call, target, issued, first>>

\* A step of a GenerateConnectionID call.
GenCall(f) ==
  \/ Enter(f)
  \/ \E id \in Ids : FirstId(f, id) \/ SearchId(f, id) \/ AnyId(f, id)
  \/ RandError(f)

GenNext == \E f \in Flows : GenCall(f) \/ Connected(f)

GenSpec == GenInit /\ [][GenNext]_genVars

-----------------------------------------------------------------------------
(* Properties *)

\* "all CIDs for the connection map to the same P4 register slot": whatever
\* ciphertext follows the ID in the field, the length-aware switch counts every
\* packet to an issued ID in the bucket that the client prints.
OnePrintedBucket ==
  singleBucket =>
     \A f \in Flows : printed[f] # <<>> =>
        \A id \in issued[f], d \in Fields :
           Shows(d, id) => MeasuredBucket(d, id) = p4Bucket(printed[f][1])

\* What makes it inductive: the first ID is issued, the target is its bucket
\* and is settled before anything is searched for, and every issued ID has it.
GenInv ==
  /\ call \in [Flows -> {"none", "first", "search", "any"}]
  /\ hasTarget \in [Flows -> BOOLEAN]
  /\ targetBucket \in [Flows -> 0 .. NBuckets - 1]
  /\ target \in [Flows -> 0 .. NBuckets - 1]
  /\ issued \in [Flows -> SUBSET Ids]
  /\ first \in [Flows -> {<<>>} \cup {<<id>> : id \in Ids}]
  /\ printed \in [Flows -> {<<>>} \cup {<<id>> : id \in Ids}]
  /\ \A f \in Flows :
        /\ printed[f] # <<>> => printed[f] = first[f]
        /\ call[f] = "any" => ~singleBucket
        /\ call[f] = "first" => ~hasTarget[f]
        /\ call[f] = "search" => hasTarget[f] /\ target[f] = targetBucket[f]
        /\ singleBucket =>
              /\ hasTarget[f] <=> first[f] # <<>>
              /\ ~hasTarget[f] => issued[f] = {}
              /\ \A id \in issued[f] : p4Bucket(id) = targetBucket[f]
              /\ first[f] # <<>> => p4Bucket(first[f][1]) = targetBucket[f]
=============================================================================
