--------------------------- MODULE FencedRegister ---------------------------
(***************************************************************************)
(* What a lease store promises its users (the contract in the docstring of *)
(* fleet/lease.py), one register per key: epochs only grow, and a value is *)
(* written under the newest epoch or not at all.                           *)
(***************************************************************************)
EXTENDS Integers

CONSTANTS Key, Value, NoValue

VARIABLES epoch,     \* [Key -> Nat] the newest epoch
          value,     \* [Key -> Value] the value last written
          writer     \* [Key -> Nat] the epoch it was written under, 0: none

vars == <<epoch, value, writer>>

Init ==
  /\ epoch = [k \in Key |-> 0]
  /\ value = [k \in Key |-> NoValue]
  /\ writer = [k \in Key |-> 0]

\* A new owner takes the key over.
NewEpoch(k) ==
  /\ epoch' = [epoch EXCEPT ![k] = @ + 1]
  /\ UNCHANGED <<value, writer>>

\* The owner of the newest epoch writes.
Write(k, v) ==
  /\ epoch[k] > 0
  /\ value' = [value EXCEPT ![k] = v]
  /\ writer' = [writer EXCEPT ![k] = epoch[k]]
  /\ UNCHANGED epoch

Next == \E k \in Key : NewEpoch(k) \/ \E v \in Value : Write(k, v)

Spec == Init /\ [][Next]_vars
=============================================================================
