------------------------------ MODULE ImageStore ------------------------------
(***************************************************************************)
(* What Factory.ps1 promises of the files it keeps for each product, also  *)
(* when it dies in the middle of a step or its VMs do not start: a base,   *)
(* once there, is never deleted or made anew, and only gains updates; and  *)
(* an image is only published whole with all the updates its base then     *)
(* has.  More it does not promise: a base may be torn by a merge that is   *)
(* cut off, and an image lost, torn, or left behind its base.              *)
(***************************************************************************)
EXTENDS Naturals

CONSTANTS
  Product,
  Level      \* numbers of updates

VARIABLES
  base,      \* Product -> how much of the base is there, and its updates
  image      \* Product -> the same of the published image

storeVars == <<base, image>>

Content == [kind: {"absent", "torn", "whole"}, level: Level]
Nowhere == [Product -> {c \in Content : c.kind = "absent"}]

Init == base \in Nowhere /\ image \in Nowhere

\* Making a base may fail and leave none.
Make(p) ==
  /\ base[p].kind = "absent"
  /\ \E c \in Content : base' = [base EXCEPT ![p] = c]
  /\ UNCHANGED image

Update(p) ==
  /\ base[p].kind # "absent"
  /\ \E c \in Content :
       /\ c.kind # "absent" /\ c.level >= base[p].level
       /\ base' = [base EXCEPT ![p] = c]
  /\ UNCHANGED image

\* The old image is deleted, and mostly another one begun.
Withdraw(p) ==
  /\ \E c \in Content : c.kind # "whole" /\ image' = [image EXCEPT ![p] = c]
  /\ UNCHANGED base

Publish(p) ==
  /\ base[p].kind # "absent"
  /\ \E c \in Content :
       /\ c.kind = "whole" /\ c.level >= base[p].level
       /\ image' = [image EXCEPT ![p] = c]
  /\ UNCHANGED base

Next == \E p \in Product : Make(p) \/ Update(p) \/ Withdraw(p) \/ Publish(p)

Spec == Init /\ [][Next]_storeVars
=============================================================================
