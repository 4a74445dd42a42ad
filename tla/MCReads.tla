------------------------------ MODULE MCReads -------------------------------
(* LLORAM with the history of what callers wrote, for TLC. *)
EXTENDS MCLLORAM

VARIABLE written       \* the value last written to an address

varsH == <<vars, written>>

InitH == Init /\ written = [a \in Addr |-> Zero]

WriteH ==
  \E a \in Addr, v \in Val, one \in SingleRound :
    /\ "write" \in Ops
    /\ Begin("write", a, v, one)
    /\ written' = [written EXCEPT ![a] = v]

ReadH ==
  \E a \in Addr, one \in SingleRound :
    /\ "read" \in Ops
    /\ Begin("read", a, Zero, one)
    /\ UNCHANGED written

NextH == WriteH \/ ReadH \/ (Step /\ UNCHANGED written)

SpecH == InitH /\ [][NextH]_varsH

MaskViewH == <<MaskView, written>>

(* What TestApp.cpp:307-315 tests: a read that returns has what was last   *)
(* written to the address.                                                 *)
ReadsReturnWritten ==
  [][pc = "finish" /\ pc' = "idle" /\ op = "read" =>
       data1 = written[addr]]_varsH
=============================================================================
