----------------------------- MODULE MCRestart ------------------------------
(* Blake2 with the history of the last call, for TLC. *)
EXTENDS Blake2

NoKey == {<<>>}

VARIABLE asked         \* the last call asked for a digest

InitR == Init /\ asked = FALSE

(* TruncatedFinal, answered or refused.                                    *)
AskR ==
  /\ \E size \in Sizes : TruncatedFinal(size) \/ Refused(size)
  /\ asked' = TRUE

OtherR ==
  /\ \/ \E m \in Inputs : Update(m)
     \/ Step
     \/ Restart
     \/ \E mode \in BOOLEAN : SetTreeMode(mode)
  /\ asked' = FALSE

SpecR == InitR /\ [][AskR \/ OtherR]_<<vars, asked>>

(* What cryptlib.h:1183 says of CalculateTruncatedDigest and               *)
(* cryptlib.h:1173 of TruncatedFinal, with which it ends: after the call   *)
(* the object is as before the first byte of a message.                    *)
DigestRestarts == asked => Absorbed = m_key
=============================================================================
