---------------------------- MODULE HashFunction ----------------------------
(***************************************************************************)
(* What a hash object of Crypto++ gives its caller: the digest is a        *)
(* function of the bytes given since the last restart, however they were   *)
(* cut into pieces, and of the tree mode set when it is asked for.  A      *)
(* digest restarts the object.                                             *)
(*                                                                         *)
(* Blake2.tla implements this module.  A digest that is refused (larger    *)
(* than DigestSize) is not a call here, so it may change nothing; that the *)
(* header promises a restart for it too is another matter, for             *)
(* DigestRestarts of MCRestart.tla.                                        *)
(***************************************************************************)
EXTENDS Naturals, Sequences

CONSTANTS
  Byte,
  MaxMessage,    \* bound on the bytes given between two restarts
  DigestSize,
  Digest(_, _)   \* of a message, with or without tree mode

VARIABLES
  prefix,    \* what every message begins with: the key's block, or nothing
  msg,       \* the bytes given since the last restart
  busy,      \* an Update has not returned yet
  treeMode,
  hash       \* the caller's buffer

vars == <<prefix, msg, busy, treeMode, hash>>

Bytes == UNION {[1..n -> Byte] : n \in 0..MaxMessage}

Init ==
  /\ msg = prefix
  /\ busy = FALSE
  /\ treeMode \in BOOLEAN
  /\ hash = <<>>

Update(m) ==
  /\ ~busy
  /\ busy' = TRUE
  /\ msg' = msg \o m
  /\ UNCHANGED <<prefix, treeMode, hash>>

Return == busy /\ busy' = FALSE /\ UNCHANGED <<prefix, msg, treeMode, hash>>

TruncatedFinal(size) ==
  /\ ~busy /\ size <= DigestSize
  /\ hash' = [size |-> size, value |-> Digest(msg, treeMode)]
  /\ msg' = prefix
  /\ UNCHANGED <<prefix, busy, treeMode>>

Restart ==
  ~busy /\ msg' = prefix /\ UNCHANGED <<prefix, busy, treeMode, hash>>

SetTreeMode(mode) ==
  ~busy /\ treeMode' = mode /\ UNCHANGED <<prefix, msg, busy, hash>>

Next ==
  \/ \E m \in Bytes : Update(m)
  \/ Return
  \/ \E size \in 0..DigestSize : TruncatedFinal(size)
  \/ Restart
  \/ \E mode \in BOOLEAN : SetTreeMode(mode)

(* An Update returns.  Nobody has to ask for the digest.                   *)
Spec == Init /\ [][Next]_vars /\ WF_busy(Return)
=============================================================================
