----------------------------- MODULE PairStore -----------------------------
(***************************************************************************)
(* What an OHashTable promises its caller.  It is not a map: write never   *)
(* looks for the key, it adds a pair, and says nothing when there is no    *)
(* room for it.  So the table is a bag of pairs.  read returns the value   *)
(* of some pair of the key and deleteByKey removes some pair of the key;   *)
(* both fail only if there is none, until resize has been called, which    *)
(* leaves the pairs where they are and moves the places to look.           *)
(*                                                                         *)
(* OHashTable.tla implements this module.                                  *)
(***************************************************************************)
EXTENDS Naturals

CONSTANTS
  Key, Value,
  None      \* Char20{0}, what read returns when it finds nothing

VARIABLES
  pairs,    \* pairs[k, v] is the number of pairs (k, v) stored
  exact,    \* resize has not been called
  phase,    \* "idle", "called" or, after a change, "done"
  call,     \* the call: its operation, key and value
  ret       \* the value returned

vars == <<pairs, exact, phase, call, ret>>

Init ==
  /\ pairs = [p \in Key \X Value |-> 0]
  /\ exact = TRUE
  /\ phase = "idle"
  /\ call \in [op : {"read"}, k : Key, v : Value]
  /\ ret = None

Call(o, k, v) ==
  /\ phase = "idle"
  /\ phase' = "called"
  /\ call' = [op |-> o, k |-> k, v |-> v]
  /\ UNCHANGED <<pairs, exact, ret>>

Change(v, n) ==
  /\ phase = "called"
  /\ phase' = "done"
  /\ pairs' = [pairs EXCEPT ![<<call.k, v>>] = n]
  /\ UNCHANGED <<exact, call, ret>>

Store == call.op = "write" /\ Change(call.v, pairs[<<call.k, call.v>>] + 1)

Remove ==
  /\ call.op = "delete"
  /\ \E v \in Value : pairs[<<call.k, v>>] > 0 /\ Change(v, pairs[<<call.k, v>>] - 1)

(* A call that changed the table returns; the value is delete's "true".    *)
Return ==
  /\ phase = "done"
  /\ phase' = "idle"
  /\ ret' = (call.op = "delete")
  /\ UNCHANGED <<pairs, exact, call>>

(* A call that changes nothing.                                            *)
Answer(v) ==
  /\ phase = "called"
  /\ phase' = "idle"
  /\ ret' = v
  /\ UNCHANGED <<pairs, exact, call>>

Found == call.op = "read" /\ \E v \in Value : pairs[<<call.k, v>>] > 0 /\ Answer(v)

NotFound ==
  /\ call.op \in {"read", "delete"}
  /\ exact => \A v \in Value : pairs[<<call.k, v>>] = 0
  /\ Answer(IF call.op = "read" THEN None ELSE FALSE)

Dropped == call.op = "write" /\ Answer(FALSE)

Resize ==
  /\ phase = "idle"
  /\ exact' = FALSE
  /\ UNCHANGED <<pairs, phase, call, ret>>

Step == Store \/ Remove \/ Return \/ Found \/ NotFound \/ Dropped

Next ==
  \/ \E o \in {"read", "write", "delete"}, k \in Key, v \in Value : Call(o, k, v)
  \/ Step
  \/ Resize

(* A call that was made returns.  Nobody has to call.                      *)
Fairness == WF_vars(Step)

Spec == Init /\ [][Next]_vars /\ Fairness
=============================================================================
