----------------------------- MODULE BlockStore -----------------------------
(***************************************************************************)
(* What an LLORAM<T> object promises its caller: it is an array of values, *)
(* all zero at first (T b = {0}), that can be read and written one address *)
(* at a time and that can grow without losing what it holds.  Calls are    *)
(* sequential.  A call takes effect at one instant between its invocation  *)
(* and its return; a call on an address beyond the capacity is refused and *)
(* leaves the caller's value undefined (read() returns a T it never set).  *)
(*                                                                         *)
(* LLORAM.tla implements this module.                                      *)
(***************************************************************************)
EXTENDS Naturals

CONSTANTS
  Addr,   \* the addresses callers use
  Val,    \* the values of type T
  Zero    \* T{0}, what an address holds before it is written

VARIABLES
  size,   \* the highest address accepted
  mem,    \* mem[a] is the value stored at address a
  phase,  \* "idle", "called" (no effect yet) or "done" (not yet returned)
  op,     \* the operation called: "read" or "write"
  addr,   \* its address
  data    \* the caller's variable: the value to write, then the value read

vars == <<size, mem, phase, op, addr, data>>

Init ==
  /\ size \in Nat
  /\ mem = [a \in Addr |-> Zero]
  /\ phase = "idle"
  /\ op = "read"
  /\ addr \in Nat
  /\ data = Zero

Invoke(o, a, v) ==
  /\ phase = "idle"
  /\ a <= size
  /\ phase' = "called"
  /\ op' = o
  /\ addr' = a
  /\ data' = IF o = "write" THEN v ELSE data
  /\ UNCHANGED <<size, mem>>

Reject(a, v) ==
  /\ phase = "idle"
  /\ a > size
  /\ data' = v
  /\ UNCHANGED <<size, mem, phase, op, addr>>

Effect ==
  /\ phase = "called"
  /\ phase' = "done"
  /\ IF op = "write"
       THEN mem' = [mem EXCEPT ![addr] = data] /\ data' = data
       ELSE data' = mem[addr] /\ mem' = mem
  /\ UNCHANGED <<size, op, addr>>

Return ==
  /\ phase = "done"
  /\ phase' = "idle"
  /\ UNCHANGED <<size, mem, op, addr, data>>

Grow ==
  /\ phase = "idle"
  /\ size' \in {n \in Nat : n > size}
  /\ UNCHANGED <<mem, phase, op, addr, data>>

Next ==
  \/ \E o \in {"read", "write"}, a \in Addr, v \in Val : Invoke(o, a, v)
  \/ \E a \in Addr, v \in Val : Reject(a, v)
  \/ Effect
  \/ Return
  \/ Grow

(* A call that was made takes effect and returns.  Nobody has to call.     *)
Fairness == WF_phase(Effect) /\ WF_phase(Return)

Spec == Init /\ [][Next]_vars /\ Fairness
=============================================================================
