----------------------------- MODULE LLORAM1024 -----------------------------
(***************************************************************************)
(* LLORAM1024: an array of numbers packed in the blocks of an LLORAM, B to *)
(* a block (1024 in the code).  A write reads the block, changes one of    *)
(* its numbers and writes it back.  The LLORAM is the BlockStore that      *)
(* LLORAM.tla implements, and the result is another one, of B addresses    *)
(* for each of its.                                                        *)
(***************************************************************************)
EXTENDS Naturals

CONSTANTS
  B, Capacity,
  Value, ZeroValue

ASSUME PackingAssumption ==
  B \in Nat \ {0} /\ Capacity \in Nat /\ ZeroValue \in Value

VARIABLES
  size, mem, phase, op, addr, data,   \* p, and data1
  pc,         \* "idle", or the access under way: "read", "change" or "write"
  call,       \* the operation called and its address
  value       \* the value to write, and the value that was read

p == <<size, mem, phase, op, addr, data>>
vars == <<p, pc, call, value>>

Block == [0..(B - 1) -> Value]
ZeroBlock == [b \in 0..(B - 1) |-> ZeroValue]

Oram == INSTANCE BlockStore WITH
  Addr <- 0..Capacity, Val <- Block, Zero <- ZeroBlock
-----------------------------------------------------------------------------
Init ==
  /\ size = Capacity /\ addr = 0 /\ Oram!Init
  /\ pc = "idle" /\ call = [op |-> "read", addr |-> 0] /\ value = ZeroValue

Start(o, n, v) ==
  /\ pc = "idle"
  /\ pc' = "read"
  /\ call' = [op |-> o, addr |-> n]
  /\ value' = IF o = "write" THEN v ELSE value
  /\ Oram!Invoke("read", n \div B, data)

(* Both accesses are refused; Read returns what data1 happens to hold.     *)
Refused(n, v) ==
  /\ pc = "idle"
  /\ Oram!Reject(n \div B, data)
  /\ value' = v
  /\ UNCHANGED <<pc, call>>

OramStep == Oram!Effect /\ UNCHANGED <<pc, call, value>>

ReadReturns ==
  /\ pc = "read" /\ call.op = "read"
  /\ Oram!Return
  /\ pc' = "idle"
  /\ value' = data[call.addr % B]
  /\ UNCHANGED call

Change ==
  /\ pc = "read" /\ call.op = "write"
  /\ Oram!Return
  /\ pc' = "change"
  /\ UNCHANGED <<call, value>>

(* Slip: the block written is a new one.                                   *)
NewBlock_Cleared == [ZeroBlock EXCEPT ![call.addr % B] = value]
NewBlock == [data EXCEPT ![call.addr % B] = value]

WriteBack ==
  /\ pc = "change"
  /\ pc' = "write"
  /\ Oram!Invoke("write", call.addr \div B, NewBlock)
  /\ UNCHANGED <<call, value>>

WriteReturns ==
  /\ pc = "write"
  /\ Oram!Return
  /\ pc' = "idle"
  /\ UNCHANGED <<call, value>>

Step == OramStep \/ ReadReturns \/ Change \/ WriteBack \/ WriteReturns

(* The addresses used, up to one block beyond the last.                    *)
Numbers == 0..((Capacity + 2) * B - 1)

Next ==
  \/ \E o \in {"read", "write"}, n \in Numbers, v \in Value : Start(o, n, v)
  \/ \E n \in Numbers, v \in Value : Refused(n, v)
  \/ Step

Spec == Init /\ [][Next]_vars /\ WF_vars(Step)
-----------------------------------------------------------------------------
(* Between the two accesses of a write, the caller's block is the one that *)
(* is stored, or its change: nothing is written back that was not read.    *)
TypeInv ==
  /\ size = Capacity /\ mem \in [0..Capacity -> Block] /\ data \in Block
  /\ call \in [op : {"read", "write"}, addr : Numbers] /\ value \in Value
  /\ phase \in {"idle", "called", "done"}
  /\ pc \in {"idle", "read", "change", "write"}
  /\ pc \in {"idle", "change"} <=> phase = "idle"
  /\ pc \in {"change", "write"} => call.op = "write"
  /\ pc # "idle" => call.addr \div B <= size
  /\ pc \in {"read", "write"} => op = pc /\ addr = call.addr \div B
  /\ pc = "change" \/ (pc = "read" /\ phase = "done") =>
       data = mem[call.addr \div B]
  /\ pc = "write" /\ phase = "called" =>
       data = [mem[addr] EXCEPT ![call.addr % B] = value]

Array == INSTANCE BlockStore WITH
  Addr <- Numbers, Val <- Value, Zero <- ZeroValue,
  size <- (size + 1) * B - 1,
  mem <- [n \in Numbers |-> IF n \div B > size THEN ZeroValue
                                               ELSE mem[n \div B][n % B]],
  phase <- CASE pc = "idle" -> "idle"
             [] phase = "done" /\ pc = call.op -> "done"
             [] OTHER -> "called",
  op <- call.op,
  addr <- call.addr,
  data <- IF pc = "read" /\ call.op = "read" /\ phase = "done"
            THEN data[call.addr % B] ELSE value

(* The numbers are an array of their own: writing one leaves the others of *)
(* its block as they are, the last one accepted is the last of the last    *)
(* block, and every call returns.                                          *)
IsArray == Array!Spec
=============================================================================
