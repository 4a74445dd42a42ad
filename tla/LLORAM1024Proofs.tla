------------------------- MODULE LLORAM1024Proofs -------------------------
(***************************************************************************)
(* LLORAM1024 implements an array of numbers, for every capacity and       *)
(* number of numbers in a block: the safety part of IsArray.               *)
(***************************************************************************)
EXTENDS LLORAM1024, Integers, TLAPS
-----------------------------------------------------------------------------
(* Quotient and remainder.                                                 *)

LEMMA PlaceInBlock ==
  ASSUME NEW n \in Nat
  PROVE  n \div B \in Nat /\ n % B \in 0..(B - 1)
BY PackingAssumption

LEMMA BlockAndPlace ==
  ASSUME NEW n \in Nat
  PROVE  n = (B * (n \div B)) + (n % B)
BY PackingAssumption

(* A number is where no other is. *)
LEMMA OwnPlace ==
  ASSUME NEW n \in Nat, NEW m \in Nat, n \div B = m \div B, n % B = m % B
  PROVE  n = m
BY BlockAndPlace

(* The numbers accepted are those of the blocks accepted. *)
LEMMA LastNumber ==
  ASSUME NEW n \in Nat, NEW s \in Nat
  PROVE  n <= (s + 1) * B - 1 <=> n \div B <= s
<1> DEFINE a == n \div B
           r == n % B
<1>1. a \in Nat /\ r \in 0..(B - 1) /\ n = (B * a) + r
  BY PlaceInBlock, BlockAndPlace
<1> HIDE DEF a, r
<1>2. CASE a <= s
  <2>1. B * a <= B * s
    BY <1>1, <1>2, PackingAssumption
  <2> QED
    BY <1>1, <1>2, <2>1, PackingAssumption DEF a
<1>3. CASE a > s
  <2>1. B * a >= B * (s + 1)
    BY <1>1, <1>3, PackingAssumption
  <2> QED
    BY <1>1, <1>3, <2>1, PackingAssumption DEF a
<1> QED
  BY <1>1, <1>2, <1>3

LEMMA NumbersAreNat == Numbers \subseteq Nat
BY DEF Numbers
-----------------------------------------------------------------------------
(* Types, and what is in the caller's block.                               *)

LEMMA TypeInit == Init => TypeInv
<1> SUFFICES ASSUME Init PROVE TypeInv
  OBVIOUS
<1>1. 0 \in Numbers
  <2>1. (Capacity + 2) * B \in Nat /\ (Capacity + 2) * B >= 1
    BY PackingAssumption
  <2> QED
    BY <2>1 DEF Numbers
<1>2. ZeroBlock \in Block
  BY PackingAssumption DEF ZeroBlock, Block
<1> QED
  BY <1>1, <1>2, PackingAssumption DEF Init, TypeInv, Oram!Init

LEMMA TypeStart ==
  ASSUME TypeInv, NEW o \in {"read", "write"}, NEW n \in Numbers,
         NEW v \in Value, Start(o, n, v)
  PROVE  TypeInv'
BY DEF TypeInv, Start, Oram!Invoke

LEMMA TypeOramStep == TypeInv /\ OramStep => TypeInv'
<1> SUFFICES ASSUME TypeInv, OramStep PROVE TypeInv'
  OBVIOUS
<1>1. /\ pc \in {"read", "write"} /\ op = pc /\ addr = call.addr \div B
      /\ call.addr \in Nat /\ addr \in 0..Capacity
  BY NumbersAreNat, PlaceInBlock, PackingAssumption
     DEF TypeInv, OramStep, Oram!Effect
<1>2. mem' \in [0..Capacity -> Block] /\ data' \in Block
  BY <1>1 DEF TypeInv, OramStep, Oram!Effect
<1>3. pc = "read" => data' = mem'[call.addr \div B]
  BY <1>1 DEF TypeInv, OramStep, Oram!Effect
<1> QED
  BY <1>1, <1>2, <1>3 DEF TypeInv, OramStep, Oram!Effect

LEMMA TypeReadReturns == TypeInv /\ ReadReturns => TypeInv'
<1> SUFFICES ASSUME TypeInv, ReadReturns PROVE TypeInv'
  OBVIOUS
<1>1. call.addr % B \in 0..(B - 1)
  BY NumbersAreNat, PlaceInBlock DEF TypeInv
<1>2. data[call.addr % B] \in Value
  BY <1>1 DEF TypeInv, Block
<1> QED
  BY <1>2 DEF TypeInv, ReadReturns, Oram!Return

LEMMA TypeChange == TypeInv /\ Change => TypeInv'
BY DEF TypeInv, Change, Oram!Return

LEMMA TypeWriteBack == TypeInv /\ WriteBack => TypeInv'
<1> SUFFICES ASSUME TypeInv, WriteBack PROVE TypeInv'
  OBVIOUS
<1>1. NewBlock \in Block
  BY DEF TypeInv, WriteBack, NewBlock, Block
<1> QED
  BY <1>1 DEF TypeInv, WriteBack, NewBlock, Oram!Invoke

LEMMA TypeWriteReturns == TypeInv /\ WriteReturns => TypeInv'
BY DEF TypeInv, WriteReturns, Oram!Return

LEMMA TypeNext == TypeInv /\ [Next]_vars => TypeInv'
<1> SUFFICES ASSUME TypeInv, [Next]_vars PROVE TypeInv'
  OBVIOUS
<1>1. ASSUME NEW n \in Numbers, NEW v \in Value, Refused(n, v)
      PROVE  TypeInv'
  BY <1>1 DEF TypeInv, Refused, Oram!Reject
<1>2. CASE UNCHANGED vars
  BY <1>2 DEF TypeInv, vars, p
<1> QED
  BY <1>1, <1>2, TypeStart, TypeOramStep, TypeReadReturns, TypeChange,
     TypeWriteBack, TypeWriteReturns DEF Next, Step

(* The state keeps its shape, and a write writes back the block it read    *)
(* with one number changed, in every state of LLORAM1024.                  *)
THEOREM TypeCorrect == Spec => []TypeInv
<1> QED
  BY TypeInit, TypeNext, PTL DEF Spec
-----------------------------------------------------------------------------
(* The steps as steps of the array.                                        *)

ArrayMem == [n \in Numbers |-> IF n \div B > size THEN ZeroValue
                                                  ELSE mem[n \div B][n % B]]
ArrayPhase == CASE pc = "idle" -> "idle"
                [] phase = "done" /\ pc = call.op -> "done"
                [] OTHER -> "called"
ArrayData == IF pc = "read" /\ call.op = "read" /\ phase = "done"
               THEN data[call.addr % B] ELSE value

LEMMA ArrayInit == Init => Array!Init
<1> SUFFICES ASSUME Init PROVE Array!Init
  OBVIOUS
<1>1. (size + 1) * B - 1 \in Nat
  <2>1. (size + 1) * B \in Nat /\ (size + 1) * B >= 1
    BY PackingAssumption DEF Init
  <2> QED
    BY <2>1
<1>2. ArrayMem = [n \in Numbers |-> ZeroValue]
  <2>1. ASSUME NEW n \in Numbers, n \div B <= size
        PROVE  mem[n \div B][n % B] = ZeroValue
    <3>1. n \in Nat /\ n \div B \in Nat /\ n % B \in 0..(B - 1)
      BY NumbersAreNat, PlaceInBlock
    <3>2. n \div B \in 0..Capacity
      BY <2>1, <3>1, PackingAssumption DEF Init
    <3> QED
      BY <3>1, <3>2 DEF Init, Oram!Init, ZeroBlock
  <2>2. ASSUME NEW n \in Numbers
        PROVE  (n \div B > size) \/ (n \div B <= size)
    BY NumbersAreNat, PlaceInBlock, PackingAssumption DEF Init
  <2> QED
    BY <2>1, <2>2 DEF ArrayMem
<1> QED
  BY <1>1, <1>2, PackingAssumption DEF Init, Array!Init, ArrayMem

LEMMA ArrayStart ==
  ASSUME TypeInv, NEW o \in {"read", "write"}, NEW n \in Numbers,
         NEW v \in Value, Start(o, n, v)
  PROVE  Array!Invoke(o, n, v)
<1>1. n <= (size + 1) * B - 1
  BY LastNumber, NumbersAreNat, PackingAssumption
     DEF TypeInv, Start, Oram!Invoke
<1>2. ArrayMem' = ArrayMem
  BY DEF ArrayMem, Start, Oram!Invoke
<1> QED
  BY <1>1, <1>2
     DEF TypeInv, Start, Oram!Invoke, Array!Invoke, ArrayMem

LEMMA ArrayRefused ==
  ASSUME TypeInv, NEW n \in Numbers, NEW v \in Value, Refused(n, v)
  PROVE  Array!Reject(n, v)
<1>1. n > (size + 1) * B - 1
  <2>1. n \div B > size /\ size \in Nat /\ n \in Nat
    BY NumbersAreNat, PackingAssumption DEF TypeInv, Refused, Oram!Reject
  <2>2. (size + 1) * B - 1 \in Int
    BY <2>1, PackingAssumption
  <2> QED
    BY <2>1, <2>2, LastNumber, PlaceInBlock
<1>2. ArrayMem' = ArrayMem
  BY DEF ArrayMem, Refused, Oram!Reject
<1> QED
  BY <1>1, <1>2 DEF TypeInv, Refused, Oram!Reject, Array!Reject, ArrayMem

(* A write of a block changes the array at one number. *)
LEMMA ArrayWrite ==
  ASSUME TypeInv, OramStep, pc = "write"
  PROVE  ArrayMem' = [ArrayMem EXCEPT ![call.addr] = value]
<1>1. /\ call.addr \in Numbers /\ call.addr \in Nat
      /\ addr = call.addr \div B /\ addr \in 0..Capacity
      /\ call.addr % B \in 0..(B - 1)
  <2>1. call.addr \in Numbers /\ addr = call.addr \div B /\ addr <= Capacity
    BY DEF TypeInv
  <2>2. call.addr \in Nat
    BY <2>1, NumbersAreNat
  <2>3. addr \in Nat /\ call.addr % B \in 0..(B - 1)
    BY <2>1, <2>2, PlaceInBlock
  <2> QED
    BY <2>1, <2>2, <2>3, PackingAssumption
<1>2. mem' = [mem EXCEPT ![addr] = [mem[addr] EXCEPT ![call.addr % B] = value]]
  BY DEF TypeInv, OramStep, Oram!Effect
<1>3. size' = size /\ call' = call /\ value' = value /\ size = Capacity
  BY DEF TypeInv, OramStep, Oram!Effect
<1>4. mem[addr] \in [0..(B - 1) -> Value]
  BY <1>1 DEF TypeInv, Block
<1>5. ASSUME NEW n \in Numbers
      PROVE  ArrayMem'[n] = [ArrayMem EXCEPT ![call.addr] = value][n]
  <2>1. n \in Nat /\ n \div B \in Nat /\ n % B \in 0..(B - 1)
    BY NumbersAreNat, PlaceInBlock
  <2>2. CASE n = call.addr
    BY <1>1, <1>2, <1>3, <1>4, <2>2, PackingAssumption DEF ArrayMem, TypeInv
  <2>3. CASE n # call.addr /\ n \div B = addr
    <3>1. n % B # call.addr % B
      BY <1>1, <2>1, <2>3, OwnPlace
    <3>2. mem'[addr][n % B] = mem[addr][n % B]
      BY <1>1, <1>2, <1>4, <2>1, <3>1 DEF TypeInv
    <3> QED
      BY <1>3, <2>3, <3>2 DEF ArrayMem
  <2>4. CASE n \div B # addr
    <3>1. n \div B <= size => mem'[n \div B] = mem[n \div B]
      BY <1>1, <1>2, <1>3, <2>1, <2>4, PackingAssumption DEF TypeInv
    <3> QED
      BY <1>1, <1>3, <2>1, <2>4, <3>1, PackingAssumption DEF ArrayMem
  <2> QED
    BY <2>2, <2>3, <2>4
<1> QED
  BY <1>5 DEF ArrayMem

LEMMA ArrayOramStep ==
  TypeInv /\ OramStep => Array!Effect \/ UNCHANGED Array!vars
<1> SUFFICES ASSUME TypeInv, OramStep
             PROVE  Array!Effect \/ UNCHANGED Array!vars
  OBVIOUS
<1>1. pc \in {"read", "write"} /\ op = pc /\ phase = "called" /\ phase' = "done"
  BY DEF TypeInv, OramStep, Oram!Effect
<1>2. UNCHANGED <<size, op, addr, pc, call, value>>
  BY DEF OramStep, Oram!Effect
<1>3. CASE pc = "read"
  <2>1. ArrayMem' = ArrayMem
    BY <1>1, <1>2, <1>3 DEF ArrayMem, OramStep, Oram!Effect
  <2>2. CASE call.op = "read"
    <3>1. data' = mem[call.addr \div B] /\ call.addr \in Numbers
      BY <1>1, <1>3 DEF TypeInv, OramStep, Oram!Effect
    <3>2. ~(call.addr \div B > size) /\ data'[call.addr % B] = ArrayMem[call.addr]
      <4>1. call.addr \div B \in Nat
        BY <3>1, NumbersAreNat, PlaceInBlock
      <4>2. call.addr \div B <= size /\ size \in Nat
        BY <1>3, PackingAssumption DEF TypeInv
      <4> QED
        BY <3>1, <4>1, <4>2 DEF ArrayMem
    <3> QED
      BY <1>1, <1>2, <1>3, <2>1, <2>2, <3>2 DEF Array!Effect, ArrayMem
  <2>3. CASE call.op = "write"
    BY <1>1, <1>2, <1>3, <2>1, <2>3 DEF Array!vars, ArrayMem
  <2> QED
    BY <2>2, <2>3 DEF TypeInv
<1>4. CASE pc = "write"
  <2>1. ArrayMem' = [ArrayMem EXCEPT ![call.addr] = value]
    BY <1>4, ArrayWrite
  <2>2. call.op = "write"
    BY <1>4 DEF TypeInv
  <2> QED
    BY <1>1, <1>2, <1>4, <2>1, <2>2 DEF Array!Effect, ArrayMem
<1> QED
  BY <1>1, <1>3, <1>4

LEMMA ArrayReadReturns == TypeInv /\ ReadReturns => Array!Return
BY DEF TypeInv, ReadReturns, Oram!Return, Array!Return

LEMMA ArrayChange == TypeInv /\ Change => UNCHANGED Array!vars
BY DEF TypeInv, Change, Oram!Return, Array!vars

LEMMA ArrayWriteBack == TypeInv /\ WriteBack => UNCHANGED Array!vars
BY DEF TypeInv, WriteBack, Oram!Invoke, Array!vars

LEMMA ArrayWriteReturns == TypeInv /\ WriteReturns => Array!Return
BY DEF TypeInv, WriteReturns, Oram!Return, Array!Return

LEMMA ArrayNext == TypeInv /\ [Next]_vars => [Array!Next]_(Array!vars)
<1> SUFFICES ASSUME TypeInv, [Next]_vars PROVE [Array!Next]_(Array!vars)
  OBVIOUS
<1>1. ASSUME NEW o \in {"read", "write"}, NEW n \in Numbers, NEW v \in Value,
             Start(o, n, v)
      PROVE  Array!Next
  BY <1>1, ArrayStart DEF Array!Next
<1>2. ASSUME NEW n \in Numbers, NEW v \in Value, Refused(n, v)
      PROVE  Array!Next
  BY <1>2, ArrayRefused DEF Array!Next
<1>3. CASE OramStep
  BY <1>3, ArrayOramStep DEF Array!Next
<1>4. CASE ReadReturns \/ WriteReturns
  BY <1>4, ArrayReadReturns, ArrayWriteReturns DEF Array!Next
<1>5. CASE Change \/ WriteBack
  BY <1>5, ArrayChange, ArrayWriteBack
<1>6. CASE UNCHANGED vars
  BY <1>6 DEF vars, p, Array!vars
<1> QED
  BY <1>1, <1>2, <1>3, <1>4, <1>5, <1>6 DEF Next, Step

(* Every step of LLORAM1024 is a step of an array of numbers or none: a    *)
(* write changes its number and no other of the block, a read returns the  *)
(* number last written, and what is refused changes nothing.               *)
THEOREM ImplementsArray == Spec => Array!Init /\ [][Array!Next]_(Array!vars)
<1> QED
  BY TypeInit, TypeNext, ArrayInit, ArrayNext, TypeCorrect, PTL DEF Spec
=============================================================================
