------------------------------ MODULE Operands ------------------------------
(***************************************************************************)
(* What get_operande (desasm.c) prints for an operand, with the functions  *)
(* of format_op.c that it calls, as operators.                             *)
(*                                                                         *)
(* A word is the set of its bits that are 1: OR is the union, AND the      *)
(* intersection.  A shift by an amount of 32 or more, which C leaves       *)
(* undefined, is by that amount modulo 32, as the processors the program   *)
(* is built for do it.                                                     *)
(***************************************************************************)
EXTENDS Integers, Sequences

Bits == 0..31
Word == SUBSET Bits

Up(v, n)   == {i + (n % 32) : i \in v} \cap Bits
Down(v, n) == {i - (n % 32) : i \in v} \cap Bits

(* (1 << n) - 1                                                            *)
Mask(n) == {i \in Bits : i < n % 32}

(* A champop: the bits of the operand, high fields first.  A field is      *)
(* <<fin, debut>>, or <<fin>> where the dictionary has a single number.    *)
Field == Seq(0..31)

(* immediate: sscanf leaves debut as it was when a field has one number:   *)
(* the one of the field before, or what the stack held (low) at first.     *)
Debut(champop, low) ==
  LET d[k \in 0..Len(champop)] ==
        IF k = 0 THEN low
        ELSE IF Len(champop[k]) = 2 THEN champop[k][2] ELSE d[k - 1]
  IN d

(* Mistake to detect: nb_bits is one too small.                            *)
NbBitsShort(champop, low, k) == champop[k][1] - Debut(champop, low)[k]

NbBits(champop, low, k) == champop[k][1] - Debut(champop, low)[k] + 1

Taille(champop, low) ==
  LET t[k \in 0..Len(champop)] ==
        IF k = 0 THEN 0 ELSE t[k - 1] + NbBits(champop, low, k)
  IN t[Len(champop)]

Immediate(champop, code, low) ==
  LET v[k \in 0..Len(champop)] ==
        IF k = 0 THEN {}
        ELSE LET n == NbBits(champop, low, k) IN
             Up(v[k - 1], n) \union (Down(code, Debut(champop, low)[k]) \cap Mask(n))
  IN v[Len(champop)] \cap Mask(Taille(champop, low))

(* signextend to 32 bits of a value of n bits.                             *)
SignExtend(v, n) == IF n - 1 \in v THEN v \union {i \in Bits : i >= n} ELSE v

(* LSR, LSL and ROR_C, of a value of n bits: the mask of 32 bits is empty. *)
LSR(v, n, m) == IF m = 0 THEN v ELSE Down(v, m) \cap Mask(n)
LSL(v, n, m) == IF m = 0 THEN v ELSE Up(v, m) \cap Mask(n)

RotateC(v, n, shift) ==
  IF shift = 0 THEN v
  ELSE (LSR(v, n, shift % n) \union LSL(v, n, shift % n)) \cap Mask(n)

(* The reading of the n low bits of v after the number a: from the highest *)
(* to the lowest, each doubles what is read.                               *)
Reading(a, v, n) ==
  LET s[i \in 0..n] == IF i = 0 THEN a ELSE 2 * s[i - 1] + (IF n - i \in v THEN 1 ELSE 0)
  IN s

Number(v, n) == Reading(0, v, n)[n]

(* thumbexpandIMM_c: a byte repeated, or 1 and seven bits rotated.  No     *)
(* value is given for a zero byte repeated.                                *)
NoExpansion(v) == v \cap {10, 11} = {} /\ v \cap {8, 9} # {} /\ v \cap 0..7 = {}

ThumbExpand(v) ==
  LET byte == v \cap 0..7 IN
  IF v \cap {10, 11} # {}
  THEN RotateC({7} \union (v \cap 0..6), 32, Number(Down(v, 7), 5))
  ELSE IF v \cap {8, 9} = {} THEN byte
  ELSE IF v \cap {8, 9} = {8} THEN byte \union Up(byte, 16)
  ELSE IF v \cap {8, 9} = {9} THEN Up(byte, 8) \union Up(byte, 24)
  ELSE byte \union Up(byte, 8) \union Up(byte, 16) \union Up(byte, 24)

(* decodeIMMshift: the amount, for the two bits of the type; a right shift *)
(* by 0 stands for 32, and a rotation by 0 for one bit.                    *)
Amount(type, v) ==
  IF v # {} \/ type = {} THEN v ELSE IF type = {0, 1} THEN {0} ELSE {5}

(* TYPE_ENUM is indexed by the bits of the type, and not by the shift      *)
(* decoded: a rotation bears the name RRX.                                 *)
TypeName(type) ==
  IF type = {} THEN "LSL" ELSE IF type = {0} THEN "LSR"
  ELSE IF type = {1} THEN "ASR" ELSE "RRX"

(* The offset of BL and B.T4.                                              *)
Offset(v, code) ==
  LET b == v \cap 0..20
      s == IF 23 \in code
           THEN b \union {i \in {21, 22} : (IF i = 21 THEN 11 ELSE 13) \in code} \union {23}
           ELSE b \union {i \in {22} : 13 \notin code}
  IN SignExtend(Up(s, 1), 24)

TypeOp == {"NONE", "RGSTR", "IMMEDIATE32", "IMMEDIATE32P00", "THEXPIMM",
           "THEXPIMM_C", "DECIMMSHFT", "SGNEXTP0", "SGNEXT_B", "REGLIST", "ITBLCK"}

(* The arguments printed: what comes before the value, and the value.      *)
Before == {"R", "#", "LSL", "LSR", "ASR", "RRX", "registers", "condition", "inconnu"}

Arg(type, champop, code, low) ==
  LET v == Immediate(champop, code, low) IN
  CASE type = "RGSTR"          -> <<"R", v>>
    [] type = "IMMEDIATE32"    -> <<"#", v>>
    [] type = "IMMEDIATE32P00" -> <<"#", Up(v, 2)>>
    [] type \in {"THEXPIMM", "THEXPIMM_C"} -> <<"#", ThumbExpand(v)>>
    [] type = "SGNEXTP0" -> <<"#", Up(SignExtend(v, Taille(champop, low)), 1)>>
    [] type = "SGNEXT_B" -> <<"#", Offset(v, code)>>
    [] type = "DECIMMSHFT" ->
         LET t == Down(code, 4) \cap {0, 1} IN <<TypeName(t), Amount(t, v)>>
    [] type = "REGLIST" -> <<"registers", v>>
    [] type = "ITBLCK"  -> <<"condition", v>>
    [] OTHER -> <<"inconnu", {}>>

(* printf reads the value through a null pointer.                          *)
ArgFaults(type, champop, code, low) ==
  type \in {"THEXPIMM", "THEXPIMM_C"} /\ NoExpansion(Immediate(champop, code, low))
=============================================================================
