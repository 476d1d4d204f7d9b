---------------------------- MODULE DisasmProofs ----------------------------
(***************************************************************************)
(* The disassembler, for all dictionaries, texts and ranges: the variables *)
(* keep their types and the walk stays within an instruction of the end of *)
(* the text; up to the end of its range it releases no operand twice; it   *)
(* prints every instruction of the range, and nothing else; and each line  *)
(* bears the name of what was read and the operands that its code encodes. *)
(***************************************************************************)
EXTENDS Disasm, Induction, TLAPS

(* Nothing was allocated as long as the range has not begun.               *)
NullBefore ==
  pc = "walk" /\ Base + step <= start => \A c \in Cells : op[c] = "null"

(* Only cond and IT write a name, in rows of their own.                    *)
Renamed == {"B.T1", "B.T3", "IT.T1"}

NamesInv ==
  \A k \in Keys : RowAt(k).id \notin Renamed => names[k] = RowAt(k).mnemo

IInv == TypeOK /\ NullBefore /\ NamesInv /\ NamedAsRead

LEMMA Parameters ==
  /\ Base \in Nat /\ TextMax \in Nat /\ Turns \in Nat /\ MaxCommands \in Nat
  /\ Addresses \subseteq Nat /\ Beyond \subseteq Byte
  /\ \A t \in Texts : t \in Seq(Byte) /\ Len(t) <= TextMax
BY DisasmAssumption

-----------------------------------------------------------------------------
(* Operands                                                                *)

LEMMA Shifts ==
  ASSUME NEW v, NEW n
  PROVE  Up(v, n) \in Word /\ Down(v, n) \in Word /\ Mask(n) \in Word
BY DEF Up, Down, Mask, Word

LEMMA ImmediateType ==
  ASSUME NEW champop, NEW code, NEW low
  PROVE  Immediate(champop, code, low) \in Word
<1>1. Mask(Taille(champop, low)) \in Word
  BY Shifts
<1> QED BY <1>1, Zenon DEF Immediate, Word

LEMMA ExtendType ==
  ASSUME NEW v \in Word, NEW n
  PROVE  SignExtend(v, n) \in Word
BY DEF SignExtend, Word

LEMMA RotateType ==
  ASSUME NEW v \in Word, NEW n, NEW m
  PROVE  RotateC(v, n, m) \in Word
<1>1. \A w : w \cap Mask(n) \in Word
  BY Shifts DEF Word
<1> QED BY <1>1 DEF RotateC

LEMMA ThumbExpandType ==
  ASSUME NEW v \in Word
  PROVE  ThumbExpand(v) \in Word
<1> DEFINE byte == v \cap 0..7
<1>1. byte \in Word
  BY DEF Word
<1>2. {7} \union (v \cap 0..6) \in Word
  BY DEF Word, Bits
<1>3. RotateC({7} \union (v \cap 0..6), 32, Number(Down(v, 7), 5)) \in Word
  BY <1>2, RotateType
<1>4. \A n : Up(byte, n) \in Word
  BY Shifts
<1>5. \A a, b \in Word : a \union b \in Word
  BY DEF Word
<1> HIDE DEF byte
<1>6. /\ byte \union Up(byte, 16) \in Word
      /\ Up(byte, 8) \union Up(byte, 24) \in Word
      /\ byte \union Up(byte, 8) \union Up(byte, 16) \union Up(byte, 24) \in Word
  <2>1. /\ Up(byte, 8) \in Word /\ Up(byte, 16) \in Word /\ Up(byte, 24) \in Word
    BY <1>4
  <2>2. byte \union Up(byte, 8) \in Word
    BY <1>1, <1>5, <2>1
  <2>3. byte \union Up(byte, 8) \union Up(byte, 16) \in Word
    BY <1>5, <2>1, <2>2
  <2> QED BY <1>1, <1>5, <2>1, <2>3
<1> QED BY <1>1, <1>3, <1>6, Zenon DEF ThumbExpand, byte

LEMMA OffsetType ==
  ASSUME NEW v \in Word, NEW code \in Word
  PROVE  Offset(v, code) \in Word
<1>1. \A s : SignExtend(Up(s, 1), 24) \in Word
  BY Shifts, ExtendType
<1> QED BY <1>1, Zenon DEF Offset

LEMMA AmountType ==
  ASSUME NEW v \in Word, NEW type
  PROVE  Amount(type, v) \in Word
BY DEF Amount, Word, Bits

LEMMA ArgType ==
  ASSUME NEW type, NEW champop, NEW code \in Word, NEW low
  PROVE  Arg(type, champop, code, low) \in Before \X Word
<1> DEFINE v == Immediate(champop, code, low)
           e == Up(SignExtend(v, Taille(champop, low)), 1)
           t == Down(code, 4) \cap {0, 1}
<1>1. v \in Word /\ Up(v, 2) \in Word
  BY ImmediateType, Shifts
<1>2. {} \in Word
  BY DEF Word
<1>3. ThumbExpand(v) \in Word
  BY <1>1, ThumbExpandType
<1>4. Offset(v, code) \in Word
  BY <1>1, OffsetType
<1>5. e \in Word
  BY Shifts
<1>6. TypeName(t) \in Before
  BY Zenon DEF TypeName, Before
<1>7. Amount(t, v) \in Word
  BY <1>1, AmountType
<1>8. Arg(type, champop, code, low) \in
        {<<"R", v>>, <<"#", v>>, <<"#", Up(v, 2)>>, <<"#", ThumbExpand(v)>>, <<"#", e>>,
         <<"#", Offset(v, code)>>, <<TypeName(t), Amount(t, v)>>, <<"registers", v>>,
         <<"condition", v>>, <<"inconnu", {}>>}
  BY Zenon DEF Arg
<1> HIDE DEF v, e, t
<1>9. /\ <<"R", v>> \in Before \X Word
      /\ <<"#", v>> \in Before \X Word
      /\ <<"#", Up(v, 2)>> \in Before \X Word
      /\ <<"#", ThumbExpand(v)>> \in Before \X Word
      /\ <<"#", e>> \in Before \X Word
      /\ <<"#", Offset(v, code)>> \in Before \X Word
      /\ <<TypeName(t), Amount(t, v)>> \in Before \X Word
      /\ <<"registers", v>> \in Before \X Word
      /\ <<"condition", v>> \in Before \X Word
      /\ <<"inconnu", {}>> \in Before \X Word
  <2>1. {"R", "#", "registers", "condition", "inconnu"} \subseteq Before
    BY Zenon DEF Before
  <2>2. \A s \in Before, w \in Word : <<s, w>> \in Before \X Word
    BY Zenon
  <2> QED BY <1>1, <1>2, <1>3, <1>4, <1>5, <1>6, <1>7, <2>1, <2>2, Zenon
<1> QED BY <1>8, <1>9, Zenon
-----------------------------------------------------------------------------
(* Dictionaries                                                            *)

LEMMA DicosType ==
  ASSUME NEW n \in 1..2
  PROVE  /\ Dicos[n] \in Seq(Row)
         /\ \A i \in 1..Len(Dicos[n]) :
              /\ Len(Dicos[n][i].ops) \in 1..4
              /\ Dicos[n][i].mnemo = "IT" => Dicos[n][i].id = "IT.T1"
<1>1. Dicos[n] \in {Dico16, Dico32}
  BY DEF Dicos
<1> HIDE DEF Dicos
<1>2. CASE Dicos[n] = Dico16
  BY <1>2, DisasmAssumption
<1>3. CASE Dicos[n] = Dico32
  BY <1>3, DisasmAssumption
<1> QED BY <1>1, <1>2, <1>3

LEMMA KeyIntro ==
  ASSUME NEW n \in 1..2, NEW i \in 1..Len(Dicos[n])
  PROVE  <<n, i>> \in Keys /\ RowAt(<<n, i>>) = Dicos[n][i]
BY DEF Keys, RowAt

LEMMA RowType ==
  ASSUME NEW key \in Keys
  PROVE  /\ RowAt(key) \in Row
         /\ Len(RowAt(key).ops) \in 1..4
         /\ RowAt(key).mnemo = "IT" => RowAt(key).id = "IT.T1"
<1>1. PICK n \in 1..2 : key \in {n} \X (1..Len(Dicos[n]))
  BY DEF Keys
<1>2. PICK i \in 1..Len(Dicos[n]) : key = <<n, i>>
  BY <1>1
<1>3. RowAt(key) = Dicos[n][i]
  BY <1>2, KeyIntro
<1>4. Dicos[n] \in Seq(Row)
  BY DicosType
<1>5. Dicos[n][i] \in Row
  BY <1>4
<1> QED BY <1>3, <1>5, DicosType

LEMMA ByteAtType ==
  ASSUME text \in Seq(Byte), NEW k \in Nat
  PROVE  ByteAt(k) \subseteq Byte
BY Parameters DEF ByteAt

LEMMA HalfType ==
  ASSUME NEW lo \in Byte, NEW hi
  PROVE  Half(lo, hi) \in Word
<1>1. lo \in Word
  BY DEF Byte, Word, Bits
<1>2. Up(hi, 8) \in Word
  BY Shifts
<1> QED BY <1>1, <1>2 DEF Half, Word

LEMMA CodeType ==
  ASSUME NEW b \in Byte \X Byte \X Byte \X Byte
  PROVE  CodeOf(b) \in Word /\ SizeOf(b) \in 1..2
<1>1. b[1] \in Byte /\ b[3] \in Byte
  OBVIOUS
<1>2. Half(b[1], b[2]) \in Word /\ Half(b[3], b[4]) \in Word
  BY <1>1, HalfType
<1>3. Up(Half(b[1], b[2]), 16) \in Word
  BY Shifts
<1>4. Half(b[3], b[4]) \union Up(Half(b[1], b[2]), 16) \in Word
  BY <1>2, <1>3 DEF Word
<1> QED BY <1>2, <1>4 DEF CodeOf, SizeOf

LEMMA FetchedType ==
  ASSUME TypeOK, NEW r \in Fetched
  PROVE  r.size \in 1..2 /\ r.code \in Word
<1>1. PICK b \in ByteAt(step) \X ByteAt(step + 1) \X ByteAt(step + 2) \X ByteAt(step + 3) :
        r = [size |-> SizeOf(b), code |-> CodeOf(b)]
  BY DEF Fetched
<1>2. step \in Nat /\ text \in Seq(Byte)
  BY DEF TypeOK
<1>3. /\ ByteAt(step) \subseteq Byte /\ ByteAt(step + 1) \subseteq Byte
      /\ ByteAt(step + 2) \subseteq Byte /\ ByteAt(step + 3) \subseteq Byte
  BY <1>2, ByteAtType
<1>4. b \in Byte \X Byte \X Byte \X Byte
  BY <1>1, <1>3
<1>5. CodeOf(b) \in Word /\ SizeOf(b) \in 1..2
  BY <1>4, CodeType
<1> QED BY <1>1, <1>5

(* The row for a code is one of a dictionary, and matches it if any does.  *)
LEMMA RowForType ==
  ASSUME TypeOK, NEW r \in Fetched, NEW key \in RowFor(r)
  PROVE  key \in Keys /\ (Found(r) => Matches(RowAt(key), r.code))
<1>1. r.size \in 1..2
  BY FetchedType
<1>2. CASE Found(r)
  <2>1. PICK i \in 1..Len(Dicos[r.size]) : key = <<r.size, i>> /\ IsFirst(r, i)
    BY <1>2 DEF RowFor
  <2>2. key \in Keys /\ RowAt(key) = Dicos[r.size][i]
    BY <1>1, <2>1, KeyIntro
  <2> QED BY <2>1, <2>2 DEF IsFirst
<1>3. CASE ~Found(r)
  BY <1>3 DEF RowFor, TypeOK
<1> QED BY <1>2, <1>3
-----------------------------------------------------------------------------
(* Names                                                                   *)

LEMMA ValueType ==
  ASSUME NEW code, NEW low
  PROVE  Value(code, low) \in 0..15
<1>1. \A i : Bit(code, i) \in 0..1
  BY DEF Bit
<1> QED BY <1>1 DEF Value

LEMMA ConditionsType ==
  ASSUME NEW i \in 1..15
  PROVE  Conditions[i] \in Names /\ Conditions[i] # "IT"
<1>1. Conditions[i] \in Names
  BY DEF Names
<1>2. Conditions[i] # "IT"
  BY DEF Conditions
<1> QED BY <1>1, <1>2

LEMMA ITNamesType ==
  ASSUME NEW code, NEW n \in ITNames(code)
  PROVE  n \in Names
<1>1. \A i : Else(code, i) \in 0..1
  BY DEF Else
<1> DEFINE x == 1 + 4 * Else(code, 3) + 2 * Else(code, 2) + Else(code, 1)
           y == 1 + 2 * Else(code, 3) + Else(code, 2)
<1>2. x \in 1..8 /\ y \in 1..4
  BY <1>1
<1> HIDE DEF x, y
<1>3. Blocks4[x] \in BlockNames /\ Blocks3[y] \in BlockNames
  BY <1>2 DEF BlockNames
<1>4. "IT" \in BlockNames /\ "ITT" \in BlockNames /\ "ITE" \in BlockNames
  BY DEF BlockNames
<1>5. n \in {Blocks4[x], Blocks3[y], "IT", "ITT", "ITE"}
  BY Zenon DEF ITNames, x, y
<1>6. n \in BlockNames
  BY <1>3, <1>4, <1>5
<1> QED BY <1>6 DEF Names

LEMMA CondType ==
  ASSUME TypeOK, NEW key \in Keys, NEW code
  PROVE  /\ Cond(key, code) \in Names
         /\ RowAt(key).id \notin Renamed => Cond(key, code) = names[key]
         /\ RowAt(key).id = "B.T1" /\ Value(code, 8) # 15
              => Cond(key, code) = Conditions[Value(code, 8) + 1]
<1> DEFINE id == RowAt(key).id
           v == Value(code, Branch[id])
<1>1. names[key] \in Names
  BY DEF TypeOK
<1>2. Len(Conditions) = 15
  BY DEF Conditions
<1>3. v \in 0..15 /\ Value(code, 8) \in 0..15
  BY ValueType
<1>4. DOMAIN Branch = {"B.T1", "B.T3"} /\ Branch["B.T1"] = 8
  BY DEF Branch
<1>5. Cond(key, code) =
        IF id \in DOMAIN Branch /\ v < Len(Conditions) THEN Conditions[v + 1] ELSE names[key]
  BY Zenon DEF Cond
<1>6. id = "B.T1" => v = Value(code, 8)
  BY <1>4
<1> HIDE DEF v
<1>7. v < 15 => Conditions[v + 1] \in Names
  BY <1>3, ConditionsType
<1>8. Cond(key, code) \in Names
  BY <1>1, <1>2, <1>5, <1>7
<1>9. id \notin Renamed => Cond(key, code) = names[key]
  BY <1>4, <1>5 DEF Renamed
<1>10. ASSUME id = "B.T1", Value(code, 8) # 15
       PROVE  Cond(key, code) = Conditions[Value(code, 8) + 1]
  <2>1. v = Value(code, 8) /\ v < 15
    BY <1>3, <1>6, <1>10
  <2> QED BY <1>2, <1>4, <1>5, <1>10, <2>1
<1> QED BY <1>8, <1>9, <1>10

LEMMA NamesOfType ==
  ASSUME TypeOK, NamesInv, NEW key \in Keys, NEW code, NEW n \in NamesOf(key, code)
  PROVE  /\ n \in Names
         /\ RowAt(key).id \notin Renamed => n = RowAt(key).mnemo
         /\ RowAt(key).id = "B.T1" /\ Value(code, 8) # 15
              => n = Conditions[Value(code, 8) + 1]
<1>1. CASE Cond(key, code) = "IT"
  <2>1. n \in Names
    BY <1>1, ITNamesType DEF NamesOf
  <2>2. RowAt(key).id \in Renamed
    <3> SUFFICES ASSUME RowAt(key).id \notin Renamed
                 PROVE  FALSE
      OBVIOUS
    <3>1. RowAt(key).mnemo = "IT"
      BY <1>1, CondType DEF NamesInv
    <3>2. RowAt(key).id = "IT.T1"
      BY <3>1, RowType
    <3> QED BY <3>2 DEF Renamed
  <2>3. ~(RowAt(key).id = "B.T1" /\ Value(code, 8) # 15)
    <3>1. Value(code, 8) \in 0..15
      BY ValueType
    <3>2. Value(code, 8) # 15 => Conditions[Value(code, 8) + 1] # "IT"
      BY <3>1, ConditionsType
    <3> QED BY <1>1, <3>2, CondType
  <2> QED BY <2>1, <2>2, <2>3
<1>2. CASE Cond(key, code) # "IT"
  <2>1. n = Cond(key, code)
    BY <1>2 DEF NamesOf
  <2> QED BY <2>1, CondType DEF NamesInv
<1> QED BY <1>1, <1>2

-----------------------------------------------------------------------------
(* Lines                                                                   *)

LEMMA LineIsTyped ==
  ASSUME TypeOK, NEW r \in Fetched, NEW key \in Keys, NEW low,
         names' \in [Keys -> Names]
  PROVE  Line(r, key, low) \in LineType
<1> DEFINE ops == RowAt(key).ops
<1>1. Len(ops) \in Nat
  BY RowType
<1>2. r.code \in Word
  BY FetchedType
<1>3. \A k \in 1..Len(ops) : Arg(ops[k].type, ops[k].champop, r.code, low) \in Before \X Word
  BY <1>2, ArgType
<1>4. Args(key, r.code, low) \in Seq(Before \X Word)
  <2>1. Args(key, r.code, low) \in [1..Len(ops) -> Before \X Word]
    BY <1>3 DEF Args
  <2> HIDE DEF ops
  <2> QED BY <1>1, <2>1
<1>5. Base + step \in Nat
  <2>1. step \in Nat
    BY Zenon DEF TypeOK
  <2> QED BY <2>1, Parameters
<1> QED BY <1>2, <1>4, <1>5 DEF Line, LineType

LEMMA GrownType ==
  ASSUME text \in Seq(Byte), Len(text) <= TextMax, NEW a \in Nat
  PROVE  /\ Grown(a) \in Seq(Byte)
         /\ Len(Grown(a)) <= TextMax
<1>1. CASE a \in Window /\ a > Base + Len(text)
  <2> DEFINE n == a - Base
  <2>1. n \in Nat /\ n <= TextMax
    BY <1>1, Parameters DEF Window
  <2>2. Grown(a) = [i \in 1..n |-> IF i <= Len(text) THEN text[i] ELSE {}]
    BY <1>1 DEF Grown
  <2>3. \A i \in 1..n : (IF i <= Len(text) THEN text[i] ELSE {}) \in Byte
    BY <2>1 DEF Byte
  <2> HIDE DEF n
  <2>4. Grown(a) \in [1..n -> Byte]
    BY <2>2, <2>3
  <2>5. Grown(a) \in Seq(Byte) /\ Len(Grown(a)) = n
    BY <2>1, <2>2, <2>4
  <2> QED BY <2>1, <2>5
<1>2. CASE ~(a \in Window /\ a > Base + Len(text))
  BY <1>2 DEF Grown
<1> QED BY <1>1, <1>2
-----------------------------------------------------------------------------
(* Steps of the walk                                                       *)

LEMMA RenameKeeps ==
  ASSUME TypeOK, NamesInv, NEW r \in Fetched, NEW key \in Keys, Rename(r, key)
  PROVE  /\ names' \in [Keys -> Names]
         /\ NamesInv'
         /\ names'[key] \in NamesOf(key, r.code)
<1>1. PICK n \in NamesOf(key, r.code) : names' = [names EXCEPT ![key] = n]
  BY DEF Rename
<1>2. names \in [Keys -> Names]
  BY Zenon DEF TypeOK
<1>3. n \in Names /\ (RowAt(key).id \notin Renamed => n = RowAt(key).mnemo)
  BY NamesOfType
<1>4. names' \in [Keys -> Names] /\ names'[key] = n
  BY <1>1, <1>2, <1>3
<1>5. \A k \in Keys : RowAt(k).id \notin Renamed => names'[k] = RowAt(k).mnemo
  BY <1>1, <1>2, <1>3 DEF NamesInv
<1> QED BY <1>1, <1>4, <1>5 DEF NamesInv

LEMMA PassKeeps ==
  ASSUME TypeOK, NamesInv, NEW r \in Fetched, NEW key \in RowFor(r), More, Pass(r, key)
  PROVE  /\ step' \in Nat /\ step' > step /\ step' <= Len(text) + 3
         /\ turns' \in 0..Turns
         /\ inst' \in Keys
<1>1. step \in Nat /\ turns \in 0..Turns /\ Len(text) \in Nat
  <2>1. step \in Nat /\ turns \in 0..Turns /\ text \in Seq(Byte)
    BY Zenon DEF TypeOK
  <2> QED BY <2>1
<1>2. r.size \in 1..2
  BY FetchedType
<1>3. step <= Len(text) - 1
  BY DEF More
<1>4. step' = step + 2 * r.size
  BY DEF Pass, Advance
<1>5. turns' = IF turns < Turns THEN turns + 1 ELSE turns
  BY DEF Pass
<1>6. inst' \in Keys
  BY RowForType DEF Pass
<1>7. turns' \in 0..Turns
  BY <1>1, <1>5, Parameters
<1> QED BY <1>1, <1>2, <1>3, <1>4, <1>6, <1>7

LEMMA ReleaseKeeps ==
  ASSUME NEW cells \in [Cells -> {"null", "live", "freed"}], ub \in BOOLEAN,
         NEW key \in Keys, Release(cells, key)
  PROVE  /\ op' \in [Cells -> {"null", "live", "freed"}]
         /\ ub' \in BOOLEAN
         /\ (\A c \in Cells : cells[c] = "null") => op' = cells
         /\ (\A c \in Cells : cells[c] # "freed") => ub' = ub
<1> DEFINE n == Len(RowAt(key).ops)
           gone == 0..n - 1
<1>1. gone \subseteq Cells
  <2>1. n \in 1..4
    BY RowType
  <2> HIDE DEF n
  <2> QED BY <2>1 DEF Cells
<1>2. /\ op' = [c \in Cells |-> IF c \in gone /\ cells[c] = "live" THEN "freed" ELSE cells[c]]
      /\ ub' = (ub \/ \E c \in gone : cells[c] = "freed")
  BY DEF Release
<1> HIDE DEF gone
<1>3. op' \in [Cells -> {"null", "live", "freed"}]
  BY <1>2
<1>4. ub' \in BOOLEAN
  BY <1>2, Zenon
<1>5. (\A c \in Cells : cells[c] = "null") => op' = cells
  BY <1>2
<1>6. (\A c \in Cells : cells[c] # "freed") => ub' = ub
  BY <1>1, <1>2, Zenon
<1> QED BY <1>3, <1>4, <1>5, <1>6

LEMMA FreshType == /\ Fresh \in [Cells -> {"null", "live", "freed"}]
                   /\ \A c \in Cells : Fresh[c] = "live"
BY DEF Fresh

LEMMA Frames ==
  /\ names' = names /\ NamesInv => NamesInv'
  /\ lines' = lines /\ NamedAsRead => NamedAsRead'
  /\ lines' = <<>> => NamedAsRead'
<1>1. names' = names /\ NamesInv => NamesInv'
  BY DEF NamesInv
<1>2. lines' = lines /\ NamedAsRead => NamedAsRead'
  BY DEF NamedAsRead
<1>3. lines' = <<>> => NamedAsRead'
  BY DEF NamedAsRead
<1> QED BY <1>1, <1>2, <1>3

(* Only Show prints, and what it prints has the name of its row.           *)
LEMMA LineNamed ==
  ASSUME TypeOK, NamesInv, NamedAsRead, NEW r \in Fetched, NEW key \in RowFor(r), Found(r),
         Rename(r, key), NEW low, lines' = Append(lines, Line(r, key, low))
  PROVE  NamedAsRead'
<1> DEFINE l == Line(r, key, low)
<1>1. key \in Keys /\ Matches(RowAt(key), r.code)
  BY RowForType
<1>2. names'[key] \in NamesOf(key, r.code)
  BY <1>1, RenameKeeps
<1>3. l.key = key /\ l.code = r.code /\ l.name = names'[key]
  BY DEF Line
<1>4. /\ RowAt(key).id \notin Renamed => l.name = RowAt(key).mnemo
      /\ RowAt(key).id = "B.T1" /\ Value(r.code, 8) # 15
           => l.name = Conditions[Value(r.code, 8) + 1]
  BY <1>1, <1>2, <1>3, NamesOfType
<1>5. lines \in Seq(LineType)
  BY Zenon DEF TypeOK
<1> HIDE DEF l
<1>6. lines' = Append(lines, l)
  BY DEF l
<1>7. Len(lines') = Len(lines) + 1 /\ Len(lines) \in Nat
  BY <1>5, <1>6
<1>8. \A i \in 1..Len(lines') :
        IF i = Len(lines') THEN lines'[i] = l ELSE i \in 1..Len(lines) /\ lines'[i] = lines[i]
  BY <1>5, <1>6, <1>7
<1> SUFFICES ASSUME NEW i \in 1..Len(lines')
             PROVE  LET m == lines'[i]  row == RowAt(m.key) IN
                    /\ Matches(row, m.code)
                    /\ row.id = "B.T1" /\ Value(m.code, 8) # 15
                         => m.name = Conditions[Value(m.code, 8) + 1]
                    /\ row.id \notin {"B.T1", "B.T3", "IT.T1"} => m.name = row.mnemo
  BY DEF NamedAsRead
<1>9. CASE i = Len(lines')
  <2>1. lines'[i] = l
    BY <1>8, <1>9
  <2> QED BY <1>1, <1>3, <1>4, <2>1 DEF Renamed
<1>10. CASE i # Len(lines')
  <2>1. i \in 1..Len(lines) /\ lines'[i] = lines[i]
    BY <1>8, <1>10
  <2> QED BY <2>1 DEF NamedAsRead
<1> QED BY <1>9, <1>10
-----------------------------------------------------------------------------
(* The invariant                                                           *)

LEMMA InitInv == Init => IInv
<1> SUFFICES ASSUME Init PROVE IInv
  OBVIOUS
<1>1. names \in [Keys -> Names]
  <2>1. \A k \in Keys : RowAt(k).mnemo \in Names
    BY DEF Names
  <2> QED BY <2>1 DEF Init
<1>2. op \in [Cells -> {"null", "live", "freed"}]
  BY DEF Init
<1>3. text \in Seq(Byte) /\ Len(text) <= TextMax /\ lines \in Seq(LineType)
  BY Parameters DEF Init
<1>4. turns \in 0..Turns /\ count \in 0..MaxCommands /\ step \in Nat
  BY Parameters DEF Init
<1>5. TypeOK
  <2>1. /\ pc = "idle" /\ where = "nothing" /\ start = 0 /\ stop = 0 /\ inst = NULL
        /\ ret = OK /\ up = TRUE /\ ub = FALSE
    BY DEF Init
  <2> QED BY <1>1, <1>2, <1>3, <1>4, <2>1 DEF TypeOK
<1>6. NullBefore /\ NamesInv /\ NamedAsRead
  <2>1. pc = "idle" /\ lines = <<>> /\ names = [k \in Keys |-> RowAt(k).mnemo]
    BY DEF Init
  <2>2. NamedAsRead
    BY <2>1 DEF NamedAsRead
  <2> QED BY <2>1, <2>2 DEF NullBefore, NamesInv
<1> QED BY <1>5, <1>6 DEF IInv

(* The commands, until one begins a walk.                                  *)
LEMMA LoadInv == IInv /\ Load => IInv'
<1> SUFFICES ASSUME IInv, Load PROVE IInv'
  OBVIOUS
<1> USE DEF IInv
<1>1. text' \in Seq(Byte) /\ Len(text') <= TextMax /\ where' \in {"text", "no text"}
  <2>1. (where' = "text" /\ \E t \in Texts : text' = t) \/ (where' = "no text" /\ text' = <<>>)
    BY DEF Load
  <2>2. CASE text' = <<>>
    <3>1. <<>> \in Seq(Byte) /\ Len(<<>>) <= TextMax
      BY Parameters
    <3> QED BY <2>1, <2>2, <3>1, Zenon
  <2>3. CASE \E t \in Texts : text' = t
    BY <2>1, <2>3, Parameters
  <2> QED BY <2>1, <2>2, <2>3
<1>2. count' \in 0..MaxCommands
  <2>1. count \in 0..MaxCommands
    BY Zenon DEF TypeOK
  <2>2. count < MaxCommands /\ count' = count + 1
    BY DEF Load
  <2> QED BY <2>1, <2>2, Parameters
<1>3. pc = "idle" /\ UNCHANGED <<pc, range, walk, names, lines, ret, up, ub>>
  BY DEF Load
<1>4. TypeOK'
  BY <1>1, <1>2, <1>3 DEF TypeOK, range, walk
<1>5. NullBefore'
  BY <1>3 DEF NullBefore
<1> QED BY <1>3, <1>4, <1>5, Frames

LEMMA TypedType ==
  ASSUME TypeOK, NEW a \in Addresses, NEW b \in Addresses, NEW colon, Typed(a, b, colon)
  PROVE  /\ start' \in Addresses /\ stop' \in Addresses
         /\ lines' = <<>> /\ lines' \in Seq(LineType)
         /\ count' \in 0..MaxCommands
         /\ up /\ pc = "idle"
<1>1. count \in 0..MaxCommands
  BY Zenon DEF TypeOK
<1>2. count < MaxCommands /\ count' = count + 1
  BY DEF Typed
<1>3. count' \in 0..MaxCommands
  BY <1>1, <1>2, Parameters
<1> QED BY <1>3 DEF Typed

(* A command that does not begin a walk.                                   *)
LEMMA IdleInv ==
  ASSUME IInv, NEW a \in Addresses, NEW b \in Addresses, NEW colon, Typed(a, b, colon),
         ret' \in {OK, ERR}, up' \in BOOLEAN,
         text' \in Seq(Byte), Len(text') <= TextMax,
         UNCHANGED <<pc, where, walk, names, ub>>
  PROVE  IInv'
<1> USE DEF IInv
<1>1. /\ start' \in Addresses /\ stop' \in Addresses
      /\ lines' = <<>> /\ lines' \in Seq(LineType)
      /\ count' \in 0..MaxCommands
      /\ pc = "idle"
  BY TypedType
<1>2. TypeOK'
  BY <1>1 DEF TypeOK, walk
<1>3. NullBefore'
  BY <1>1 DEF NullBefore
<1> QED BY <1>1, <1>2, <1>3, Frames

LEMMA TextType == TypeOK => text \in Seq(Byte) /\ Len(text) <= TextMax
BY Zenon DEF TypeOK

LEMMA RefuseInv == IInv /\ Refuse => IInv'
<1> SUFFICES ASSUME IInv, Refuse PROVE IInv'
  OBVIOUS
<1>1. PICK a, b \in Addresses, colon \in BOOLEAN :
        /\ Typed(a, b, colon)
        /\ ret' = ERR
        /\ UNCHANGED <<pc, segment, walk, names, up, ub>>
  BY DEF Refuse
<1>2. text' = text /\ where' = where
  BY <1>1 DEF segment
<1>3. up' \in BOOLEAN
  BY <1>1, TypedType DEF IInv
<1> QED BY <1>1, <1>2, <1>3, TextType, IdleInv DEF IInv

LEMMA NoTextInv == IInv /\ NoText => IInv'
<1> SUFFICES ASSUME IInv, NoText PROVE IInv'
  OBVIOUS
<1>1. PICK a, b \in Addresses, colon \in BOOLEAN :
        /\ Typed(a, b, colon)
        /\ ret' = ERR
        /\ up' = (where = "nothing")
        /\ UNCHANGED <<pc, segment, walk, names, ub>>
  BY DEF NoText
<1>2. text' = text /\ where' = where
  BY <1>1 DEF segment
<1>3. up' \in BOOLEAN
  BY <1>1, Zenon
<1> QED BY <1>1, <1>2, <1>3, TextType, IdleInv DEF IInv

LEMMA OutsideInv == IInv /\ Outside => IInv'
<1> SUFFICES ASSUME IInv, Outside PROVE IInv'
  OBVIOUS
<1>1. PICK a, b \in Addresses, colon \in BOOLEAN :
        /\ Typed(a, b, colon)
        /\ ret' = ERR
        /\ text' = IF b <= Base + Len(text) THEN Grown(a) ELSE text
        /\ UNCHANGED <<pc, where, walk, names, up, ub>>
  BY DEF Outside
<1>2. text \in Seq(Byte) /\ Len(text) <= TextMax
  BY TextType DEF IInv
<1>3. Grown(a) \in Seq(Byte) /\ Len(Grown(a)) <= TextMax
  BY <1>2, GrownType, Parameters
<1>4. text' \in Seq(Byte) /\ Len(text') <= TextMax
  BY <1>1, <1>2, <1>3
<1>5. up' \in BOOLEAN
  BY <1>1, TypedType DEF IInv
<1> QED BY <1>1, <1>4, <1>5, IdleInv DEF IInv

LEMMA WalkInv == IInv /\ Walk => IInv'
<1> SUFFICES ASSUME IInv, Walk PROVE IInv'
  OBVIOUS
<1> USE DEF IInv
<1>1. PICK a, b \in Addresses, colon \in BOOLEAN :
        /\ Typed(a, b, colon)
        /\ text' = Grown(a)
        /\ pc' = "walk"
        /\ step' = 0 /\ turns' = 0 /\ inst' = NULL
        /\ op' = [c \in Cells |-> "null"]
        /\ UNCHANGED <<where, names, ret, up, ub>>
  BY DEF Walk
<1>2. /\ start' \in Addresses /\ stop' \in Addresses
      /\ lines' = <<>> /\ lines' \in Seq(LineType)
      /\ count' \in 0..MaxCommands
  BY <1>1, TypedType
<1>3. text' \in Seq(Byte) /\ Len(text') <= TextMax
  BY <1>1, TextType, GrownType, Parameters
<1>4. step' \in Nat /\ step' <= Len(text') + 3 /\ turns' \in 0..Turns
  BY <1>1, <1>3, Parameters
<1>5. op' \in [Cells -> {"null", "live", "freed"}] /\ \A c \in Cells : op'[c] = "null"
  BY <1>1
<1>6. TypeOK'
  BY <1>1, <1>2, <1>3, <1>4, <1>5 DEF TypeOK
<1>7. NullBefore'
  BY <1>5 DEF NullBefore
<1> QED BY <1>1, <1>2, <1>6, <1>7, Frames

(* The steps of the walk.                                                  *)
LEMMA Unchanged == IInv /\ UNCHANGED vars => IInv'
<1> SUFFICES ASSUME IInv, UNCHANGED vars PROVE IInv'
  OBVIOUS
<1> USE DEF IInv
<1>1. TypeOK'
  BY DEF TypeOK, vars
<1>2. NullBefore'
  BY DEF NullBefore, vars
<1> QED BY <1>1, <1>2, Frames DEF vars

(* The death of the emulator.                                              *)
LEMMA DiesInv ==
  ASSUME IInv, up' = FALSE,
         UNCHANGED <<pc, segment, range, walk, names, lines, ret, ub, count>>
  PROVE  IInv'
<1> USE DEF IInv
<1>1. TypeOK'
  BY DEF TypeOK, segment, range, walk
<1>2. NullBefore'
  BY DEF NullBefore, segment, range, walk
<1> QED BY <1>1, <1>2, Frames

LEMMA StopInv ==
  ASSUME IInv, NEW value \in {OK, ERR}, Return(value),
         UNCHANGED <<inst, names, op, lines, up, ub>>
  PROVE  IInv'
<1> USE DEF IInv
<1>1. pc' = "idle" /\ ret' \in {OK, ERR} /\ UNCHANGED <<segment, range, step, turns, count>>
  BY DEF Return
<1>2. TypeOK'
  BY <1>1 DEF TypeOK, segment, range
<1>3. NullBefore'
  BY <1>1 DEF NullBefore
<1> QED BY <1>2, <1>3, Frames

LEMMA Later == \A b, s, t, a \in Nat : t > s /\ a <= b + s => ~(b + t <= a)
OBVIOUS

LEMMA Earlier == \A b, s, t, a \in Nat : t > s /\ b + t <= a => b + s <= a
OBVIOUS

LEMMA HiddenStep ==
  ASSUME IInv, NEW r \in Fetched, NEW key \in RowFor(r), Walking, ~Shown,
         Pass(r, key), Release(op, key),
         UNCHANGED <<pc, segment, range, lines, ret, up, count>>
  PROVE  IInv' /\ (~ub /\ ub' => Base + step > stop)
<1> USE DEF IInv
<1>1. key \in Keys
  BY RowForType
<1>2. More /\ pc = "walk"
  BY DEF Walking
<1>3. /\ step' \in Nat /\ step' > step /\ step' <= Len(text) + 3
      /\ turns' \in 0..Turns
      /\ inst' \in Keys
  BY <1>2, PassKeeps
<1>4. Rename(r, key)
  BY DEF Pass
<1>5. names' \in [Keys -> Names] /\ NamesInv'
  BY <1>1, <1>4, RenameKeeps
<1>6. op \in [Cells -> {"null", "live", "freed"}] /\ ub \in BOOLEAN
  BY Zenon DEF TypeOK
<1>7. /\ op' \in [Cells -> {"null", "live", "freed"}]
      /\ ub' \in BOOLEAN
      /\ (\A c \in Cells : op[c] = "null") => op' = op
      /\ (\A c \in Cells : op[c] # "freed") => ub' = ub
  BY <1>1, <1>6, ReleaseKeeps
<1>8. text' = text /\ where' = where /\ start' = start /\ stop' = stop
  BY DEF segment, range
<1>9. TypeOK'
  BY <1>3, <1>5, <1>7, <1>8 DEF TypeOK
<1>10. step \in Nat /\ start \in Nat /\ stop \in Nat /\ Base \in Nat
  <2>1. step \in Nat /\ start \in Addresses \union {0} /\ stop \in Addresses \union {0}
    BY Zenon DEF TypeOK
  <2> QED BY <2>1, Parameters
<1>11. Base + step <= start => \A c \in Cells : op[c] = "null"
  BY <1>2 DEF NullBefore
<1>12. NullBefore'
  <2> SUFFICES ASSUME Base + step' <= start
               PROVE  \A c \in Cells : op'[c] = "null"
    BY <1>8 DEF NullBefore
  <2>1. Base + step <= start
    <3>1. step' \in Nat /\ step' > step
      BY <1>3
    <3> QED BY <1>10, <3>1, Earlier
  <2> QED BY <1>7, <1>11, <2>1
<1>13. ASSUME ~(Base + step > stop)
       PROVE  ub' = ub
  <2>1. Base + step <= start
    BY <1>10, <1>13 DEF Shown
  <2>2. \A c \in Cells : op[c] # "freed"
    BY <1>11, <2>1
  <2> QED BY <1>7, <2>2
<1> QED BY <1>5, <1>9, <1>12, <1>13, Frames

LEMMA ShowStep ==
  ASSUME IInv, NEW r \in Fetched, NEW key \in RowFor(r), Found(r), Walking, Shown,
         Pass(r, key), Release(Fresh, key),
         NEW low, lines' = Append(lines, Line(r, key, low)),
         UNCHANGED <<pc, segment, range, ret, up, count>>
  PROVE  IInv' /\ ub' = ub
<1> USE DEF IInv
<1>1. key \in Keys
  BY RowForType
<1>2. More
  BY DEF Walking
<1>3. /\ step' \in Nat /\ step' > step /\ step' <= Len(text) + 3
      /\ turns' \in 0..Turns
      /\ inst' \in Keys
  BY <1>2, PassKeeps
<1>4. Rename(r, key)
  BY DEF Pass
<1>5. names' \in [Keys -> Names] /\ NamesInv'
  BY <1>1, <1>4, RenameKeeps
<1>6. ub \in BOOLEAN /\ lines \in Seq(LineType)
  BY Zenon DEF TypeOK
<1>7. op' \in [Cells -> {"null", "live", "freed"}] /\ ub' \in BOOLEAN /\ ub' = ub
  <2>1. \A c \in Cells : Fresh[c] # "freed"
    BY FreshType
  <2> QED BY <1>1, <1>6, <2>1, FreshType, ReleaseKeeps
<1>8. text' = text /\ where' = where /\ start' = start /\ stop' = stop
  BY DEF segment, range
<1>9. Line(r, key, low) \in LineType
  BY <1>1, <1>5, LineIsTyped
<1>10. lines' \in Seq(LineType)
  BY <1>6, <1>9
<1>11. TypeOK'
  BY <1>3, <1>5, <1>7, <1>8, <1>10 DEF TypeOK
<1>12. NullBefore'
  <2>1. step \in Nat /\ start \in Nat /\ Base \in Nat
    <3>1. step \in Nat /\ start \in Addresses \union {0}
      BY Zenon DEF TypeOK
    <3> QED BY <3>1, Parameters
  <2>2. start <= Base + step
    BY DEF Shown
  <2>3. ~(Base + step' <= start)
    <3>1. step' \in Nat /\ step' > step
      BY <1>3
    <3> QED BY <2>1, <2>2, <3>1, Later
  <2> QED BY <1>8, <2>3 DEF NullBefore
<1>13. NamedAsRead'
  BY <1>4, LineNamed
<1> QED BY <1>5, <1>7, <1>11, <1>12, <1>13

LEMMA UnknownInv == IInv /\ Unknown => IInv'
<1> SUFFICES ASSUME IInv, Unknown PROVE IInv'
  OBVIOUS
<1> USE DEF IInv
<1>1. PICK r \in Read : \E key \in RowFor(r) : inst' = key /\ Rename(r, key)
  BY DEF Unknown
<1>2. PICK key \in RowFor(r) : inst' = key /\ Rename(r, key)
  BY <1>1
<1>3. r \in Fetched
  BY DEF Read
<1>4. key \in Keys
  BY <1>3, RowForType
<1>5. names' \in [Keys -> Names] /\ NamesInv'
  BY <1>2, <1>3, <1>4, RenameKeeps
<1>6. /\ op' = Fresh /\ Return(ERR) /\ UNCHANGED <<lines, up, ub>>
  BY DEF Unknown
<1>7. pc' = "idle" /\ ret' = ERR /\ UNCHANGED <<segment, range, step, turns, count>>
  BY <1>6 DEF Return
<1>8. TypeOK'
  BY <1>2, <1>4, <1>5, <1>6, <1>7, FreshType DEF TypeOK, segment, range
<1>9. NullBefore'
  BY <1>7 DEF NullBefore
<1> QED BY <1>5, <1>6, <1>8, <1>9, Frames

LEMMA NextInv == IInv /\ [Next]_vars => IInv'
<1> SUFFICES ASSUME IInv, [Next]_vars PROVE IInv'
  OBVIOUS
<1>1. CASE Load
  BY <1>1, LoadInv
<1>2. CASE Refuse
  BY <1>2, RefuseInv
<1>3. CASE NoText
  BY <1>3, NoTextInv
<1>4. CASE Outside
  BY <1>4, OutsideInv
<1>5. CASE Walk
  BY <1>5, WalkInv
<1>6. CASE StopAtEnd
  BY <1>6, StopInv DEF StopAtEnd
<1>7. CASE StopAtZero
  BY <1>7, StopInv DEF StopAtZero
<1>8. CASE NoRow
  BY <1>8, DiesInv DEF NoRow
<1>9. CASE Hidden
  <2>1. PICK r \in Read : \E key \in RowFor(r) : Pass(r, key) /\ Release(op, key)
    BY <1>9 DEF Hidden
  <2>2. PICK key \in RowFor(r) : Pass(r, key) /\ Release(op, key)
    BY <2>1
  <2>3. r \in Fetched
    BY DEF Read
  <2> QED BY <1>9, <2>2, <2>3, HiddenStep DEF Hidden
<1>10. CASE Show
  BY <1>10, ShowStep DEF Show, Read
<1>11. CASE ShowFaults
  BY <1>11, DiesInv DEF ShowFaults
<1>12. CASE Unknown
  BY <1>12, UnknownInv
<1>13. CASE HeapBreaks
  BY <1>13, DiesInv DEF HeapBreaks
<1>14. CASE Over \/ UNCHANGED vars
  BY <1>14, Unchanged DEF Over
<1> QED BY <1>1, <1>2, <1>3, <1>4, <1>5, <1>6, <1>7, <1>8, <1>9, <1>10, <1>11, <1>12,
           <1>13, <1>14 DEF Next

-----------------------------------------------------------------------------
(* The variables keep their types, and the walk never reads more than the  *)
(* end of an instruction that begins in the text (the test of step > arr   *)
(* in lecture_txt).                                                        *)
THEOREM TypeCorrect == Spec => []TypeOK
<1>1. IInv => TypeOK
  BY DEF IInv
<1> QED BY <1>1, InitInv, NextInv, PTL DEF Spec

(* As long as the range is not over, lecture_txt releases nothing twice.   *)
THEOREM ReleaseInRange == Spec => ReleaseOnceInRange
<1>1. IInv /\ [Next]_vars => (~ub /\ ub' => Base + step > stop)
  <2> SUFFICES ASSUME IInv, [Next]_vars, ~ub, ub'
               PROVE  Base + step > stop
    OBVIOUS
  <2>1. CASE Hidden
    <3>1. PICK r \in Read : \E key \in RowFor(r) : Pass(r, key) /\ Release(op, key)
      BY <2>1 DEF Hidden
    <3>2. PICK key \in RowFor(r) : Pass(r, key) /\ Release(op, key)
      BY <3>1
    <3>3. r \in Fetched
      BY DEF Read
    <3> QED BY <2>1, <3>2, <3>3, HiddenStep DEF Hidden
  <2>2. CASE Show
    <3>1. ub' = ub
      BY <2>2, ShowStep DEF Show, Read
    <3> QED BY <3>1
  <2>3. CASE ~Hidden /\ ~Show
    <3>1. ub' = ub
      BY <2>3 DEF Next, Load, Refuse, NoText, Outside, Walk, StopAtEnd, StopAtZero, NoRow,
           ShowFaults, Unknown, HeapBreaks, Over, vars
    <3> QED BY <3>1
  <2> QED BY <2>1, <2>2, <2>3
<1> QED BY <1>1, InitInv, NextInv, PTL DEF Spec, ReleaseOnceInRange

(* Each line printed names what was read, whatever the commands before it  *)
(* wrote in the dictionaries (cond and IT).                                *)
THEOREM NamesHonest == Spec => []NamedAsRead
<1>1. IInv => NamedAsRead
  BY DEF IInv
<1> QED BY <1>1, InitInv, NextInv, PTL DEF Spec
-----------------------------------------------------------------------------
(* The offsets at which the instructions of a text begin                   *)

LEMMA FollowingType ==
  ASSUME NEW t \in Seq(Byte), NEW o \in Nat
  PROVE  /\ Following(t, o) \in Nat
         /\ Following(t, o) = o \/ Following(t, o) >= o + 2
         /\ Following(t, o) = o <=> o + 1 >= Len(t)
         /\ Following(t, o) # o => Following(t, o) = IF Is32(t[o + 2]) THEN o + 4 ELSE o + 2
<1>1. Len(t) \in Nat
  OBVIOUS
<1> QED BY <1>1 DEF Following

IsStarts(t, s) ==
  /\ s \in [0..Len(t) -> Nat]
  /\ s[0] = 0
  /\ \A n \in 1..Len(t) : s[n] = Following(t, s[n - 1])

LEMMA StartsDef ==
  ASSUME NEW t \in Seq(Byte)
  PROVE  \E s : IsStarts(t, s) /\ StartsOf(t) = {s[n] : n \in 0..Len(t)}
<1> DEFINE g == [n \in 1..Len(t) |-> [o \in Nat |-> Following(t, o)]]
           f == CHOOSE s : s = [n \in 0..Len(t) |-> IF n = 0 THEN 0 ELSE Following(t, s[n - 1])]
<1>1. Len(t) \in Nat /\ \A n \in 1..Len(t), o \in Nat : g[n][o] \in Nat
  <2>1. \A o \in Nat : Following(t, o) \in Nat
    BY FollowingType
  <2> QED BY <2>1
<1>2. \A n \in 1..Len(t), o \in Nat : g[n][o] = Following(t, o)
  OBVIOUS
<1> HIDE DEF g
<1>3. PICK s : StepsTo(Len(t), Nat, 0, g, s)
  BY <1>1, StepByStep
<1>4. \A n \in 1..Len(t) : s[n] = Following(t, s[n - 1])
  <2>1. \A n \in 1..Len(t) : n - 1 \in 0..Len(t)
    BY <1>1
  <2> QED BY <1>2, <1>3, <2>1 DEF StepsTo
<1>5. s = [n \in 0..Len(t) |-> IF n = 0 THEN 0 ELSE Following(t, s[n - 1])]
  BY <1>1, <1>3, <1>4 DEF StepsTo
<1>6. f = [n \in 0..Len(t) |-> IF n = 0 THEN 0 ELSE Following(t, f[n - 1])]
  BY <1>5, Zenon
<1>7. StartsOf(t) = {f[n] : n \in 0..Len(t)}
  BY Zenon DEF StartsOf
<1> HIDE DEF f
<1>8. f[0] = 0 /\ \A n \in 1..Len(t) : f[n] = Following(t, f[n - 1])
  <2>1. 0 \in 0..Len(t) /\ \A n \in 1..Len(t) : n \in 0..Len(t) /\ n # 0
    BY <1>1
  <2> QED BY <1>6, <2>1, Zenon
<1>9. \A n \in 0..Len(t) : f[n] \in Nat
  <2> DEFINE S == {n \in 0..Len(t) : f[n] \in Nat}
  <2>1. 0 \in S
    BY <1>1, <1>8
  <2>2. \A n \in 0..Len(t) - 1 : n \in S => n + 1 \in S
    <3> SUFFICES ASSUME NEW n \in 0..Len(t) - 1, n \in S
                 PROVE  n + 1 \in S
      OBVIOUS
    <3>1. n + 1 \in 1..Len(t) /\ (n + 1) - 1 = n
      BY <1>1
    <3>2. f[n + 1] = Following(t, f[n])
      BY <1>8, <3>1
    <3>3. f[n + 1] \in Nat
      BY <3>2, FollowingType
    <3> QED BY <1>1, <3>1, <3>3
  <2> HIDE DEF S
  <2>3. \A n \in 0..Len(t) : n \in S
    BY <1>1, <2>1, <2>2, UpTo
  <2> QED BY <2>3 DEF S
<1>10. f \in [0..Len(t) -> Nat]
  BY <1>6, <1>9
<1> QED BY <1>7, <1>8, <1>10 DEF IsStarts

(* After as many steps as there are bytes, there is nothing to follow.     *)
LEMMA StartsGrow ==
  ASSUME NEW t \in Seq(Byte), NEW s, IsStarts(t, s)
  PROVE  /\ \A n \in 0..Len(t) - 1 : s[n] <= s[n + 1] /\ s[n + 1] = Following(t, s[n])
         /\ Following(t, s[Len(t)]) = s[Len(t)]
<1>1. Len(t) \in Nat
  OBVIOUS
<1>2. \A n \in 0..Len(t) - 1 : s[n] \in Nat /\ s[n + 1] = Following(t, s[n])
  BY <1>1 DEF IsStarts
<1>3. ASSUME NEW n \in 0..Len(t) - 1
      PROVE  s[n] <= s[n + 1]
  <2>1. s[n] \in Nat /\ s[n + 1] = Following(t, s[n])
    BY <1>2
  <2>2. s[n + 1] \in Nat /\ (s[n + 1] = s[n] \/ s[n + 1] >= s[n] + 2)
    BY <2>1, FollowingType
  <2> QED BY <2>1, <2>2
<1> DEFINE S == {n \in 0..Len(t) : s[n] >= n \/ s[n] + 1 >= Len(t)}
<1>4. 0 \in S
  BY <1>1 DEF IsStarts
<1>5. ASSUME NEW n \in 0..Len(t) - 1, n \in S
      PROVE  n + 1 \in S
  <2>1. s[n] \in Nat /\ s[n + 1] = Following(t, s[n])
    BY <1>2
  <2>2. \/ s[n + 1] = s[n] /\ s[n] + 1 >= Len(t)
        \/ s[n + 1] >= s[n] + 2
    BY <2>1, FollowingType
  <2>3. s[n + 1] \in Nat
    BY <2>1, FollowingType
  <2> QED BY <1>1, <1>5, <2>1, <2>2, <2>3
<1>6. \A n \in 0..Len(t) - 1 : n \in S => n + 1 \in S
  BY <1>5
<1> HIDE DEF S
<1>7. \A n \in 0..Len(t) : n \in S
  BY <1>1, <1>4, <1>6, UpTo
<1>8. Len(t) \in S
  BY <1>1, <1>7
<1>9. s[Len(t)] \in Nat
  BY <1>1 DEF IsStarts
<1>10. s[Len(t)] + 1 >= Len(t)
  BY <1>1, <1>8, <1>9 DEF S
<1>11. Following(t, s[Len(t)]) = s[Len(t)]
  BY <1>9, <1>10, FollowingType
<1> QED BY <1>2, <1>3, <1>11

(* They are ordered as they follow.                                        *)
LEMMA StartsOrder ==
  ASSUME NEW t \in Seq(Byte), NEW s, IsStarts(t, s), NEW m \in 0..Len(t)
  PROVE  \A n \in m..Len(t) : s[m] <= s[n]
<1>1. Len(t) \in Nat /\ Len(t) - m \in Nat
  OBVIOUS
<1>2. \A n \in 0..Len(t) : s[n] \in Nat
  BY DEF IsStarts
<1> DEFINE S == {k \in 0..Len(t) - m : s[m] <= s[m + k]}
<1>3. 0 \in S
  BY <1>1, <1>2
<1>4. ASSUME NEW k \in 0..(Len(t) - m) - 1, k \in S
      PROVE  k + 1 \in S
  <2>1. m + k \in 0..Len(t) - 1 /\ (m + k) + 1 \in 0..Len(t) /\ m + (k + 1) = (m + k) + 1
    BY <1>1
  <2>2. s[m + k] <= s[(m + k) + 1]
    BY <2>1, StartsGrow
  <2>3. s[m] <= s[m + k]
    BY <1>4
  <2>4. s[m] \in Nat /\ s[m + k] \in Nat /\ s[(m + k) + 1] \in Nat
    BY <1>2, <2>1
  <2>5. s[m] <= s[(m + k) + 1]
    BY <2>2, <2>3, <2>4
  <2> QED BY <1>1, <2>1, <2>5
<1>5. \A k \in 0..(Len(t) - m) - 1 : k \in S => k + 1 \in S
  BY <1>4
<1> HIDE DEF S
<1>6. \A k \in 0..Len(t) - m : k \in S
  BY <1>1, <1>3, <1>5, UpTo
<1> SUFFICES ASSUME NEW n \in m..Len(t)
             PROVE  s[m] <= s[n]
  OBVIOUS
<1>7. n - m \in 0..Len(t) - m /\ m + (n - m) = n
  BY <1>1
<1> QED BY <1>6, <1>7 DEF S

(* They begin at 0; each is followed by the next; and there is none        *)
(* between the two.                                                        *)
LEMMA Starts ==
  ASSUME NEW t \in Seq(Byte)
  PROVE  /\ StartsOf(t) \subseteq Nat /\ 0 \in StartsOf(t)
         /\ \A o \in StartsOf(t) : Following(t, o) \in StartsOf(t)
         /\ \A o, p \in StartsOf(t) : p <= o \/ Following(t, o) <= p
<1>1. PICK s : IsStarts(t, s) /\ StartsOf(t) = {s[n] : n \in 0..Len(t)}
  BY StartsDef
<1>2. Len(t) \in Nat
  OBVIOUS
<1>3. \A n \in 0..Len(t) : s[n] \in Nat
  BY <1>1 DEF IsStarts
<1>4. s[0] = 0
  BY <1>1 DEF IsStarts
<1>5. \A n \in 0..Len(t) : s[n] \in StartsOf(t)
  BY <1>1
<1>6. \A o \in StartsOf(t) : \E n \in 0..Len(t) : o = s[n]
  BY <1>1
<1>7. StartsOf(t) \subseteq Nat /\ 0 \in StartsOf(t)
  BY <1>2, <1>3, <1>4, <1>5, <1>6
<1>8. ASSUME NEW o \in StartsOf(t)
      PROVE  Following(t, o) \in StartsOf(t)
  <2>1. PICK n \in 0..Len(t) : o = s[n]
    BY <1>6
  <2>2. CASE n = Len(t)
    BY <1>1, <2>1, <2>2, StartsGrow
  <2>3. CASE n # Len(t)
    <3>1. n \in 0..Len(t) - 1 /\ n + 1 \in 0..Len(t)
      BY <1>2, <2>3
    <3> QED BY <1>1, <1>5, <2>1, <3>1, StartsGrow
  <2> QED BY <2>2, <2>3
<1>9. ASSUME NEW o \in StartsOf(t), NEW p \in StartsOf(t)
      PROVE  p <= o \/ Following(t, o) <= p
  <2>1. PICK n \in 0..Len(t) : o = s[n]
    BY <1>6
  <2>2. PICK m \in 0..Len(t) : p = s[m]
    BY <1>6
  <2>3. CASE m <= n
    <3>1. n \in m..Len(t)
      BY <1>2, <2>3
    <3> QED BY <1>1, <2>1, <2>2, <3>1, StartsOrder
  <2>4. CASE m > n
    <3>1. n \in 0..Len(t) - 1 /\ n + 1 \in 0..Len(t) /\ m \in n + 1..Len(t)
      BY <1>2, <2>4
    <3>2. s[n + 1] <= s[m]
      BY <1>1, <3>1, StartsOrder
    <3>3. s[n + 1] = Following(t, s[n])
      BY <1>1, <3>1, StartsGrow
    <3> QED BY <2>1, <2>2, <3>2, <3>3
  <2> QED BY <2>3, <2>4
<1> QED BY <1>7, <1>8, <1>9
-----------------------------------------------------------------------------
(* What a walk has printed                                                 *)

(* t, s: the text and the offset reached; a, b: the range; l: the lines.   *)
AtStart(t, s) == s \in StartsOf(t) \/ s >= Len(t)

NoZero(t, s) == \A p \in StartsOf(t) : p < s /\ Whole(t, p) => CodeIn(t, p) # {}

Printed(t, s, a, b, l) ==
  \A o \in StartsOf(t) :
    o < s /\ Base + o \in a..b /\ Whole(t, o)
      => \E i \in 1..Len(l) : l[i].adr = Base + o /\ l[i].code = CodeIn(t, o)

Inside(t, s, a, b, l) ==
  \A i \in 1..Len(l) :
    l[i].adr \in a..b /\ l[i].adr < Base + s /\ l[i].adr - Base \in StartsOf(t)

InOrder(l) == \A i, j \in 1..Len(l) : i < j => l[i].adr < l[j].adr

SoFar(t, s, a, b, l) ==
  AtStart(t, s) /\ NoZero(t, s) /\ Printed(t, s, a, b, l) /\ Inside(t, s, a, b, l) /\ InOrder(l)

WalkedSoFar == pc = "walk" => SoFar(text, step, start, stop, lines)

(* The code read is that of the text, as far as the instruction goes.      *)
LEMMA SameCode ==
  ASSUME NEW b, NEW c, b[1] = c[1], b[2] = c[2], Is32(b[2]) => b[3] = c[3] /\ b[4] = c[4]
  PROVE  CodeOf(b) = CodeOf(c)
BY DEF CodeOf

LEMMA StepFollows ==
  ASSUME TypeOK, More, step \in StartsOf(text), NEW r \in Fetched
  PROVE  /\ step < Len(text)
         /\ step + 1 < Len(text) => step + 2 * r.size = Following(text, step)
         /\ step + 1 >= Len(text) => step + 2 * r.size >= Len(text)
         /\ Whole(text, step) => r.code = CodeIn(text, step)
<1>1. step \in Nat /\ Len(text) \in Nat /\ step <= Len(text) - 1
  <2>1. step \in Nat /\ text \in Seq(Byte)
    BY Zenon DEF TypeOK
  <2> QED BY <2>1 DEF More
<1>2. PICK b \in ByteAt(step) \X ByteAt(step + 1) \X ByteAt(step + 2) \X ByteAt(step + 3) :
        r = [size |-> SizeOf(b), code |-> CodeOf(b)]
  BY DEF Fetched
<1>3. /\ b[1] \in ByteAt(step) /\ b[2] \in ByteAt(step + 1)
      /\ b[3] \in ByteAt(step + 2) /\ b[4] \in ByteAt(step + 3)
  OBVIOUS
<1>4. r.size = SizeOf(b) /\ r.code = CodeOf(b)
  BY <1>2
<1>5. r.size = IF Is32(b[2]) THEN 2 ELSE 1
  BY <1>4 DEF SizeOf
<1>6. b[1] = text[step + 1]
  BY <1>1, <1>3 DEF ByteAt
<1>7. step + 1 < Len(text) => b[2] = text[step + 2]
  BY <1>1, <1>3 DEF ByteAt
<1>8. step + 3 < Len(text) => b[3] = text[step + 3] /\ b[4] = text[step + 4]
  BY <1>1, <1>3 DEF ByteAt
<1>9. step + 1 < Len(text) => step + 2 * r.size = Following(text, step)
  BY <1>1, <1>5, <1>7 DEF Following
<1>10. ASSUME Whole(text, step)
       PROVE  r.code = CodeIn(text, step)
  <2> DEFINE c == [i \in 1..4 |-> IF step + i <= Len(text) THEN text[step + i] ELSE {}]
  <2>1. step + 1 < Len(text) /\ (Is32(text[step + 2]) => step + 3 < Len(text))
    BY <1>10 DEF Whole
  <2>2. c[1] = text[step + 1] /\ c[2] = text[step + 2]
    BY <1>1, <2>1
  <2>3. Is32(text[step + 2]) => c[3] = text[step + 3] /\ c[4] = text[step + 4]
    BY <1>1, <2>1
  <2>4. CodeIn(text, step) = CodeOf(c)
    BY DEF CodeIn
  <2> HIDE DEF c
  <2>5. CodeOf(b) = CodeOf(c)
    BY <1>6, <1>7, <1>8, <2>1, <2>2, <2>3, SameCode
  <2> QED BY <1>4, <2>4, <2>5
<1>11. step < Len(text) /\ (step + 1 >= Len(text) => step + 2 * r.size >= Len(text))
  BY <1>1, <1>5
<1> QED BY <1>9, <1>10, <1>11

(* No instruction is passed over.                                          *)
LEMMA NoneBetween ==
  ASSUME NEW t \in Seq(Byte), NEW s \in StartsOf(t), NEW n \in Nat,
         s + 1 < Len(t) => n = Following(t, s),
         NEW p \in StartsOf(t), Whole(t, p), p < n
  PROVE  p <= s
<1>1. s \in Nat /\ p \in Nat /\ Len(t) \in Nat
  BY Starts
<1>2. p <= s \/ Following(t, s) <= p
  BY Starts
<1>3. p + 1 < Len(t)
  BY DEF Whole
<1>4. CASE s + 1 < Len(t)
  BY <1>1, <1>2, <1>4
<1>5. CASE ~(s + 1 < Len(t))
  BY <1>1, <1>3, <1>5
<1> QED BY <1>4, <1>5

LEMMA SeqOne ==
  ASSUME NEW S, NEW l \in Seq(S), NEW e, NEW m, m = Append(l, e)
  PROVE  /\ Len(l) \in Nat /\ Len(m) = Len(l) + 1 /\ m[Len(m)] = e
         /\ \A i \in 1..Len(l) : i \in 1..Len(m) /\ m[i] = l[i]
         /\ \A i \in 1..Len(m) : i = Len(m) \/ i \in 1..Len(l)
OBVIOUS

(* A turn of the loop goes on to n from s, where a code that is not zero   *)
(* was read; l becomes m.                                                  *)
Turn(t, s, n, code, a, b, l, m) ==
  /\ s < Len(t)
  /\ IF s + 1 < Len(t) THEN n = Following(t, s) ELSE n >= Len(t)
  /\ n > s
  /\ Whole(t, s) => code = CodeIn(t, s)
  /\ code # {}
  /\ IF Base + s \in a..b THEN \E e : e.adr = Base + s /\ e.code = code /\ m = Append(l, e)
                          ELSE m = l

LEMMA TurnOn ==
  ASSUME NEW t \in Seq(Byte), NEW s \in Nat, NEW n \in Nat, NEW code, NEW a \in Nat, NEW b \in Nat,
         NEW S, NEW l \in Seq(S), NEW m, \A i \in 1..Len(l) : l[i].adr \in Nat,
         SoFar(t, s, a, b, l), Turn(t, s, n, code, a, b, l, m)
  PROVE  SoFar(t, n, a, b, m)
<1>1. s < Len(t) /\ n > s /\ code # {} /\ (Whole(t, s) => code = CodeIn(t, s))
  BY DEF Turn
<1>2. (s + 1 < Len(t) => n = Following(t, s)) /\ (s + 1 >= Len(t) => n >= Len(t))
  <2>1. Len(t) \in Nat
    OBVIOUS
  <2> QED BY <2>1 DEF Turn
<1>3. Base \in Nat /\ Len(t) \in Nat
  BY Parameters
<1>4. s \in StartsOf(t)
  BY <1>1, <1>3 DEF SoFar, AtStart
<1>5. \A p \in StartsOf(t) : p \in Nat /\ (Whole(t, p) /\ p < n => p = s \/ p < s)
  <2>1. \A p \in StartsOf(t) : Whole(t, p) /\ p < n => p <= s
    BY <1>2, <1>4, NoneBetween
  <2>2. \A p \in StartsOf(t) : p \in Nat
    BY Starts
  <2> QED BY <2>1, <2>2
<1>6. AtStart(t, n)
  <2>1. Following(t, s) \in StartsOf(t)
    BY <1>4, Starts
  <2> QED BY <1>2, <1>3, <2>1 DEF AtStart
<1>7. NoZero(t, n)
  BY <1>1, <1>5 DEF SoFar, NoZero
<1>8. CASE Base + s \notin a..b
  <2>1. m = l
    BY <1>8 DEF Turn
  <2>2. Printed(t, n, a, b, m)
    BY <1>5, <1>8, <2>1 DEF SoFar, Printed
  <2>3. Inside(t, n, a, b, m)
    <3> SUFFICES ASSUME NEW i \in 1..Len(l)
                 PROVE  l[i].adr < Base + n
      BY <2>1 DEF SoFar, Inside
    <3>1. l[i].adr < Base + s /\ l[i].adr \in Nat
      BY DEF SoFar, Inside
    <3> QED BY <1>1, <1>3, <3>1
  <2>4. InOrder(m)
    BY <2>1 DEF SoFar
  <2> QED BY <1>6, <1>7, <2>2, <2>3, <2>4 DEF SoFar
<1>9. CASE Base + s \in a..b
  <2>1. PICK e : e.adr = Base + s /\ e.code = code /\ m = Append(l, e)
    BY <1>9 DEF Turn
  <2>2. /\ Len(l) \in Nat /\ Len(m) = Len(l) + 1 /\ m[Len(m)] = e
        /\ \A i \in 1..Len(l) : i \in 1..Len(m) /\ m[i] = l[i]
        /\ \A i \in 1..Len(m) : i = Len(m) \/ i \in 1..Len(l)
    BY <2>1, SeqOne
  <2>3. Len(m) \in 1..Len(m)
    BY <2>2
  <2>4. Printed(t, n, a, b, m)
    <3> SUFFICES ASSUME NEW o \in StartsOf(t), o < n, Base + o \in a..b, Whole(t, o)
                 PROVE  \E i \in 1..Len(m) : m[i].adr = Base + o /\ m[i].code = CodeIn(t, o)
      BY DEF Printed
    <3>1. CASE o = s
      BY <1>1, <2>1, <2>2, <2>3, <3>1
    <3>2. CASE o # s
      <4>1. PICK i \in 1..Len(l) : l[i].adr = Base + o /\ l[i].code = CodeIn(t, o)
        BY <1>5, <3>2 DEF SoFar, Printed
      <4> QED BY <2>2, <4>1
    <3> QED BY <3>1, <3>2
  <2>5. \A i \in 1..Len(l) : l[i].adr \in a..b /\ l[i].adr < Base + s /\ l[i].adr - Base \in StartsOf(t)
    BY DEF SoFar, Inside
  <2>6. Inside(t, n, a, b, m)
    <3> SUFFICES ASSUME NEW i \in 1..Len(m)
                 PROVE  m[i].adr \in a..b /\ m[i].adr < Base + n /\ m[i].adr - Base \in StartsOf(t)
      BY DEF Inside
    <3>1. CASE i = Len(m)
      <4>1. m[i].adr = Base + s
        BY <2>1, <2>2, <3>1
      <4>2. (Base + s) - Base = s /\ Base + s < Base + n
        BY <1>1, <1>3
      <4> QED BY <1>4, <1>9, <4>1, <4>2
    <3>2. CASE i # Len(m)
      <4>1. i \in 1..Len(l) /\ m[i] = l[i]
        BY <2>2, <3>2
      <4>2. l[i].adr < Base + s /\ l[i].adr \in Nat
        BY <2>5, <4>1
      <4>3. l[i].adr < Base + n
        BY <1>1, <1>3, <4>2
      <4> QED BY <2>5, <4>1, <4>3
    <3> QED BY <3>1, <3>2
  <2>7. InOrder(m)
    <3> SUFFICES ASSUME NEW i \in 1..Len(m), NEW j \in 1..Len(m), i < j
                 PROVE  m[i].adr < m[j].adr
      BY DEF InOrder
    <3>1. i \in 1..Len(l) /\ m[i] = l[i]
      BY <2>2
    <3>2. CASE j = Len(m)
      BY <2>1, <2>2, <2>5, <3>1, <3>2
    <3>3. CASE j # Len(m)
      <4>1. j \in 1..Len(l) /\ m[j] = l[j]
        BY <2>2, <3>3
      <4> QED BY <3>1, <4>1 DEF SoFar, InOrder
    <3> QED BY <3>2, <3>3
  <2> QED BY <1>6, <1>7, <2>4, <2>6, <2>7 DEF SoFar
<1> QED BY <1>8, <1>9

LEMMA SoFarAtFirst ==
  ASSUME NEW t \in Seq(Byte), NEW a, NEW b
  PROVE  SoFar(t, 0, a, b, <<>>)
<1>1. StartsOf(t) \subseteq Nat /\ 0 \in StartsOf(t)
  BY Starts
<1>2. \A o \in StartsOf(t) : ~(o < 0)
  BY <1>1
<1>3. Len(<<>>) = 0 /\ 1..Len(<<>>) = {}
  OBVIOUS
<1> QED BY <1>1, <1>2, <1>3, Zenon DEF SoFar, AtStart, NoZero, Printed, Inside, InOrder

LEMMA WalkTypes ==
  ASSUME TypeOK
  PROVE  /\ text \in Seq(Byte) /\ step \in Nat /\ start \in Nat /\ stop \in Nat
         /\ lines \in Seq(LineType) /\ \A i \in 1..Len(lines) : lines[i].adr \in Nat
<1>1. /\ text \in Seq(Byte) /\ step \in Nat /\ lines \in Seq(LineType)
      /\ start \in Addresses \union {0} /\ stop \in Addresses \union {0}
  BY Zenon DEF TypeOK
<1>2. \A i \in 1..Len(lines) : lines[i] \in LineType
  BY <1>1
<1>3. \A x \in LineType : x.adr \in Nat
  BY DEF LineType
<1> QED BY <1>1, <1>2, <1>3, Parameters

(* The two ways that a turn goes on.                                       *)
LEMMA TurnGoesOn ==
  ASSUME TypeOK, WalkedSoFar, Walking, NEW r \in Read, NEW key, Pass(r, key),
         UNCHANGED <<pc, segment, range>>,
         IF Shown THEN \E low : lines' = Append(lines, Line(r, key, low)) ELSE lines' = lines
  PROVE  WalkedSoFar'
<1>1. /\ text \in Seq(Byte) /\ step \in Nat /\ start \in Nat /\ stop \in Nat
      /\ lines \in Seq(LineType) /\ \A i \in 1..Len(lines) : lines[i].adr \in Nat
  BY WalkTypes
<1>2. r \in Fetched /\ r.code # {} /\ More /\ pc = "walk"
  BY DEF Read, Walking
<1>3. SoFar(text, step, start, stop, lines)
  BY <1>2 DEF WalkedSoFar
<1>4. Len(text) \in Nat /\ step < Len(text)
  BY <1>1, <1>2 DEF More
<1>5. step \in StartsOf(text)
  BY <1>1, <1>3, <1>4 DEF SoFar, AtStart
<1>6. step' = step + 2 * r.size /\ r.size \in 1..2
  BY <1>2, FetchedType DEF Pass, Advance
<1>7. /\ step + 1 < Len(text) => step' = Following(text, step)
      /\ step + 1 >= Len(text) => step' >= Len(text)
      /\ Whole(text, step) => r.code = CodeIn(text, step)
  BY <1>2, <1>5, <1>6, StepFollows
<1>8. step' \in Nat /\ step' > step
  BY <1>1, <1>6
<1>9. Turn(text, step, step', r.code, start, stop, lines, lines')
  <2>1. Shown <=> Base + step \in start..stop
    BY <1>1, Parameters DEF Shown
  <2>2. ASSUME Base + step \in start..stop
        PROVE  \E e : e.adr = Base + step /\ e.code = r.code /\ lines' = Append(lines, e)
    <3>1. PICK low : lines' = Append(lines, Line(r, key, low))
      BY <2>1, <2>2
    <3>2. Line(r, key, low).adr = Base + step /\ Line(r, key, low).code = r.code
      BY DEF Line
    <3> QED BY <3>1, <3>2
  <2>3. ~(step + 1 < Len(text)) => step + 1 >= Len(text)
    BY <1>1, <1>4
  <2> QED BY <1>2, <1>4, <1>7, <1>8, <2>1, <2>2, <2>3 DEF Turn
<1>10. SoFar(text, step', start, stop, lines')
  BY <1>1, <1>3, <1>8, <1>9, TurnOn
<1>11. text' = text /\ start' = start /\ stop' = stop
  BY DEF segment, range
<1> QED BY <1>10, <1>11 DEF WalkedSoFar

LEMMA WalkedNext == TypeOK /\ TypeOK' /\ WalkedSoFar /\ [Next]_vars => WalkedSoFar'
<1> SUFFICES ASSUME TypeOK, TypeOK', WalkedSoFar, [Next]_vars
             PROVE  WalkedSoFar'
  OBVIOUS
<1>1. CASE Walk
  <2>1. step' = 0 /\ lines' = <<>>
    BY <1>1 DEF Walk, Typed
  <2>2. text' \in Seq(Byte)
    BY Zenon DEF TypeOK
  <2>3. SoFar(text', step', start', stop', lines')
    BY <2>1, <2>2, SoFarAtFirst
  <2> QED BY <2>3 DEF WalkedSoFar
<1>2. CASE Hidden
  <2>1. PICK r \in Read : \E key \in RowFor(r) : Pass(r, key)
    BY <1>2 DEF Hidden
  <2>2. PICK key \in RowFor(r) : Pass(r, key)
    BY <2>1
  <2>3. Walking /\ ~Shown /\ lines' = lines /\ UNCHANGED <<pc, segment, range>>
    BY <1>2 DEF Hidden
  <2> QED BY <2>2, <2>3, TurnGoesOn
<1>3. CASE Show
  <2>1. PICK r \in Read : \E key \in RowFor(r) :
          Pass(r, key) /\ \E low : lines' = Append(lines, Line(r, key, low))
    BY <1>3 DEF Show
  <2>2. PICK key \in RowFor(r) : Pass(r, key) /\ \E low : lines' = Append(lines, Line(r, key, low))
    BY <2>1
  <2>3. Walking /\ Shown /\ UNCHANGED <<pc, segment, range>>
    BY <1>3 DEF Show
  <2> QED BY <2>2, <2>3, TurnGoesOn
<1>4. CASE StopAtEnd \/ StopAtZero \/ Unknown
  BY <1>4 DEF StopAtEnd, StopAtZero, Unknown, Return, WalkedSoFar
<1>5. CASE NoRow \/ ShowFaults \/ HeapBreaks \/ Over \/ UNCHANGED vars
  <2>1. UNCHANGED <<pc, text, step, start, stop, lines>>
    BY <1>5 DEF NoRow, ShowFaults, HeapBreaks, Over, vars, segment, range, walk
  <2> QED BY <2>1 DEF WalkedSoFar
<1>6. CASE Load \/ Refuse \/ NoText \/ Outside
  BY <1>6 DEF Load, Refuse, NoText, Outside, Typed, WalkedSoFar
<1> QED BY <1>1, <1>2, <1>3, <1>4, <1>5, <1>6 DEF Next

(* At a zero code, or where no instruction may begin any more, what the    *)
(* range has to show is behind.                                            *)
LEMMA AllBehind ==
  ASSUME TypeOK, WalkedSoFar, StopAtEnd \/ StopAtZero,
         NEW o \in StartsOf(text), Whole(text, o), BeforeZero(text, o)
  PROVE  o < step
<1>1. text \in Seq(Byte) /\ step \in Nat /\ Len(text) \in Nat
  BY WalkTypes
<1>2. o \in Nat /\ o + 1 < Len(text)
  BY <1>1, Starts DEF Whole
<1>3. CASE StopAtEnd
  <2>1. ~More
    BY <1>3 DEF StopAtEnd
  <2>2. step >= Len(text) - 1
    BY <1>1, <2>1 DEF More
  <2> QED BY <1>1, <1>2, <2>2
<1>4. CASE StopAtZero
  <2> SUFFICES ASSUME ~(o < step)
               PROVE  FALSE
    OBVIOUS
  <2>1. Walking
    BY <1>4 DEF StopAtZero
  <2>2. More /\ pc = "walk"
    BY <2>1 DEF Walking
  <2>3. PICK r \in Fetched : r.code = {}
    BY <1>4 DEF StopAtZero
  <2>4. AtStart(text, step)
    BY <2>2 DEF WalkedSoFar, SoFar
  <2>5. step \in StartsOf(text)
    BY <1>1, <2>2, <2>4 DEF AtStart, More
  <2>6. /\ step < Len(text)
        /\ Whole(text, step) => r.code = CodeIn(text, step)
    BY <2>2, <2>5, StepFollows
  <2>7. step <= o /\ step + 1 < Len(text)
    BY <1>1, <1>2
  <2>8. ~Whole(text, step)
    BY <2>3, <2>5, <2>6, <2>7 DEF BeforeZero
  <2>9. Is32(text[step + 2]) /\ step + 3 >= Len(text)
    BY <1>1, <2>7, <2>8 DEF Whole
  <2>10. Following(text, step) = step + 4
    BY <1>1, <2>7, <2>9 DEF Following
  <2>11. o <= step \/ step + 4 <= o
    BY <1>1, <2>5, <2>10, Starts
  <2>12. o # step
    BY <2>8
  <2> QED BY <1>1, <1>2, <2>7, <2>9, <2>11, <2>12
<1> QED BY <1>3, <1>4

(* An answer OK of disasm has shown every whole instruction of the range   *)
(* up to the first zero, in order, with its code, and nothing else         *)
(* (lecture_txt, whose loop is guarded by two conditions and may read past *)
(* the text).                                                              *)
THEOREM ShowsItsRange == Spec => ShowsRange
<1> DEFINE PInv == IInv /\ WalkedSoFar
<1>1. Init => PInv
  BY InitInv DEF Init, WalkedSoFar
<1>2. PInv /\ [Next]_vars => PInv'
  <2>1. IInv /\ [Next]_vars => IInv'
    BY NextInv
  <2>2. IInv => TypeOK
    BY DEF IInv
  <2>3. IInv' => TypeOK'
    BY DEF IInv
  <2> QED BY <2>1, <2>2, <2>3, WalkedNext
<1>3. ASSUME PInv, [Next]_vars, pc = "walk", pc' = "idle", ret' = OK
      PROVE  /\ \A o \in StartsOf(text) :
                  Base + o \in start..stop /\ Whole(text, o) /\ BeforeZero(text, o)
                    => \E i \in 1..Len(lines) : /\ lines[i].adr = Base + o
                                                /\ lines[i].code = CodeIn(text, o)
             /\ \A i \in 1..Len(lines) :
                  /\ lines[i].adr \in start..stop
                  /\ lines[i].adr - Base \in StartsOf(text)
             /\ \A i, j \in 1..Len(lines) : i < j => lines[i].adr < lines[j].adr
  <2>1. TypeOK
    BY <1>3 DEF IInv
  <2>2. SoFar(text, step, start, stop, lines)
    BY <1>3 DEF WalkedSoFar
  <2>3. StopAtEnd \/ StopAtZero
    BY <1>3 DEF Next, Load, Refuse, NoText, Outside, Walk, Typed, Hidden, Show, NoRow, ShowFaults,
         Unknown, Return, HeapBreaks, Over, vars, OK, ERR
  <2>4. \A o \in StartsOf(text) : Whole(text, o) /\ BeforeZero(text, o) => o < step
    BY <1>3, <2>1, <2>3, AllBehind
  <2>5. \A o \in StartsOf(text) :
          Base + o \in start..stop /\ Whole(text, o) /\ BeforeZero(text, o)
            => \E i \in 1..Len(lines) : /\ lines[i].adr = Base + o
                                        /\ lines[i].code = CodeIn(text, o)
    BY <2>2, <2>4, Zenon DEF SoFar, Printed
  <2> QED BY <2>2, <2>5 DEF SoFar, Inside, InOrder
<1> QED BY <1>1, <1>2, <1>3, PTL DEF Spec, ShowsRange
-----------------------------------------------------------------------------
(* Readings of bits                                                        *)

LEMMA ReadingDef ==
  ASSUME NEW a \in Int, NEW v, NEW n \in Nat
  PROVE  /\ \A i \in 0..n : Reading(a, v, n)[i] \in Int
         /\ Reading(a, v, n)[0] = a
         /\ \A i \in 1..n : Reading(a, v, n)[i] = 2 * Reading(a, v, n)[i - 1] + Bit(v, n - i)
<1> DEFINE g == [i \in 1..n |-> [x \in Int |-> 2 * x + Bit(v, n - i)]]
           f == Reading(a, v, n)
<1>1. \A i \in 1..n, x \in Int : g[i][x] = 2 * x + Bit(v, n - i) /\ g[i][x] \in Int
  BY DEF Bit
<1> HIDE DEF g
<1>2. PICK s : StepsTo(n, Int, a, g, s)
  BY <1>1, StepByStep
<1>3. \A i \in 0..n : s[i] \in Int
  BY <1>2 DEF StepsTo
<1>4. \A i \in 1..n : s[i] = 2 * s[i - 1] + Bit(v, n - i)
  <2>1. \A i \in 1..n : i - 1 \in 0..n
    OBVIOUS
  <2> QED BY <1>1, <1>2, <1>3, <2>1 DEF StepsTo
<1>5. s = [i \in 0..n |-> IF i = 0 THEN a ELSE 2 * s[i - 1] + (IF n - i \in v THEN 1 ELSE 0)]
  BY <1>2, <1>4 DEF StepsTo, Bit
<1>6. f = CHOOSE r : r = [i \in 0..n |-> IF i = 0 THEN a ELSE 2 * r[i - 1] + (IF n - i \in v THEN 1 ELSE 0)]
  BY Zenon DEF Reading
<1> HIDE DEF f
<1>7. f = [i \in 0..n |-> IF i = 0 THEN a ELSE 2 * f[i - 1] + (IF n - i \in v THEN 1 ELSE 0)]
  BY <1>5, <1>6, Zenon
<1>8. f[0] = a
  <2>1. 0 \in 0..n
    OBVIOUS
  <2> QED BY <1>7, <2>1, Zenon
<1>9. \A i \in 1..n : f[i] = 2 * f[i - 1] + Bit(v, n - i)
  <2>1. \A i \in 1..n : i \in 0..n /\ i # 0
    OBVIOUS
  <2> QED BY <1>7, <2>1, Zenon DEF Bit
<1>10. \A i \in 0..n : f[i] \in Int
  <2> DEFINE S == {i \in 0..n : f[i] \in Int}
  <2>1. 0 \in S
    BY <1>8
  <2>2. ASSUME NEW i \in 0..n - 1, i \in S
        PROVE  i + 1 \in S
    <3>1. i + 1 \in 1..n /\ (i + 1) - 1 = i /\ Bit(v, n - (i + 1)) \in Int
      BY DEF Bit
    <3>2. f[i + 1] = 2 * f[i] + Bit(v, n - (i + 1))
      BY <1>9, <3>1
    <3> QED BY <2>2, <3>1, <3>2
  <2>3. \A i \in 0..n - 1 : i \in S => i + 1 \in S
    BY <2>2
  <2> HIDE DEF S
  <2>4. \A i \in 0..n : i \in S
    BY <2>1, <2>3, UpTo
  <2> QED BY <2>4 DEF S
<1> QED BY <1>8, <1>9, <1>10 DEF f

(* A reading that is at a when n bits are left, the same as those of v,    *)
(* ends as the reading of v.                                               *)
LEMMA ReadingOn ==
  ASSUME NEW a \in Int, NEW b \in Int, NEW v, NEW n \in Nat, NEW w, NEW m \in Nat, NEW d \in 0..m,
         d + n <= m, Reading(b, w, m)[d] = a,
         \A i \in 1..n : n - i \in v <=> m - (d + i) \in w
  PROVE  Reading(b, w, m)[d + n] = Reading(a, v, n)[n]
<1> DEFINE S == {i \in 0..n : Reading(b, w, m)[d + i] = Reading(a, v, n)[i]}
<1>1. 0 \in S
  BY ReadingDef
<1>2. ASSUME NEW i \in 0..n - 1, i \in S
      PROVE  i + 1 \in S
  <2>1. /\ d + (i + 1) \in 1..m /\ (d + (i + 1)) - 1 = d + i /\ d + i \in 0..m
        /\ i + 1 \in 1..n /\ (i + 1) - 1 = i
    OBVIOUS
  <2>2. Reading(b, w, m)[d + (i + 1)] = 2 * Reading(b, w, m)[d + i] + Bit(w, m - (d + (i + 1)))
    BY <2>1, ReadingDef
  <2>3. Reading(a, v, n)[i + 1] = 2 * Reading(a, v, n)[i] + Bit(v, n - (i + 1))
    BY <2>1, ReadingDef
  <2>4. Bit(w, m - (d + (i + 1))) = Bit(v, n - (i + 1))
    BY <2>1 DEF Bit
  <2> QED BY <1>2, <2>1, <2>2, <2>3, <2>4
<1>3. \A i \in 0..n - 1 : i \in S => i + 1 \in S
  BY <1>2
<1> HIDE DEF S
<1>4. \A i \in 0..n : i \in S
  BY <1>1, <1>3, UpTo
<1> QED BY <1>4 DEF S

(* Bits that are all zeros after 0, or all ones after -1, read the same.   *)
LEMMA ReadingFlat ==
  ASSUME NEW a \in {0, -1}, NEW w, NEW m \in Nat, NEW d \in 0..m,
         \A i \in 1..d : m - i \in w <=> a = -1
  PROVE  Reading(a, w, m)[d] = a
<1> DEFINE S == {i \in 0..d : Reading(a, w, m)[i] = a}
<1>1. 0 \in S
  BY ReadingDef
<1>2. ASSUME NEW i \in 0..d - 1, i \in S
      PROVE  i + 1 \in S
  <2>1. i + 1 \in 1..m /\ (i + 1) - 1 = i /\ i + 1 \in 1..d
    OBVIOUS
  <2>2. Reading(a, w, m)[i + 1] = 2 * Reading(a, w, m)[i] + Bit(w, m - (i + 1))
    BY <2>1, ReadingDef
  <2>3. Bit(w, m - (i + 1)) = IF a = -1 THEN 1 ELSE 0
    BY <2>1 DEF Bit
  <2> QED BY <1>2, <2>1, <2>2, <2>3
<1>3. \A i \in 0..d - 1 : i \in S => i + 1 \in S
  BY <1>2
<1> HIDE DEF S
<1>4. \A i \in 0..d : i \in S
  BY <1>1, <1>3, UpTo
<1> QED BY <1>4 DEF S

(* Extended above by its sign, a value reads the same; shifted by one bit, *)
(* it reads twice as much.                                                 *)
LEMMA ReadingExtended ==
  ASSUME NEW a \in {0, -1}, NEW v, NEW n \in Nat, NEW w, NEW m \in Nat, n <= m,
         \A j \in 0..m - 1 : j \in w <=> IF j < n THEN j \in v ELSE a = -1
  PROVE  Reading(a, w, m)[m] = Reading(a, v, n)[n]
<1>1. m - n \in 0..m /\ (m - n) + n = m
  OBVIOUS
<1>2. \A i \in 1..m - n : m - i \in w <=> a = -1
  OBVIOUS
<1>3. Reading(a, w, m)[m - n] = a
  BY <1>1, <1>2, ReadingFlat
<1>4. \A i \in 1..n : n - i \in v <=> m - ((m - n) + i) \in w
  OBVIOUS
<1>5. Reading(a, w, m)[(m - n) + n] = Reading(a, v, n)[n]
  BY <1>1, <1>3, <1>4, ReadingOn
<1> QED BY <1>1, <1>5

LEMMA ReadingDoubled ==
  ASSUME NEW a \in {0, -1}, NEW v, NEW w, NEW m \in Nat,
         0 \notin w, \A j \in 0..m - 1 : j + 1 \in w <=> j \in v
  PROVE  Reading(a, w, m + 1)[m + 1] = 2 * Reading(a, v, m)[m]
<1>1. \A i \in 1..m : m - i \in v <=> (m + 1) - (0 + i) \in w
  OBVIOUS
<1>2. Reading(a, w, m + 1)[0] = a
  BY ReadingDef
<1>3. Reading(a, w, m + 1)[0 + m] = Reading(a, v, m)[m]
  BY <1>1, <1>2, ReadingOn
<1>4. Reading(a, w, m + 1)[m + 1] = 2 * Reading(a, w, m + 1)[(m + 1) - 1] + Bit(w, (m + 1) - (m + 1))
  <2>1. m + 1 \in 1..m + 1
    OBVIOUS
  <2> QED BY <2>1, ReadingDef
<1>5. (m + 1) - 1 = m /\ 0 + m = m /\ Bit(w, (m + 1) - (m + 1)) = 0
  BY DEF Bit
<1>6. Reading(a, v, m)[m] \in Int
  BY ReadingDef
<1> QED BY <1>3, <1>4, <1>5, <1>6

(* A number is zero when it has no bits.                                   *)
LEMMA ZeroNumber ==
  ASSUME NEW n \in Nat, NEW v \in SUBSET (0..n - 1)
  PROVE  Number(v, n) = 0 <=> v = {}
<1>1. ASSUME v = {}
      PROVE  Reading(0, v, n)[n] = 0
  BY <1>1, ReadingFlat
<1>2. ASSUME NEW j \in v
      PROVE  Reading(0, v, n)[n] # 0
  <2> DEFINE S == {i \in 0..n : Reading(0, v, n)[i] >= 0 /\ (i >= n - j => Reading(0, v, n)[i] >= 1)}
  <2>1. 0 \in S
    BY ReadingDef
  <2>2. ASSUME NEW i \in 0..n - 1, i \in S
        PROVE  i + 1 \in S
    <3>1. i + 1 \in 1..n /\ (i + 1) - 1 = i /\ i \in 0..n /\ i + 1 \in 0..n
      OBVIOUS
    <3>2. Reading(0, v, n)[i + 1] = 2 * Reading(0, v, n)[i] + Bit(v, n - (i + 1))
      BY <3>1, ReadingDef
    <3>3. Reading(0, v, n)[i] \in Int
      BY <3>1, ReadingDef
    <3>4. Bit(v, n - (i + 1)) \in 0..1 /\ (n - (i + 1) = j => Bit(v, n - (i + 1)) = 1)
      BY DEF Bit
    <3>5. i + 1 >= n - j => (i >= n - j \/ n - (i + 1) = j)
      OBVIOUS
    <3> QED BY <2>2, <3>1, <3>2, <3>3, <3>4, <3>5
  <2>3. \A i \in 0..n - 1 : i \in S => i + 1 \in S
    BY <2>2
  <2> HIDE DEF S
  <2>4. \A i \in 0..n : i \in S
    BY <2>1, <2>3, UpTo
  <2>5. n \in S
    BY <2>4
  <2> QED BY <2>5 DEF S
<1> QED BY <1>1, <1>2 DEF Number
-----------------------------------------------------------------------------
(* The bits of an operand                                                  *)

Low(c, k)   == c[k][2]
Width(c, k) == c[k][1] - c[k][2] + 1
Piece(c, k) == [i \in 1..Width(c, k) |-> c[k][1] - i + 1]

LEMMA PieceType ==
  ASSUME NEW h \in Int, NEW n \in Nat
  PROVE  /\ [i \in 1..n |-> h - i + 1] \in Seq(Int)
         /\ Len([i \in 1..n |-> h - i + 1]) = n
OBVIOUS

LEMMA Element ==
  ASSUME NEW S, NEW s \in Seq(S), NEW n \in 1..Len(s)
  PROVE  s[n] \in S
OBVIOUS

LEMMA Apart == \A h, l \in 0..31 : h >= l => h - l + 1 \in 1..32
OBVIOUS

LEMMA FieldType ==
  ASSUME NEW c \in Seq(Field), WellSpelled(c), NEW k \in 1..Len(c)
  PROVE  /\ Len(c[k]) = 2 /\ c[k][1] \in Bits /\ c[k][2] \in Bits
         /\ Low(c, k) \in Bits /\ Width(c, k) \in 1..32
         /\ Piece(c, k) \in Seq(Int) /\ Len(Piece(c, k)) = Width(c, k)
<1>1. Len(c[k]) = 2 /\ c[k][1] >= c[k][2]
  BY DEF WellSpelled
<1>2. c[k] \in Seq(0..31)
  BY DEF Field
<1>3. c[k][1] \in 0..31 /\ c[k][2] \in 0..31
  <2>1. 1 \in 1..Len(c[k]) /\ 2 \in 1..Len(c[k])
    BY <1>1
  <2> QED BY <1>2, <2>1, Element, Zenon
<1>4. Width(c, k) \in 1..32
  BY <1>1, <1>3, Apart DEF Width
<1>5. Piece(c, k) \in Seq(Int) /\ Len(Piece(c, k)) = Width(c, k)
  <2>1. Width(c, k) \in Nat /\ c[k][1] \in Int
    <3>1. (\A n \in 1..32 : n \in Nat) /\ \A n \in 0..31 : n \in Int
      OBVIOUS
    <3> QED BY <1>3, <1>4, <3>1, Zenon
  <2> QED BY <2>1, PieceType DEF Piece
<1> QED BY <1>1, <1>3, <1>4, <1>5 DEF Low, Bits

LEMMA DebutDef ==
  ASSUME NEW c \in Seq(Field), WellSpelled(c), NEW low
  PROVE  \A k \in 1..Len(c) : /\ Debut(c, low)[k] = Low(c, k)
                              /\ NbBits(c, low, k) = Width(c, k)
<1> DEFINE f == Debut(c, low)
           s == [k \in 0..Len(c) |-> IF k = 0 THEN low ELSE c[k][2]]
<1>1. Len(c) \in Nat /\ \A k \in 1..Len(c) : k \in 0..Len(c) /\ k # 0 /\ Len(c[k]) = 2
  BY FieldType
<1>2. s = [k \in 0..Len(c) |-> IF k = 0 THEN low ELSE IF Len(c[k]) = 2 THEN c[k][2] ELSE s[k - 1]]
  <2>1. \A k \in 0..Len(c) : k # 0 => Len(c[k]) = 2
    BY <1>1
  <2> QED BY <2>1
<1>3. f = CHOOSE d : d = [k \in 0..Len(c) |->
                           IF k = 0 THEN low ELSE IF Len(c[k]) = 2 THEN c[k][2] ELSE d[k - 1]]
  BY Zenon DEF Debut
<1> HIDE DEF f, s
<1>4. f = [k \in 0..Len(c) |-> IF k = 0 THEN low ELSE IF Len(c[k]) = 2 THEN c[k][2] ELSE f[k - 1]]
  BY <1>2, <1>3, Zenon
<1>5. \A k \in 1..Len(c) : f[k] = c[k][2]
  BY <1>1, <1>4, Zenon
<1> QED BY <1>5 DEF f, Low, NbBits, Width

LEMMA TailleDef ==
  ASSUME NEW c \in Seq(Field), WellSpelled(c), NEW low
  PROVE  \E t : /\ t[0] = 0 /\ \A k \in 0..Len(c) : t[k] \in Nat
                /\ \A k \in 1..Len(c) : t[k] = t[k - 1] + Width(c, k)
                /\ Taille(c, low) = t[Len(c)]
<1> DEFINE g == [k \in 1..Len(c) |-> [x \in Nat |-> x + Width(c, k)]]
<1>1. Len(c) \in Nat /\ \A k \in 1..Len(c) : Width(c, k) \in Nat /\ NbBits(c, low, k) = Width(c, k)
  <2>1. \A k \in 1..Len(c) : Width(c, k) \in 1..32
    BY FieldType
  <2>2. \A k \in 1..Len(c) : NbBits(c, low, k) = Width(c, k)
    BY DebutDef
  <2>3. \A n \in 1..32 : n \in Nat
    OBVIOUS
  <2>4. Len(c) \in Nat
    OBVIOUS
  <2> QED BY <2>1, <2>2, <2>3, <2>4
<1>2. \A k \in 1..Len(c), x \in Nat : g[k][x] = x + Width(c, k) /\ g[k][x] \in Nat
  BY <1>1
<1> HIDE DEF g
<1>3. PICK s : StepsTo(Len(c), Nat, 0, g, s)
  BY <1>1, <1>2, StepByStep
<1>4. s[0] = 0 /\ \A k \in 0..Len(c) : s[k] \in Nat
  BY <1>3 DEF StepsTo
<1>5. \A k \in 1..Len(c) : k - 1 \in 0..Len(c) /\ k \in 0..Len(c) /\ k # 0
  BY <1>1
<1>6. \A k \in 1..Len(c) : s[k] = s[k - 1] + Width(c, k)
  BY <1>2, <1>3, <1>4, <1>5 DEF StepsTo
<1>7. s = [k \in 0..Len(c) |-> IF k = 0 THEN 0 ELSE s[k - 1] + NbBits(c, low, k)]
  BY <1>1, <1>3, <1>6 DEF StepsTo
<1> DEFINE f == CHOOSE t : t = [k \in 0..Len(c) |-> IF k = 0 THEN 0 ELSE t[k - 1] + NbBits(c, low, k)]
<1>8. Taille(c, low) = f[Len(c)]
  BY Zenon DEF Taille
<1>9. f = [k \in 0..Len(c) |-> IF k = 0 THEN 0 ELSE f[k - 1] + NbBits(c, low, k)]
  BY <1>7, Zenon
<1> HIDE DEF f
<1>10. f[0] = 0
  <2>1. 0 \in 0..Len(c)
    BY <1>1
  <2> QED BY <1>9, <2>1, Zenon
<1>11. \A k \in 1..Len(c) : f[k] = f[k - 1] + Width(c, k)
  BY <1>1, <1>5, <1>9, Zenon
<1> DEFINE S == {k \in 0..Len(c) : f[k] \in Nat}
<1>12. 0 \in S
  BY <1>1, <1>10
<1>13. ASSUME NEW k \in 0..Len(c) - 1, k \in S
       PROVE  k + 1 \in S
  <2>1. k + 1 \in 1..Len(c) /\ (k + 1) - 1 = k
    BY <1>1
  <2>2. f[k + 1] = f[k] + Width(c, k + 1) /\ Width(c, k + 1) \in Nat
    BY <1>1, <1>11, <2>1
  <2> QED BY <1>1, <1>13, <2>1, <2>2
<1>14. \A k \in 0..Len(c) - 1 : k \in S => k + 1 \in S
  BY <1>13
<1> HIDE DEF S
<1>15. \A k \in 0..Len(c) : k \in S
  BY <1>1, <1>12, <1>14, UpTo
<1>16. \A k \in 0..Len(c) : f[k] \in Nat
  BY <1>15 DEF S
<1> QED BY <1>8, <1>10, <1>11, <1>16

LEMMA SpelledDef ==
  ASSUME NEW c \in Seq(Field), WellSpelled(c)
  PROVE  \E p : /\ p[0] = <<>> /\ \A k \in 0..Len(c) : p[k] \in Seq(Int)
                /\ \A k \in 1..Len(c) : p[k] = p[k - 1] \o Piece(c, k)
                /\ Spelled(c) = p[Len(c)]
<1> DEFINE g == [k \in 1..Len(c) |-> [x \in Seq(Int) |-> x \o Piece(c, k)]]
           f == CHOOSE p : p = [k \in 0..Len(c) |-> IF k = 0 THEN <<>> ELSE p[k - 1] \o Piece(c, k)]
<1>1. Len(c) \in Nat /\ <<>> \in Seq(Int)
  OBVIOUS
<1>2. \A k \in 1..Len(c) : k - 1 \in 0..Len(c) /\ k \in 0..Len(c) /\ k # 0
  BY <1>1
<1>3. ASSUME NEW k \in 1..Len(c), NEW x \in Seq(Int)
      PROVE  g[k][x] = x \o Piece(c, k) /\ g[k][x] \in Seq(Int)
  <2>1. Piece(c, k) \in Seq(Int)
    BY FieldType
  <2>2. \A y, z \in Seq(Int) : y \o z \in Seq(Int)
    OBVIOUS
  <2>3. g[k][x] = x \o Piece(c, k)
    BY Zenon
  <2> QED BY <2>1, <2>2, <2>3, Zenon
<1> HIDE DEF g
<1>4. PICK s : StepsTo(Len(c), Seq(Int), <<>>, g, s)
  BY <1>1, <1>3, StepByStep
<1>5. /\ s \in [0..Len(c) -> Seq(Int)] /\ s[0] = <<>>
      /\ \A k \in 1..Len(c) : s[k] = g[k][s[k - 1]]
  BY <1>4, Zenon DEF StepsTo
<1>6. \A k \in 1..Len(c) : s[k] = s[k - 1] \o Piece(c, k)
  <2>1. \A k \in 1..Len(c) : s[k - 1] \in Seq(Int)
    BY <1>2, <1>5
  <2> QED BY <1>3, <1>5, <2>1, Zenon
<1>7. s = [k \in 0..Len(c) |-> IF k = 0 THEN <<>> ELSE s[k - 1] \o Piece(c, k)]
  <2>1. \A k \in 0..Len(c) : k # 0 => k \in 1..Len(c)
    BY <1>1
  <2> QED BY <1>5, <1>6, <2>1
<1>8. Spelled(c) = f[Len(c)]
  BY Zenon DEF Spelled, Piece, Width
<1>9. f = [k \in 0..Len(c) |-> IF k = 0 THEN <<>> ELSE f[k - 1] \o Piece(c, k)]
  BY <1>7, Zenon
<1> HIDE DEF f
<1>10. f[0] = <<>>
  <2>1. 0 \in 0..Len(c)
    BY <1>1
  <2> QED BY <1>9, <2>1, Zenon
<1>11. \A k \in 1..Len(c) : f[k] = f[k - 1] \o Piece(c, k)
  BY <1>2, <1>9, Zenon
<1> DEFINE S == {k \in 0..Len(c) : f[k] \in Seq(Int)}
<1>12. 0 \in S
  <2>1. 0 \in 0..Len(c)
    BY <1>1
  <2> QED BY <1>1, <1>10, <2>1, Zenon
<1>13. ASSUME NEW k \in 0..Len(c) - 1, k \in S
       PROVE  k + 1 \in S
  <2>1. k + 1 \in 1..Len(c) /\ (k + 1) - 1 = k /\ k + 1 \in 0..Len(c)
    BY <1>1
  <2>2. f[k + 1] = f[k] \o Piece(c, k + 1)
    BY <1>11, <2>1
  <2>3. Piece(c, k + 1) \in Seq(Int)
    BY <2>1, FieldType
  <2>4. \A y, z \in Seq(Int) : y \o z \in Seq(Int)
    OBVIOUS
  <2>5. f[k + 1] \in Seq(Int)
    BY <1>13, <2>2, <2>3, <2>4, Zenon
  <2> QED BY <2>1, <2>5
<1>14. \A k \in 0..Len(c) - 1 : k \in S => k + 1 \in S
  BY <1>13
<1> HIDE DEF S
<1>15. \A k \in 0..Len(c) : k \in S
  BY <1>1, <1>12, <1>14, UpTo
<1>16. \A k \in 0..Len(c) : f[k] \in Seq(Int)
  BY <1>15 DEF S
<1> QED BY <1>8, <1>10, <1>11, <1>16

Joined(c, code, k, v) == Up(v, Width(c, k)) \union (Down(code, Low(c, k)) \cap Mask(Width(c, k)))

LEMMA ImmediateDef ==
  ASSUME NEW c \in Seq(Field), WellSpelled(c), NEW code, NEW low
  PROVE  \E v : /\ v[0] = {}
                /\ \A k \in 1..Len(c) : v[k] = Joined(c, code, k, v[k - 1])
                /\ Immediate(c, code, low) = v[Len(c)] \cap Mask(Taille(c, low))
<1> DEFINE Field1(k, v) == Up(v, NbBits(c, low, k))
                            \union (Down(code, Debut(c, low)[k]) \cap Mask(NbBits(c, low, k)))
           g == [k \in 1..Len(c) |-> [x \in Word |-> Field1(k, x)]]
           f == CHOOSE v : v = [k \in 0..Len(c) |-> IF k = 0 THEN {} ELSE Field1(k, v[k - 1])]
<1>1. Len(c) \in Nat /\ {} \in Word
  BY DEF Word
<1>2. \A k \in 1..Len(c) : k - 1 \in 0..Len(c) /\ k \in 0..Len(c) /\ k # 0
  BY <1>1
<1>3. Immediate(c, code, low) = f[Len(c)] \cap Mask(Taille(c, low))
  BY Zenon DEF Immediate
<1>4. \A k \in 1..Len(c), x \in Word : g[k][x] = Field1(k, x) /\ g[k][x] \in Word
  <2>1. \A k \in 1..Len(c), x \in Word : Field1(k, x) \in Word
    <3>1. \A x, n : Up(x, n) \in SUBSET Bits /\ Mask(n) \in SUBSET Bits
      BY Shifts DEF Word
    <3> QED BY <3>1, Zenon DEF Word
  <2>2. \A k \in 1..Len(c), x \in Word : g[k][x] = Field1(k, x)
    BY Zenon
  <2> QED BY <2>1, <2>2, Zenon
<1>5. \A k \in 1..Len(c) : \A v : Field1(k, v) = Joined(c, code, k, v)
  BY DebutDef, Zenon DEF Joined
<1> HIDE DEF g, Field1
<1>6. PICK s : StepsTo(Len(c), Word, {}, g, s)
  BY <1>1, <1>4, StepByStep
<1>7. /\ s \in [0..Len(c) -> Word] /\ s[0] = {}
      /\ \A k \in 1..Len(c) : s[k] = g[k][s[k - 1]]
  BY <1>6, Zenon DEF StepsTo
<1>8. \A k \in 1..Len(c) : s[k] = Field1(k, s[k - 1])
  <2>1. \A k \in 1..Len(c) : s[k - 1] \in Word
    BY <1>2, <1>7
  <2> QED BY <1>4, <1>7, <2>1, Zenon
<1>9. s = [k \in 0..Len(c) |-> IF k = 0 THEN {} ELSE Field1(k, s[k - 1])]
  <2>1. \A k \in 0..Len(c) : k # 0 => k \in 1..Len(c)
    BY <1>1
  <2> QED BY <1>7, <1>8, <2>1
<1>10. f = [k \in 0..Len(c) |-> IF k = 0 THEN {} ELSE Field1(k, f[k - 1])]
  BY <1>9, Zenon
<1> HIDE DEF f
<1>11. f[0] = {}
  <2>1. 0 \in 0..Len(c)
    BY <1>1
  <2> QED BY <1>10, <2>1, Zenon
<1>12. \A k \in 1..Len(c) : f[k] = Joined(c, code, k, f[k - 1])
  <2>1. \A k \in 1..Len(c) : f[k] = Field1(k, f[k - 1])
    BY <1>2, <1>10, Zenon
  <2> QED BY <1>5, <2>1, Zenon
<1> QED BY <1>3, <1>11, <1>12, Zenon

(* Fields join as their spellings do, as long as a word holds them.        *)
LEMMA UpIs ==
  ASSUME NEW v, NEW n \in 0..31, NEW t \in Nat, v \in SUBSET (0..t - 1), t + n <= 31
  PROVE  \A i \in Int : i \in Up(v, n) <=> i - n \in v
<1>1. n % 32 = n
  OBVIOUS
<1>2. Up(v, n) = {i + n : i \in v} \cap Bits
  BY <1>1, Zenon DEF Up
<1>3. \A i \in v : i \in Int /\ i + n \in Bits
  BY DEF Bits
<1> QED BY <1>2, <1>3

LEMMA DownIs ==
  ASSUME NEW code \in Word, NEW l \in Bits
  PROVE  \A i \in Bits : i \in Down(code, l) <=> i + l \in code
<1>1. l % 32 = l /\ l \in Int
  BY DEF Bits
<1>2. Down(code, l) = {i - l : i \in code} \cap Bits
  BY <1>1, Zenon DEF Down
<1>3. \A i \in code : i \in Int
  BY DEF Word, Bits
<1>4. \A i \in Bits : i \in Int
  BY DEF Bits
<1> QED BY <1>1, <1>2, <1>3, <1>4

LEMMA MaskIs ==
  ASSUME NEW n \in 0..31
  PROVE  Mask(n) = 0..n - 1
BY DEF Mask, Bits

(* The value spelled by the m first bits of p.                             *)
Spell(p, m, code) == {i \in 0..m - 1 : p[m - i] \in code}

LEMMA Joining ==
  ASSUME NEW p \in Seq(Int), NEW q \in Seq(Int)
  PROVE  /\ Len(p) \in Nat /\ Len(q) \in Nat /\ Len(p \o q) = Len(p) + Len(q)
         /\ \A j \in 1..Len(p) + Len(q) : (p \o q)[j] = IF j <= Len(p) THEN p[j] ELSE q[j - Len(p)]
OBVIOUS

(* r is the m first bits of p, then the n first of q; these n bits are the *)
(* bits of the code from l on.                                             *)
Follow(r, p, q, m, n) == \A j \in 1..m + n : r[j] = IF j <= m THEN p[j] ELSE q[j - m]
From(q, n, l) == \A i \in 0..n - 1 : q[n - i] = i + l

Joins(r, k, p, m, n, l, code) ==
  Spell(r, k, code) = Up(Spell(p, m, code), n) \union (Down(code, l) \cap Mask(n))

LEMMA JoinBits ==
  ASSUME NEW p, NEW q, NEW r, NEW m \in Nat, NEW n \in Nat, NEW l \in Bits, NEW code \in Word,
         NEW k, k = m + n, k <= 31, From(q, n, l), Follow(r, p, q, m, n)
  PROVE  Joins(r, k, p, m, n, l, code)
<1>1. n \in 0..31
  OBVIOUS
<1> DEFINE v == Spell(p, m, code)
           s == Spell(r, k, code)
           u == Up(v, n)
           d == Down(code, l) \cap Mask(n)
<1>2. Mask(n) = 0..n - 1
  BY <1>1, MaskIs
<1>3. 0..n - 1 \subseteq Bits
  BY DEF Bits
<1>4. v \in SUBSET (0..m - 1)
  BY DEF Spell
<1>5. \A i \in 0..m - 1 : i \in v <=> p[m - i] \in code
  BY DEF Spell
<1>6. s \subseteq 0..m + n - 1 /\ \A i \in 0..m + n - 1 : i \in s <=> r[m + n - i] \in code
  BY DEF Spell
<1> HIDE DEF v, s
<1>7. \A i \in Int : i \in u <=> i - n \in v
  BY <1>1, <1>4, UpIs
<1>8. \A i \in 0..n - 1 : i \in d <=> i + l \in code
  BY <1>2, <1>3, DownIs
<1>9. d \subseteq 0..n - 1
  BY <1>2
<1>10. u \subseteq Int
  <2>1. u \subseteq Bits
    BY Shifts DEF Word
  <2> QED BY <2>1 DEF Bits
<1> HIDE DEF u, d
<1>11. ASSUME NEW i \in 0..m + n - 1
       PROVE  i \in s <=> IF i < n THEN i \in d ELSE i \in u
  <2>1. PICK j : j = m + n - i
    OBVIOUS
  <2>2. j \in 1..m + n /\ (j <= m <=> i >= n)
    BY <2>1
  <2>3. i \in s <=> r[j] \in code
    BY <1>6, <2>1
  <2>4. CASE i < n
    <3>1. i \in 0..n - 1 /\ ~(j <= m) /\ j - m = n - i
      BY <2>1, <2>2, <2>4
    <3>2. r[j] = q[n - i]
      BY <2>2, <3>1 DEF Follow
    <3>3. q[n - i] = i + l
      BY <3>1 DEF From
    <3> QED BY <1>8, <2>3, <2>4, <3>1, <3>2, <3>3
  <2>5. CASE ~(i < n)
    <3>1. i - n \in 0..m - 1 /\ j = m - (i - n) /\ j <= m
      BY <2>1, <2>5
    <3>2. r[j] = p[j]
      BY <2>2, <3>1 DEF Follow
    <3>3. i - n \in v <=> p[j] \in code
      BY <1>5, <3>1
    <3>4. i \in u <=> i - n \in v
      BY <1>7
    <3> QED BY <2>3, <2>5, <3>2, <3>3, <3>4
  <2> QED BY <2>4, <2>5
<1>12. s \subseteq u \union d
  <2> SUFFICES ASSUME NEW i \in s
               PROVE  i \in u \/ i \in d
    OBVIOUS
  <2>1. i \in 0..m + n - 1
    BY <1>6
  <2> QED BY <1>11, <2>1
<1>13. u \subseteq s
  <2> SUFFICES ASSUME NEW i \in u
               PROVE  i \in s
    OBVIOUS
  <2>1. i \in Int /\ i - n \in v
    BY <1>7, <1>10
  <2>2. i - n \in 0..m - 1
    BY <1>4, <2>1
  <2>3. i \in 0..m + n - 1 /\ ~(i < n)
    BY <2>1, <2>2
  <2> QED BY <1>11, <2>3
<1>14. d \subseteq s
  <2> SUFFICES ASSUME NEW i \in d
               PROVE  i \in s
    OBVIOUS
  <2>1. i \in 0..n - 1
    BY <1>9
  <2>2. i \in 0..m + n - 1 /\ i < n
    BY <2>1
  <2> QED BY <1>11, <2>2
<1>15. s = u \union d
  BY <1>12, <1>13, <1>14
<1> QED BY <1>15 DEF s, u, d, v, Joins

LEMMA JoinSpells ==
  ASSUME NEW p \in Seq(Int), NEW q \in Seq(Int), NEW l \in Bits, NEW code \in Word,
         Len(p) + Len(q) <= 31, From(q, Len(q), l)
  PROVE  Joins(p \o q, Len(p \o q), p, Len(p), Len(q), l, code)
<1>1. Len(p) \in Nat /\ Len(q) \in Nat /\ Len(p \o q) = Len(p) + Len(q)
  BY Joining
<1>2. Follow(p \o q, p, q, Len(p), Len(q))
  BY Joining, Zenon DEF Follow
<1>3. Len(p \o q) <= 31
  BY <1>1
<1> QED BY <1>1, <1>2, <1>3, JoinBits

LEMMA PieceFrom ==
  ASSUME NEW c \in Seq(Field), WellSpelled(c), NEW k \in 1..Len(c)
  PROVE  From(Piece(c, k), Width(c, k), Low(c, k))
<1>1. c[k][1] \in Int /\ c[k][2] \in Int /\ Width(c, k) \in 1..32
  <2>1. \A n \in Bits : n \in Int
    BY DEF Bits
  <2> QED BY <2>1, FieldType, Zenon
<1>2. PICK h \in Int : h = c[k][1]
  BY <1>1
<1>3. PICK l \in Int : l = c[k][2]
  BY <1>1
<1>4. PICK n \in 1..32 : n = Width(c, k)
  BY <1>1
<1>5. n = h - l + 1
  BY <1>2, <1>3, <1>4 DEF Width
<1>6. Piece(c, k) = [i \in 1..n |-> h - i + 1]
  BY <1>2, <1>4, Zenon DEF Piece
<1>7. \A i \in 0..n - 1 : n - i \in 1..n /\ h - (n - i) + 1 = i + l
  BY <1>5
<1>8. \A i \in 0..n - 1 : Piece(c, k)[n - i] = i + l
  BY <1>6, <1>7, Zenon
<1> QED BY <1>3, <1>4, <1>8, Zenon DEF From, Low

LEMMA NoSpelling ==
  ASSUME NEW code
  PROVE  Len(<<>>) = 0 /\ Spell(<<>>, Len(<<>>), code) = {}
BY DEF Spell

(* The value of an operand whose fields all have their two ends is the one *)
(* that the bits of the code encode, as long as a word holds it.           *)
LEMMA ImmediateIs ==
  ASSUME NEW c \in Seq(Field), WellSpelled(c), NEW code \in Word, NEW low, Len(Spelled(c)) <= 31
  PROVE  /\ Immediate(c, code, low) = Encoded(c, code)
         /\ Taille(c, low) = Len(Spelled(c)) /\ Len(Spelled(c)) \in 0..31
         /\ Encoded(c, code) \in SUBSET (0..Len(Spelled(c)) - 1)
<1>1. PICK t : /\ t[0] = 0 /\ \A k \in 0..Len(c) : t[k] \in Nat
               /\ \A k \in 1..Len(c) : t[k] = t[k - 1] + Width(c, k)
               /\ Taille(c, low) = t[Len(c)]
  BY TailleDef
<1>2. PICK p : /\ p[0] = <<>> /\ \A k \in 0..Len(c) : p[k] \in Seq(Int)
               /\ \A k \in 1..Len(c) : p[k] = p[k - 1] \o Piece(c, k)
               /\ Spelled(c) = p[Len(c)]
  BY SpelledDef
<1>3. PICK v : /\ v[0] = {}
               /\ \A k \in 1..Len(c) : v[k] = Joined(c, code, k, v[k - 1])
               /\ Immediate(c, code, low) = v[Len(c)] \cap Mask(Taille(c, low))
  BY ImmediateDef
<1>4. Len(c) \in Nat
  OBVIOUS
<1> DEFINE Same(k) == /\ Len(p[k]) = t[k]
                      /\ t[k] <= 31 => v[k] = Spell(p[k], Len(p[k]), code)
           S == {k \in 0..Len(c) : Same(k)}
<1>5. 0 \in S
  <2>1. Same(0)
    BY <1>1, <1>2, <1>3, NoSpelling, Zenon
  <2>2. 0 \in 0..Len(c)
    BY <1>4
  <2> QED BY <2>1, <2>2
<1>6. ASSUME NEW k \in 0..Len(c) - 1, k \in S
      PROVE  k + 1 \in S
  <2>1. k + 1 \in 1..Len(c) /\ (k + 1) - 1 = k /\ k \in 0..Len(c) /\ k + 1 \in 0..Len(c)
    BY <1>4
  <2> DEFINE q == Piece(c, k + 1)
             w == Width(c, k + 1)
  <2>2. q \in Seq(Int) /\ Len(q) = w /\ w \in 1..32 /\ Low(c, k + 1) \in Bits
    BY <2>1, FieldType
  <2>3. From(q, w, Low(c, k + 1))
    BY <2>1, PieceFrom
  <2>4. v[k + 1] = Up(v[k], w) \union (Down(code, Low(c, k + 1)) \cap Mask(w))
    BY <1>3, <2>1, Zenon DEF Joined
  <2>5. p[k + 1] = p[k] \o q /\ p[k] \in Seq(Int)
    BY <1>2, <2>1, Zenon
  <2>6. t[k + 1] = t[k] + w /\ t[k] \in Nat
    BY <1>1, <2>1, Zenon
  <2> HIDE DEF q, w
  <2>7. Same(k)
    BY <1>6
  <2>8. Len(p[k + 1]) = t[k + 1]
    <3>1. Len(p[k] \o q) = Len(p[k]) + Len(q)
      BY <2>2, <2>5, Joining
    <3> QED BY <2>2, <2>5, <2>6, <2>7, <3>1, Zenon
  <2>9. ASSUME t[k + 1] <= 31
        PROVE  v[k + 1] = Spell(p[k + 1], Len(p[k + 1]), code)
    <3>1. t[k] + w <= 31 /\ t[k] <= 31
      BY <2>2, <2>6, <2>9
    <3>2. v[k] = Spell(p[k], Len(p[k]), code)
      BY <2>7, <3>1, Zenon
    <3>3. Len(p[k]) + Len(q) <= 31
      BY <2>2, <2>7, <3>1, Zenon
    <3>4. Joins(p[k] \o q, Len(p[k] \o q), p[k], Len(p[k]), Len(q), Low(c, k + 1), code)
      BY <2>2, <2>3, <2>5, <3>3, JoinSpells
    <3> QED BY <2>2, <2>4, <2>5, <3>2, <3>4, Zenon DEF Joins
  <2>10. Same(k + 1)
    BY <2>8, <2>9, Zenon
  <2> QED BY <2>1, <2>10, Zenon
<1>7. \A k \in 0..Len(c) - 1 : k \in S => k + 1 \in S
  BY <1>6, Zenon
<1> HIDE DEF S
<1>8. \A k \in 0..Len(c) : k \in S
  BY <1>4, <1>5, <1>7, UpTo
<1>9. Len(c) \in S
  BY <1>4, <1>8
<1>10. Same(Len(c))
  BY <1>9, Zenon DEF S
<1>11. Taille(c, low) = Len(Spelled(c)) /\ Len(Spelled(c)) \in Nat
  <2>1. Len(c) \in 0..Len(c)
    BY <1>4
  <2> QED BY <1>1, <1>2, <1>10, <2>1, Zenon
<1>12. Len(Spelled(c)) \in 0..31
  <2>1. \A n \in Nat : n <= 31 => n \in 0..31
    OBVIOUS
  <2> QED BY <1>11, <2>1, Zenon
<1>13. v[Len(c)] = Encoded(c, code)
  <2>1. t[Len(c)] <= 31
    BY <1>1, <1>11
  <2>2. v[Len(c)] = Spell(Spelled(c), Len(Spelled(c)), code)
    BY <1>2, <1>10, <2>1, Zenon
  <2> QED BY <2>2, Zenon DEF Encoded, Spell
<1>14. Encoded(c, code) \in SUBSET (0..Len(Spelled(c)) - 1)
  BY DEF Encoded
<1>15. Mask(Taille(c, low)) = 0..Len(Spelled(c)) - 1
  BY <1>11, <1>12, MaskIs
<1>16. Immediate(c, code, low) = Encoded(c, code)
  BY <1>3, <1>13, <1>14, <1>15
<1> QED BY <1>11, <1>12, <1>14, <1>16
-----------------------------------------------------------------------------
(* What is printed of an operand                                           *)

LEMMA UpOne ==
  ASSUME NEW v \in Word
  PROVE  0 \notin Up(v, 1) /\ \A j \in 0..30 : j + 1 \in Up(v, 1) <=> j \in v
<1>1. Up(v, 1) = {i + 1 : i \in v} \cap Bits
  <2>1. 1 % 32 = 1
    OBVIOUS
  <2> QED BY <2>1, Zenon DEF Up
<1>2. \A i \in v : i \in Nat
  BY DEF Word, Bits
<1>3. \A j \in 0..30 : j + 1 \in Bits
  BY DEF Bits
<1> QED BY <1>1, <1>2, <1>3

LEMMA TimesFour ==
  ASSUME NEW n \in 0..28, NEW e \in SUBSET (0..n - 1)
  PROVE  Number(Up(e, 2), 30) = 4 * Number(e, n)
<1> DEFINE w == Up(e, 1)
           u == Up(e, 2)
<1>1. /\ \A i \in Int : i \in w <=> i - 1 \in e
      /\ \A i \in Int : i \in u <=> i - 2 \in e
  <2>1. 1 \in 0..31 /\ 2 \in 0..31 /\ n \in Nat /\ n + 1 <= 31 /\ n + 2 <= 31
    OBVIOUS
  <2> QED BY <2>1, UpIs, Zenon
<1> HIDE DEF w, u
<1>2. Reading(0, e, 28)[28] = Reading(0, e, n)[n]
  <2>1. \A j \in 0..27 : j \in e <=> IF j < n THEN j \in e ELSE 0 = -1
    OBVIOUS
  <2> QED BY <2>1, ReadingExtended
<1>3. Reading(0, w, 29)[29] = 2 * Reading(0, e, 28)[28]
  <2>1. 0 \notin w /\ \A j \in 0..28 - 1 : j + 1 \in w <=> j \in e
    BY <1>1
  <2>2. Reading(0, w, 28 + 1)[28 + 1] = 2 * Reading(0, e, 28)[28]
    BY <2>1, ReadingDoubled
  <2> QED BY <2>2
<1>4. Reading(0, u, 30)[30] = 2 * Reading(0, w, 29)[29]
  <2>1. 0 \notin u /\ \A j \in 0..29 - 1 : j + 1 \in u <=> j \in w
    BY <1>1
  <2>2. Reading(0, u, 29 + 1)[29 + 1] = 2 * Reading(0, w, 29)[29]
    BY <2>1, ReadingDoubled
  <2> QED BY <2>2
<1>5. Reading(0, e, n)[n] \in Int
  BY ReadingDef
<1> QED BY <1>2, <1>3, <1>4, <1>5 DEF Number, u

LEMMA SignedTwice ==
  ASSUME NEW n \in 0..31, NEW e \in SUBSET (0..n - 1)
  PROVE  Signed(Up(SignExtend(e, n), 1), 32) = 2 * Signed(e, n)
<1> DEFINE a == IF n - 1 \in e THEN -1 ELSE 0
           x == SignExtend(e, n)
           w == Up(x, 1)
<1>1. a \in {0, -1} /\ (a = -1 <=> n - 1 \in e)
  OBVIOUS
<1>2. x \in Word /\ \A j \in 0..31 : j \in x <=> IF j < n THEN j \in e ELSE n - 1 \in e
  <2>1. e \in Word
    BY DEF Word, Bits
  <2>2. x \in Word
    BY <2>1, ExtendType
  <2>3. \A j \in 0..31 : j \in x <=> IF j < n THEN j \in e ELSE n - 1 \in e
    BY DEF SignExtend, Bits
  <2> QED BY <2>2, <2>3
<1> HIDE DEF x
<1>3. 0 \notin w /\ \A j \in 0..30 : j + 1 \in w <=> j \in x
  BY <1>2, UpOne
<1> HIDE DEF w
<1>4. 31 \in w <=> n - 1 \in e
  <2>1. 31 \in w <=> 30 \in x
    <3>1. 30 \in 0..30 /\ 30 + 1 = 31
      OBVIOUS
    <3> QED BY <1>3, <3>1
  <2>2. CASE n = 31
    BY <1>2, <2>1, <2>2
  <2>3. CASE n # 31
    BY <1>2, <2>1, <2>3
  <2> QED BY <2>2, <2>3
<1> HIDE DEF a
<1>5. Reading(a, x, 31)[31] = Reading(a, e, n)[n]
  <2>1. \A j \in 0..31 - 1 : j \in x <=> IF j < n THEN j \in e ELSE a = -1
    BY <1>1, <1>2
  <2> QED BY <1>1, <2>1, ReadingExtended
<1>6. Reading(a, w, 32)[32] = 2 * Reading(a, x, 31)[31]
  <2>1. \A j \in 0..31 - 1 : j + 1 \in w <=> j \in x
    BY <1>3
  <2>2. Reading(a, w, 31 + 1)[31 + 1] = 2 * Reading(a, x, 31)[31]
    BY <1>1, <1>3, <2>1, ReadingDoubled
  <2> QED BY <2>2
<1>7. Signed(w, 32) = Reading(a, w, 32)[32]
  BY <1>4 DEF Signed, a
<1>8. Signed(e, n) = Reading(a, e, n)[n]
  BY DEF Signed, a
<1> QED BY <1>5, <1>6, <1>7, <1>8 DEF w, x

LEMMA NumberOfSix ==
  ASSUME NEW n \in 0..6, NEW e \in SUBSET (0..n - 1)
  PROVE  Number(e, 6) = Number(e, n)
<1>1. \A j \in 0..6 - 1 : j \in e <=> IF j < n THEN j \in e ELSE 0 = -1
  OBVIOUS
<1> QED BY <1>1, ReadingExtended DEF Number

LEMMA ThirtyTwo == Number({5}, 6) = 32
<1> DEFINE r == Reading(0, {5}, 6)
<1>1. r[0] = 0 /\ \A i \in 1..6 : r[i] = 2 * r[i - 1] + Bit({5}, 6 - i)
  BY ReadingDef
<1> HIDE DEF r
<1>2. r[1] = 1
  BY <1>1 DEF Bit
<1>3. r[2] = 2
  BY <1>1, <1>2 DEF Bit
<1>4. r[3] = 4
  BY <1>1, <1>3 DEF Bit
<1>5. r[4] = 8
  BY <1>1, <1>4 DEF Bit
<1>6. r[5] = 16
  BY <1>1, <1>5 DEF Bit
<1>7. r[6] = 32
  BY <1>1, <1>6 DEF Bit
<1> QED BY <1>7 DEF Number, r

(* The two bits of the type of a shift, and what they are printed as.      *)
LEMMA ShiftBits ==
  ASSUME NEW code, NEW t \in SUBSET {0, 1}, 0 \in t <=> 4 \in code, 1 \in t <=> 5 \in code
  PROVE  /\ {4, 5} \cap code = {} => t = {}
         /\ {4, 5} \cap code = {4} => t = {0}
         /\ {4, 5} \cap code = {5} => t = {1}
         /\ {4, 5} \cap code \notin {{}, {4}, {5}} => t = {0, 1}
<1>1. CASE 4 \in code /\ 5 \in code
  <2>1. {4, 5} \cap code = {4, 5} /\ t = {0, 1}
    BY <1>1
  <2>2. {4, 5} # {} /\ {4, 5} # {4} /\ {4, 5} # {5}
    OBVIOUS
  <2> QED BY <2>1, <2>2
<1>2. CASE 4 \in code /\ 5 \notin code
  <2>1. {4, 5} \cap code = {4} /\ t = {0}
    BY <1>2
  <2>2. {4} # {} /\ {4} # {5}
    OBVIOUS
  <2> QED BY <2>1, <2>2
<1>3. CASE 4 \notin code /\ 5 \in code
  <2>1. {4, 5} \cap code = {5} /\ t = {1}
    BY <1>3
  <2>2. {5} # {} /\ {4} # {5}
    OBVIOUS
  <2> QED BY <2>1, <2>2
<1>4. CASE 4 \notin code /\ 5 \notin code
  <2>1. {4, 5} \cap code = {} /\ t = {}
    BY <1>4
  <2>2. {} # {4} /\ {} # {5}
    OBVIOUS
  <2> QED BY <2>1, <2>2
<1> QED BY <1>1, <1>2, <1>3, <1>4

LEMMA ShiftNames ==
  ASSUME NEW v
  PROVE  /\ TypeName({}) = "LSL" /\ Amount({}, v) = v
         /\ TypeName({0}) = "LSR" /\ Amount({0}, v) = IF v = {} THEN {5} ELSE v
         /\ TypeName({1}) = "ASR" /\ Amount({1}, v) = IF v = {} THEN {5} ELSE v
         /\ TypeName({0, 1}) = "RRX" /\ Amount({0, 1}, v) = IF v = {} THEN {0} ELSE v
<1>1. /\ {0} # {} /\ {1} # {} /\ {0, 1} # {} /\ {0} # {1} /\ {0} # {0, 1} /\ {1} # {0, 1}
      /\ {1} # {0} /\ {0, 1} # {0} /\ {0, 1} # {1}
  <2>1. 0 # 1
    OBVIOUS
  <2>2. {0} # {} /\ {1} # {} /\ {0, 1} # {}
    BY Zenon
  <2>3. {0} # {1}
    BY <2>1, Zenon
  <2>4. {0} # {0, 1}
    BY <2>1, Zenon
  <2>5. {1} # {0, 1}
    BY <2>1, Zenon
  <2> QED BY <2>2, <2>3, <2>4, <2>5, Zenon
<1>2. /\ TypeName({}) = "LSL" /\ TypeName({0}) = "LSR" /\ TypeName({1}) = "ASR"
      /\ TypeName({0, 1}) = "RRX"
  BY <1>1, Zenon DEF TypeName
<1>3. Amount({}, v) = v /\ Amount({0, 1}, v) = IF v = {} THEN {0} ELSE v
  BY <1>1, Zenon DEF Amount
<1>4. Amount({0}, v) = IF v = {} THEN {5} ELSE v
  BY <1>1, Zenon DEF Amount
<1>5. Amount({1}, v) = IF v = {} THEN {5} ELSE v
  BY <1>1, Zenon DEF Amount
<1> QED BY <1>2, <1>3, <1>4, <1>5

(* The low bits of the offset of BL and B.T4 are those of the value that   *)
(* its champop spells, whatever is added above them.                       *)
LEMMA OffsetLow ==
  ASSUME NEW e \in Word, NEW code
  PROVE  \A i \in 0..21 : i \in Offset(e, code) <=> i - 1 \in e
<1> DEFINE b == e \cap 0..20
           s == IF 23 \in code
                THEN b \union {i \in {21, 22} : (IF i = 21 THEN 11 ELSE 13) \in code} \union {23}
                ELSE b \union {i \in {22} : 13 \notin code}
<1>1. \A i \in 0..20 : i \in s <=> i \in e
  <2>1. \A i \in 0..20 : i \in b <=> i \in e
    OBVIOUS
  <2>2. CASE 23 \in code
    BY <2>1, <2>2
  <2>3. CASE 23 \notin code
    BY <2>1, <2>3
  <2> QED BY <2>2, <2>3
<1>2. s \in Word
  BY DEF Word, Bits
<1>3. Offset(e, code) = SignExtend(Up(s, 1), 24)
  BY Zenon DEF Offset
<1> HIDE DEF s
<1>4. 0 \notin Up(s, 1) /\ \A j \in 0..30 : j + 1 \in Up(s, 1) <=> j \in s
  BY <1>2, UpOne
<1>5. \A i \in 0..21 : i \in SignExtend(Up(s, 1), 24) <=> i \in Up(s, 1)
  BY DEF SignExtend
<1>6. 0 - 1 \notin e
  BY DEF Word, Bits
<1> SUFFICES ASSUME NEW i \in 0..21 PROVE i \in Up(s, 1) <=> i - 1 \in e
  BY <1>3, <1>5
<1>7. CASE i = 0
  BY <1>4, <1>6, <1>7
<1>8. CASE i # 0
  <2>1. i - 1 \in 0..20 /\ i - 1 \in 0..30 /\ (i - 1) + 1 = i
    BY <1>8
  <2> QED BY <1>1, <1>4, <2>1
<1> QED BY <1>7, <1>8

LEMMA ArgEncoded ==
  ASSUME NEW o \in Operand, WellSpelled(o.champop), NEW code \in Word, NEW low,
         Len(Spelled(o.champop)) <= Widest(o.type)
  PROVE  Expected(Arg(o.type, o.champop, code, low), o, code)
<1> DEFINE c == o.champop
           e == Encoded(c, code)
           n == Len(Spelled(c))
           arg == Arg(o.type, c, code, low)
<1>1. c \in Seq(Field) /\ o.type \in TypeOp
  BY DEF Operand
<1>2. n <= 31
  <2>1. \A t : Widest(t) = 4 \/ Widest(t) = 6 \/ Widest(t) = 28 \/ Widest(t) = 31
    BY DEF Widest
  <2>2. n \in Nat
    <3>1. Spelled(c) \in Seq(Int)
      <4>1. Len(c) \in 0..Len(c)
        BY <1>1
      <4> QED BY <1>1, <4>1, SpelledDef, Zenon
    <3> QED BY <3>1
  <2> QED BY <2>1, <2>2
<1>3. /\ Immediate(c, code, low) = e /\ Taille(c, low) = n
      /\ n \in 0..31 /\ e \in SUBSET (0..n - 1)
  BY <1>1, <1>2, ImmediateIs
<1> HIDE DEF c, e, n
<1>4. CASE o.type = "RGSTR"
  <2>1. arg = <<"R", e>>
    BY <1>3, <1>4, Zenon DEF Arg
  <2>2. n <= 4
    BY <1>4 DEF Widest, n, c
  <2>3. e \subseteq 0..3
    BY <1>3, <2>2
  <2> QED BY <1>4, <2>1, <2>3 DEF Expected, e, c
<1>5. CASE o.type = "IMMEDIATE32"
  BY <1>3, <1>5 DEF Arg, Expected, e, c
<1>6. CASE o.type = "IMMEDIATE32P00"
  <2>1. arg[2] = Up(e, 2)
    BY <1>3, <1>6 DEF Arg
  <2>2. n <= 28
    BY <1>6 DEF Widest, n, c
  <2>3. n \in 0..28
    BY <1>3, <2>2
  <2>4. Number(arg[2], 30) = 4 * Number(e, n)
    BY <1>3, <2>1, <2>3, TimesFour
  <2> QED BY <1>6, <2>4 DEF Expected, e, n, c
<1>7. CASE o.type = "SGNEXTP0"
  <2>1. arg[2] = Up(SignExtend(e, n), 1)
    BY <1>3, <1>7 DEF Arg
  <2>2. Signed(arg[2], 32) = 2 * Signed(e, n)
    BY <1>3, <2>1, SignedTwice
  <2> QED BY <1>7, <2>2 DEF Expected, e, n, c
<1>8. CASE o.type = "REGLIST"
  BY <1>3, <1>8 DEF Arg, Expected, e, c
<1>9. CASE o.type = "DECIMMSHFT"
  <2> DEFINE t == Down(code, 4) \cap {0, 1}
             m == Number(e, n)
  <2>1. arg = <<TypeName(t), Amount(t, e)>>
    BY <1>3, <1>9, Zenon DEF Arg
  <2>2. (0 \in t <=> 4 \in code) /\ (1 \in t <=> 5 \in code) /\ t \subseteq {0, 1}
    <3>1. 0 \in Bits /\ 1 \in Bits /\ 4 \in Bits /\ 0 + 4 = 4 /\ 1 + 4 = 5
      BY DEF Bits
    <3>2. \A i \in Bits : i \in Down(code, 4) <=> i + 4 \in code
      BY <3>1, DownIs
    <3> QED BY <3>1, <3>2
  <2>3. n <= 6
    BY <1>9 DEF Widest, n, c
  <2>4. n \in 0..6
    BY <1>3, <2>3
  <2>5. Number(e, 6) = m /\ (m = 0 <=> e = {})
    <3>1. n \in Nat
      BY <1>3
    <3> QED BY <1>3, <2>4, <3>1, NumberOfSix, ZeroNumber
  <2> HIDE DEF t, m
  <2>6. /\ {4, 5} \cap code = {} => t = {}
        /\ {4, 5} \cap code = {4} => t = {0}
        /\ {4, 5} \cap code = {5} => t = {1}
        /\ {4, 5} \cap code \notin {{}, {4}, {5}} => t = {0, 1}
    BY <2>2, ShiftBits
  <2>7. ASSUME {4, 5} \cap code = {} PROVE ShiftBy(m, arg, code)
    <3>1. t = {}
      BY <2>6, <2>7, Zenon
    <3>2. arg = <<"LSL", e>>
      BY <2>1, <3>1, ShiftNames, Zenon
    <3> HIDE DEF arg
    <3>3. arg[1] = "LSL" /\ arg[2] = e
      BY <3>2
    <3> QED BY <2>5, <2>7, <3>3, Zenon DEF ShiftBy
  <2>8. ASSUME {4, 5} \cap code = {4} PROVE ShiftBy(m, arg, code)
    <3>1. t = {0}
      BY <2>6, <2>8, Zenon
    <3>2. arg = <<"LSR", IF e = {} THEN {5} ELSE e>>
      BY <2>1, <3>1, ShiftNames, Zenon
    <3> HIDE DEF arg
    <3>3. arg[1] = "LSR" /\ arg[2] = IF e = {} THEN {5} ELSE e
      BY <3>2
    <3>4. Number(arg[2], 6) = IF m = 0 THEN 32 ELSE m
      BY <2>5, <3>3, ThirtyTwo
    <3> QED BY <2>8, <3>3, <3>4 DEF ShiftBy
  <2>9. ASSUME {4, 5} \cap code = {5} PROVE ShiftBy(m, arg, code)
    <3>1. t = {1}
      BY <2>6, <2>9, Zenon
    <3>2. arg = <<"ASR", IF e = {} THEN {5} ELSE e>>
      BY <2>1, <3>1, ShiftNames, Zenon
    <3> HIDE DEF arg
    <3>3. arg[1] = "ASR" /\ arg[2] = IF e = {} THEN {5} ELSE e
      BY <3>2
    <3>4. Number(arg[2], 6) = IF m = 0 THEN 32 ELSE m
      BY <2>5, <3>3, ThirtyTwo
    <3> QED BY <2>9, <3>3, <3>4 DEF ShiftBy
  <2>10. ASSUME {4, 5} \cap code \notin {{}, {4}, {5}} PROVE ShiftBy(m, arg, code)
    <3>1. t = {0, 1}
      BY <2>6, <2>10, Zenon
    <3>2. CASE e = {}
      <4>1. arg = <<"RRX", {0}>>
        BY <2>1, <3>1, <3>2, ShiftNames, Zenon
      <4> HIDE DEF arg
      <4> QED BY <2>5, <2>10, <3>2, <4>1 DEF ShiftBy
    <3>3. CASE e # {}
      <4>1. arg = <<"RRX", e>>
        BY <2>1, <3>1, <3>3, ShiftNames, Zenon
      <4> HIDE DEF arg
      <4>2. arg[2] = e
        BY <4>1
      <4>3. Number(arg[2], 6) = m /\ m # 0
        BY <2>5, <3>3, <4>2, Zenon
      <4> QED BY <2>10, <4>3 DEF ShiftBy
    <3> QED BY <3>2, <3>3
  <2>11. ShiftBy(m, arg, code)
    BY <2>7, <2>8, <2>9, <2>10
  <2> HIDE DEF arg
  <2>12. ShiftBy(Number(Encoded(o.champop, code), Len(Spelled(o.champop))), arg, code)
    BY <2>11, Zenon DEF e, n, c, m
  <2>13. Expected(arg, o, code)
    BY <1>9, <2>12 DEF Expected
  <2> QED BY <2>13, Zenon DEF arg, c
<1>10. CASE o.type = "SGNEXT_B"
  <2>1. arg[2] = Offset(e, code)
    BY <1>3, <1>10 DEF Arg
  <2>2. e \in Word
    BY <1>3 DEF Word, Bits
  <2>3. \A i \in 0..21 : i \in arg[2] <=> i - 1 \in e
    BY <2>1, <2>2, OffsetLow
  <2> QED BY <1>10, <2>3 DEF Expected, e, c
<1>11. CASE o.type = "ITBLCK"
  BY <1>3, <1>11 DEF Arg, Expected, e, c
<1>12. CASE o.type \notin {"RGSTR", "IMMEDIATE32", "IMMEDIATE32P00", "SGNEXTP0", "REGLIST",
                           "DECIMMSHFT", "SGNEXT_B", "ITBLCK"}
  BY <1>12 DEF Expected
<1> QED BY <1>4, <1>5, <1>6, <1>7, <1>8, <1>9, <1>10, <1>11, <1>12 DEF c
-----------------------------------------------------------------------------
(* Operands of the lines                                                   *)

(* The operands of a line are those of its row, read in its code.          *)
LineRead(l) ==
  /\ l.key \in Keys /\ l.code \in Word
  /\ \E low : l.args = Args(l.key, l.code, low)

LinesRead == \A i \in 1..Len(lines) : LineRead(lines[i])

LEMMA LineExpected ==
  ASSUME NEW l, LineRead(l),
         NEW k \in 1..Len(RowAt(l.key).ops), WellSpelled(RowAt(l.key).ops[k].champop)
  PROVE  Expected(l.args[k], RowAt(l.key).ops[k], l.code)
<1> DEFINE o == RowAt(l.key).ops[k]
<1>1. l.key \in Keys /\ l.code \in Word
  BY DEF LineRead
<1>2. RowAt(l.key).ops \in Seq(Operand)
  BY <1>1, RowType DEF Row
<1>3. o \in Operand
  BY <1>2
<1>4. PICK low : l.args = Args(l.key, l.code, low)
  BY DEF LineRead
<1>5. l.args[k] = Arg(o.type, o.champop, l.code, low)
  BY <1>4, Zenon DEF Args
<1>6. Len(Spelled(o.champop)) <= Widest(o.type)
  BY <1>1, WidthAssumption, Zenon
<1> HIDE DEF o
<1>7. WellSpelled(o.champop)
  BY DEF o
<1>8. Expected(Arg(o.type, o.champop, l.code, low), o, l.code)
  BY <1>1, <1>3, <1>6, <1>7, ArgEncoded, Zenon
<1> QED BY <1>5, <1>8, Zenon DEF o

LEMMA LinesReadNext == TypeOK /\ LinesRead /\ [Next]_vars => LinesRead'
<1> SUFFICES ASSUME TypeOK, LinesRead, [Next]_vars PROVE LinesRead'
  OBVIOUS
<1>1. CASE Show
  <2>1. PICK r \in Read : \E key \in RowFor(r) : \E low \in Lows(key) :
          lines' = Append(lines, Line(r, key, low))
    BY <1>1 DEF Show
  <2>2. PICK key \in RowFor(r) : \E low \in Lows(key) : lines' = Append(lines, Line(r, key, low))
    BY <2>1
  <2>3. PICK low \in Lows(key) : lines' = Append(lines, Line(r, key, low))
    BY <2>2
  <2>4. r \in Fetched
    BY DEF Read
  <2>5. key \in Keys /\ r.code \in Word
    BY <2>4, RowForType, FetchedType
  <2> DEFINE l == Line(r, key, low)
  <2>6. l.key = key /\ l.code = r.code /\ l.args = Args(key, r.code, low)
    BY DEF Line
  <2>7. LineRead(l)
    BY <2>5, <2>6, Zenon DEF LineRead
  <2>8. lines \in Seq(LineType)
    BY Zenon DEF TypeOK
  <2> HIDE DEF l
  <2>9. lines' = Append(lines, l)
    BY <2>3 DEF l
  <2>10. /\ lines'[Len(lines')] = l
         /\ \A i \in 1..Len(lines) : lines'[i] = lines[i]
         /\ \A i \in 1..Len(lines') : i = Len(lines') \/ i \in 1..Len(lines)
    BY <2>8, <2>9, SeqOne
  <2> QED BY <2>7, <2>10, Zenon DEF LinesRead
<1>2. CASE Refuse \/ NoText \/ Outside \/ Walk
  <2>1. lines' = <<>>
    BY <1>2 DEF Refuse, NoText, Outside, Walk, Typed
  <2> QED BY <2>1 DEF LinesRead
<1>3. CASE ~Show /\ ~(Refuse \/ NoText \/ Outside \/ Walk)
  <2>1. lines' = lines
    BY <1>3 DEF Next, Load, StopAtEnd, StopAtZero, NoRow, Hidden, ShowFaults, Unknown,
         HeapBreaks, Over, vars
  <2> QED BY <2>1 DEF LinesRead
<1> QED BY <1>1, <1>2, <1>3

(* What is printed of the registers, immediates, lists, conditions, shifts *)
(* and offsets is what the bits of the code encode, as far as ArgsAsEncoded*)
(* says: not the name of a rotation by an amount, nor the bits of the      *)
(* offset of BL and B.T4 above the 22 low ones (get_operande, immediate,   *)
(* signextend and decodeIMMshift), for every dictionary whose fields are   *)
(* of the widths of WidthAssumption.                                       *)
THEOREM ArgsHonest == Spec => []ArgsAsEncoded
<1>1. Init => IInv /\ LinesRead
  BY InitInv DEF Init, LinesRead
<1>2. IInv /\ LinesRead /\ [Next]_vars => (IInv /\ LinesRead)'
  <2>1. IInv => TypeOK
    BY DEF IInv
  <2> QED BY <2>1, NextInv, LinesReadNext
<1>3. LinesRead => ArgsAsEncoded
  BY LineExpected DEF LinesRead, ArgsAsEncoded
<1> QED BY <1>1, <1>2, <1>3, PTL DEF Spec
-----------------------------------------------------------------------------
(* Each turn of the loop of lecture_txt goes on in a text that no turn     *)
(* changes, and never further than the end of an instruction that begins   *)
(* in it: what is left of the text is a bound on the turns to come, be the *)
(* thousand turns of its own condition over or not.                        *)
Forward ==
  up' /\ pc = "walk" /\ pc' = "walk"
    => text' = text /\ step < step' /\ step' <= Len(text) + 3

THEOREM WalkAdvances == Spec => [][Forward]_vars
<1>1. IInv /\ [Next]_vars => [Forward]_vars
  <2> SUFFICES ASSUME IInv, [Next]_vars, up', pc = "walk", pc' = "walk", vars' # vars
               PROVE  text' = text /\ step < step' /\ step' <= Len(text) + 3
    BY DEF Forward
  <2>1. Hidden \/ Show
    BY DEF Next, Load, Refuse, NoText, Outside, Walk, Typed, StopAtEnd, StopAtZero, NoRow,
         ShowFaults, Unknown, Return, HeapBreaks, Over
  <2>2. PICK r \in Read : \E key \in RowFor(r) : Pass(r, key)
    BY <2>1 DEF Hidden, Show
  <2>3. PICK key \in RowFor(r) : Pass(r, key)
    BY <2>2
  <2>4. r \in Fetched /\ More /\ text' = text
    BY <2>1 DEF Read, Hidden, Show, Walking, segment
  <2>5. step \in Nat
    BY DEF IInv, TypeOK
  <2> QED BY <2>3, <2>4, <2>5, PassKeeps DEF IInv
<1> QED BY <1>1, InitInv, NextInv, PTL DEF Spec
=============================================================================
