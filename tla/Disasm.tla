------------------------------- MODULE Disasm -------------------------------
(***************************************************************************)
(* The command "disasm": disasmcmd (inter.c), _desasm_cmd and lecture_txt  *)
(* (desasm.c), with cond, IT and the search of the dictionaries.           *)
(*                                                                         *)
(* A byte is the set of its bits that are 1, as a word is in Operands.     *)
(* Using memory that was released sets ub, and the process may die at any  *)
(* later step.                                                             *)
(***************************************************************************)
EXTENDS Operands

CONSTANTS
  Dico16, Dico32,  \* the rows loaded from the two dictionaries
  Texts,           \* the contents of .text considered
  Beyond,          \* what the bytes after the end of a text may be
  Base,            \* adresse_initiale of .text
  TextMax,         \* its taille_max
  Addresses,       \* the addresses typed
  Turns,           \* 1000, in the condition of the loop
  MaxCommands,     \* bound on the number of commands of a session
  NULL

Byte == SUBSET (0..7)
Cells == 0..3      \* the array op of an instruction

(* TYPE_INST: identifiant, mnemo, signature, masque, and the nb_operande   *)
(* operands with their typeop and champop.                                 *)
Operand == [type : TypeOp, champop : Seq(Field)]

Row == [id : STRING, mnemo : STRING, sig : Word, mask : Word, ops : Seq(Operand)]

ASSUME DisasmAssumption ==
  /\ Dico16 \in Seq(Row) /\ Dico32 \in Seq(Row)
  /\ \A d \in {Dico16, Dico32} : \A i \in 1..Len(d) :
       Len(d[i].ops) \in 1..4 /\ (d[i].mnemo = "IT" => d[i].id = "IT.T1")
  /\ \A t \in Texts : t \in Seq(Byte) /\ Len(t) <= TextMax
  /\ Beyond \in SUBSET Byte /\ Beyond # {}
  /\ Base \in Nat /\ TextMax \in Nat /\ Turns \in Nat /\ MaxCommands \in Nat
  /\ Addresses \in SUBSET Nat

(* A row is known by the number of halfwords of its instructions and its   *)
(* place in their dictionary.                                              *)
Dicos == <<Dico16, Dico32>>
Keys == UNION {{n} \X (1..Len(Dicos[n])) : n \in 1..2}

RowAt(key) == Dicos[key[1]][key[2]]

VARIABLES
  pc,      \* "idle", or "walk" in lecture_txt
  where,   \* what the last load left: "nothing", "text" or "no text"
  text,    \* the content of .text
  start,   \* the range typed
  stop,
  step,    \* the offset of the instruction read
  turns,   \* i, in lecture_txt, up to Turns
  inst,    \* the row of the last instruction found, or NULL
  names,   \* the mnemo of each row, which cond and IT overwrite
  op,      \* the operands: "null", "live" or "freed"
  lines,   \* history: the lines printed by the command
  ret,     \* what disasmcmd returned
  up,      \* the emulator is running
  ub,      \* an operand was released twice
  count    \* the number of commands so far

vars == <<pc, where, text, start, stop, step, turns, inst, names, op, lines,
          ret, up, ub, count>>
segment == <<where, text>>
range   == <<start, stop>>
walk    == <<step, turns, inst, op>>

OK  == 0     \* CMD_OK_RETURN_VALUE
ERR == 1

Init ==
  /\ pc = "idle"
  /\ where = "nothing" /\ text = <<>>
  /\ start = 0 /\ stop = 0
  /\ step = 0 /\ turns = 0 /\ inst = NULL
  /\ names = [k \in Keys |-> RowAt(k).mnemo]
  /\ op = [c \in Cells |-> "null"]
  /\ lines = <<>>
  /\ ret = OK /\ up = TRUE /\ ub = FALSE
  /\ count = 0

-----------------------------------------------------------------------------
(* is_32: the five high bits of the second byte are 11101, 11110 or 11111. *)
Is32(b) == b \cap 3..7 \in {{3, 5, 6, 7}, {4, 5, 6, 7}, 3..7}

(* Two bytes make a halfword, low byte first; two halfwords make a 32-bit  *)
(* code, high halfword first.                                              *)
Half(lo, hi) == lo \union Up(hi, 8)

CodeOf(b) ==
  IF Is32(b[2]) THEN Half(b[3], b[4]) \union Up(Half(b[1], b[2]), 16)
                ELSE Half(b[1], b[2])

SizeOf(b) == IF Is32(b[2]) THEN 2 ELSE 1

(* The instruction read, whatever its bytes are beyond the end.            *)
ByteAt(k) == IF k < Len(text) THEN {text[k + 1]} ELSE Beyond

Fetched ==
  {[size |-> SizeOf(b), code |-> CodeOf(b)] :
     b \in ByteAt(step) \X ByteAt(step + 1) \X ByteAt(step + 2) \X ByteAt(step + 3)}

Matches(row, code) == row.sig \cap row.mask = code \cap row.mask

Found(r) == \E i \in 1..Len(Dicos[r.size]) : Matches(Dicos[r.size][i], r.code)

IsFirst(r, i) ==
  /\ Matches(Dicos[r.size][i], r.code)
  /\ \A j \in 1..i - 1 : ~Matches(Dicos[r.size][j], r.code)

(* The search keeps the first row that matches; without any, inst is still *)
(* the row of the instruction before, if there is one.                     *)
RowFor(r) ==
  IF Found(r) THEN {<<r.size, i>> : i \in {n \in 1..Len(Dicos[r.size]) : IsFirst(r, n)}}
  ELSE {inst} \ {NULL}

(* The value of a field of four bits, given its lowest.                    *)
Bit(code, i) == IF i \in code THEN 1 ELSE 0

Value(code, low) ==
  Bit(code, low) + 2 * Bit(code, low + 1) + 4 * Bit(code, low + 2) + 8 * Bit(code, low + 3)

Conditions == <<"BEQ", "BNE", "BCS", "BCC", "BMI", "BPL", "BVS", "BVC",
                "BHI", "BLS", "BGE", "BLT", "BGT", "BLE", "BAL">>

Branch == [id \in {"B.T1", "B.T3"} |-> IF id = "B.T1" THEN 8 ELSE 22]

(* Mistake to detect: the condition is read one bit too low.               *)
CondShifted(key, code) ==
  LET id == RowAt(key).id IN
  IF id \in DOMAIN Branch /\ Value(code, Branch[id] - 1) < Len(Conditions)
  THEN Conditions[Value(code, Branch[id] - 1) + 1] ELSE names[key]

(* cond: a conditional branch is given the name of its condition.          *)
Cond(key, code) ==
  LET id == RowAt(key).id IN
  IF id \in DOMAIN Branch /\ Value(code, Branch[id]) < Len(Conditions)
  THEN Conditions[Value(code, Branch[id]) + 1] ELSE names[key]

(* IT: bit 4 of the code against each bit of its mask, 0 for T, 1 for E.   *)
(* The test for ITE reads mask[10], which is anything.                     *)
Else(code, i) == IF (i \in code) = (4 \in code) THEN 0 ELSE 1

Blocks4 == <<"ITTTT", "ITTTE", "ITTET", "ITTEE", "ITETT", "ITETE", "ITEET", "ITEEE">>
Blocks3 == <<"ITTT", "ITTE", "ITET", "IEE">>

ITNames(code) ==
  IF 0 \in code
  THEN {Blocks4[1 + 4 * Else(code, 3) + 2 * Else(code, 2) + Else(code, 1)]}
  ELSE IF 1 \in code THEN {Blocks3[1 + 2 * Else(code, 3) + Else(code, 2)]}
  ELSE IF 2 \in code THEN {IF Else(code, 3) = 0 THEN "ITT" ELSE "IT"}
  ELSE IF Else(code, 3) = 1 THEN {"IT", "ITE"} ELSE {"IT"}

(* cond, then IT while the row is still named so.                          *)
NamesOf(key, code) == IF Cond(key, code) = "IT" THEN ITNames(code) ELSE {Cond(key, code)}

-----------------------------------------------------------------------------
(* A load leaves a text, or a memory in which the search for .text reads   *)
(* through a null slot.                                                    *)
Load ==
  /\ up /\ pc = "idle" /\ count < MaxCommands
  /\ \/ \E t \in Texts : where' = "text" /\ text' = t
     \/ where' = "no text" /\ text' = <<>>
  /\ count' = count + 1
  /\ UNCHANGED <<pc, range, walk, names, lines, ret, up, ub>>

(* disasmcmd: a range is two even addresses, a ":" b with a not after b,   *)
(* or a "+" n, which wraps around and so ends anywhere.                    *)
Typed(a, b, colon) ==
  /\ up /\ pc = "idle" /\ count < MaxCommands
  /\ count' = count + 1
  /\ start' = a /\ stop' = b
  /\ lines' = <<>>

Legal(a, b, colon) == a % 2 = 0 /\ b % 2 = 0 /\ (colon => a <= b)

Refuse ==
  \E a, b \in Addresses, colon \in BOOLEAN :
    /\ Typed(a, b, colon)
    /\ ~Legal(a, b, colon)
    /\ ret' = ERR
    /\ UNCHANGED <<pc, segment, walk, names, up, ub>>

(* No load: no segment.  No .text: the emulator dies in                    *)
(* trouve_segment_nom.                                                     *)
NoText ==
  \E a, b \in Addresses, colon \in BOOLEAN :
    /\ Typed(a, b, colon)
    /\ Legal(a, b, colon)
    /\ where # "text"
    /\ ret' = ERR
    /\ up' = (where = "nothing")
    /\ UNCHANGED <<pc, segment, walk, names, ub>>

Window == Base..Base + TextMax - 1

(* get_byte_seg on the start: the text grows with zeros up to it.          *)
Grown(a) ==
  IF a \in Window /\ a > Base + Len(text)
  THEN [i \in 1..a - Base |-> IF i <= Len(text) THEN text[i] ELSE {}]
  ELSE text

Accepted(a, b) ==
  /\ a >= Base /\ b <= Base + Len(text)
  /\ a \in Window /\ b \in Window

(* _desasm_cmd: both addresses are checked, then looked up; the start may  *)
(* make the text grow even when the end is refused.                        *)
Outside ==
  \E a, b \in Addresses, colon \in BOOLEAN :
    /\ Typed(a, b, colon)
    /\ Legal(a, b, colon)
    /\ where = "text"
    /\ ~Accepted(a, b)
    /\ ret' = ERR
    /\ text' = IF b <= Base + Len(text) THEN Grown(a) ELSE text
    /\ UNCHANGED <<pc, where, walk, names, up, ub>>

Walk ==
  \E a, b \in Addresses, colon \in BOOLEAN :
    /\ Typed(a, b, colon)
    /\ Legal(a, b, colon)
    /\ where = "text"
    /\ Accepted(a, b)
    /\ text' = Grown(a)
    /\ pc' = "walk"
    /\ step' = 0 /\ turns' = 0 /\ inst' = NULL
    /\ op' = [c \in Cells |-> "null"]
    /\ UNCHANGED <<where, names, ret, up, ub>>

-----------------------------------------------------------------------------
(* lecture_txt, one action per way a turn of its loop can go.              *)
(* Mistake to detect: no test of step > arr inside the loop.               *)
MoreUntested == step < Len(text) - 1 \/ turns < Turns

More == (step < Len(text) - 1 \/ turns < Turns) /\ step <= Len(text) - 1

Shown == start <= Base + step /\ Base + step <= stop

Return(value) ==
  /\ pc' = "idle"
  /\ ret' = value
  /\ UNCHANGED <<segment, range, step, turns, count>>

StopAtEnd ==
  /\ up /\ pc = "walk" /\ ~More
  /\ Return(OK)
  /\ UNCHANGED <<inst, names, op, lines, up, ub>>

Walking == up /\ pc = "walk" /\ More

(* A code of zero ends the walk, wherever it is.                           *)
StopAtZero ==
  /\ Walking
  /\ \E r \in Fetched : r.code = {}
  /\ Return(OK)
  /\ UNCHANGED <<inst, names, op, lines, up, ub>>

(* Any other turn works on the code read and a row, if there is one yet.   *)
Read == {r \in Fetched : r.code # {}}

(* No row yet: the comparison of its mnemo with "IT" is made all the same. *)
NoRow ==
  /\ Walking
  /\ \E r \in Read : RowFor(r) = {}
  /\ up' = FALSE
  /\ UNCHANGED <<pc, segment, range, walk, names, lines, ret, ub, count>>

Rename(r, key) ==
  \E n \in NamesOf(key, r.code) : names' = [names EXCEPT ![key] = n]

(* Mistake to detect: only the operands never set are allocated.           *)
FreshIfNull == [c \in Cells |-> IF op[c] = "null" THEN "live" ELSE op[c]]

Fresh == [c \in Cells |-> "live"]

(* The operands that the row counts are released at the end of each turn,  *)
(* and their pointers kept.                                                *)
Release(cells, key) ==
  LET gone == 0..Len(RowAt(key).ops) - 1 IN
  /\ op' = [c \in Cells |-> IF c \in gone /\ cells[c] = "live" THEN "freed" ELSE cells[c]]
  /\ ub' = (ub \/ \E c \in gone : cells[c] = "freed")

(* Mistake to detect: only 32-bit instructions set pas.                    *)
AdvanceUnset(r) == IF r.size = 2 THEN 4 ELSE 0

(* Mistake to detect: the four bytes of a 32-bit instruction count as two. *)
AdvanceTwo(r) == 2

Advance(r) == 2 * r.size

Pass(r, key) ==
  /\ step' = step + Advance(r)
  /\ turns' = IF turns < Turns THEN turns + 1 ELSE turns
  /\ inst' = key
  /\ Rename(r, key)

Hidden ==
  /\ Walking /\ ~Shown
  /\ \E r \in Read : \E key \in RowFor(r) :
       /\ Pass(r, key)
       /\ Release(op, key)
  /\ UNCHANGED <<pc, segment, range, lines, ret, up, count>>

(* What the stack may hold where immediate reads debut before setting it.  *)
Lows(key) ==
  IF \E k \in 1..Len(RowAt(key).ops) : Len(RowAt(key).ops[k].champop[1]) = 1
  THEN Bits ELSE {0}

Args(key, code, low) ==
  LET ops == RowAt(key).ops IN
  [k \in 1..Len(ops) |-> Arg(ops[k].type, ops[k].champop, code, low)]

Line(r, key, low) ==
  [adr |-> Base + step, code |-> r.code, key |-> key, name |-> names'[key],
   args |-> Args(key, r.code, low)]

Faults(key, code, low) ==
  LET ops == RowAt(key).ops IN
  \E k \in 1..Len(ops) : ArgFaults(ops[k].type, ops[k].champop, code, low)

Show ==
  /\ Walking /\ Shown
  /\ \E r \in Read : \E key \in RowFor(r) :
       /\ Found(r)
       /\ Pass(r, key)
       /\ \E low \in Lows(key) :
            /\ ~Faults(key, r.code, low)
            /\ lines' = Append(lines, Line(r, key, low))
       /\ Release(Fresh, key)
  /\ UNCHANGED <<pc, segment, range, ret, up, count>>

(* An immediate that cannot be expanded is printed all the same.           *)
ShowFaults ==
  /\ Walking /\ Shown
  /\ \E r \in Read : \E key \in RowFor(r) :
       Found(r) /\ \E low \in Lows(key) : Faults(key, r.code, low)
  /\ up' = FALSE
  /\ UNCHANGED <<pc, segment, range, walk, names, lines, ret, ub, count>>

(* A code without a row ends the walk if it is in the range.               *)
Unknown ==
  /\ Walking /\ Shown
  /\ \E r \in Read : \E key \in RowFor(r) :
       /\ ~Found(r)
       /\ inst' = key
       /\ Rename(r, key)
  /\ op' = Fresh
  /\ Return(ERR)
  /\ UNCHANGED <<lines, up, ub>>

HeapBreaks ==
  /\ up /\ ub
  /\ up' = FALSE
  /\ UNCHANGED <<pc, segment, range, walk, names, lines, ret, ub, count>>

Over ==
  /\ ~up \/ (pc = "idle" /\ count = MaxCommands)
  /\ UNCHANGED vars

Next ==
  \/ Load \/ Refuse \/ NoText \/ Outside \/ Walk
  \/ StopAtEnd \/ StopAtZero \/ NoRow \/ Hidden \/ Show \/ ShowFaults \/ Unknown
  \/ HeapBreaks \/ Over

Spec == Init /\ [][Next]_vars

(* The walk runs alone: nothing makes the emulator wait in the middle.     *)
WalkStep == StopAtEnd \/ StopAtZero \/ NoRow \/ Hidden \/ Show \/ ShowFaults \/ Unknown
FairSpec == Spec /\ WF_vars(WalkStep)

-----------------------------------------------------------------------------
(* The names that the rows are loaded with, and those of cond and of IT.   *)
BlockNames ==
  {Blocks4[i] : i \in 1..8} \union {Blocks3[i] : i \in 1..4} \union {"IT", "ITT", "ITE"}

Names ==
  {RowAt(k).mnemo : k \in Keys} \union {Conditions[i] : i \in 1..15} \union BlockNames

LineType ==
  [adr : Nat, code : Word, key : Keys, name : Names, args : Seq(Before \X Word)]

(* Types; and the walk never reads more than the end of an instruction     *)
(* that begins in the text (the test of step > arr, in a loop whose own    *)
(* condition goes on for a thousand turns).                                *)
TypeOK ==
  /\ pc \in {"idle", "walk"}
  /\ where \in {"nothing", "text", "no text"}
  /\ text \in Seq(Byte) /\ Len(text) <= TextMax
  /\ start \in Addresses \union {0} /\ stop \in Addresses \union {0}
  /\ step \in Nat
  /\ pc = "walk" => step <= Len(text) + 3
  /\ turns \in 0..Turns
  /\ inst \in Keys \union {NULL}
  /\ names \in [Keys -> Names]
  /\ op \in [Cells -> {"null", "live", "freed"}]
  /\ lines \in Seq(LineType)
  /\ ret \in {OK, ERR}
  /\ up \in BOOLEAN /\ ub \in BOOLEAN
  /\ count \in 0..MaxCommands

(* While the walk has not gone past the range, no operand is released      *)
(* twice: not before it, where nothing is allocated, not in it, whatever   *)
(* the number of operands of each instruction, and not by a range that     *)
(* reaches the end of the text (lecture_txt, lines 498 and 562).           *)
ReleaseOnceInRange == [][~ub /\ ub' => Base + step > stop]_vars

(* Each line printed names what was read: the row matches the code on the  *)
(* line, a conditional branch bears its own condition, though cond and IT  *)
(* write the names in dictionaries that all the commands share, and any    *)
(* other instruction but IT the name of its row.                           *)
NamedAsRead ==
  \A i \in 1..Len(lines) :
    LET l == lines[i]
        row == RowAt(l.key) IN
    /\ Matches(row, l.code)
    /\ row.id = "B.T1" /\ Value(l.code, 8) # 15
         => l.name = Conditions[Value(l.code, 8) + 1]
    /\ row.id \notin {"B.T1", "B.T3", "IT.T1"} => l.name = row.mnemo

(* The bits that a champop spells, from the highest to the lowest; those   *)
(* whose fields all have their two ends; and the value they make.          *)
Spelled(champop) ==
  LET p[k \in 0..Len(champop)] ==
        IF k = 0 THEN <<>>
        ELSE LET hi == champop[k][1]  lo == champop[k][2] IN
             p[k - 1] \o [i \in 1..hi - lo + 1 |-> hi - i + 1]
  IN p[Len(champop)]

WellSpelled(champop) ==
  \A k \in 1..Len(champop) : Len(champop[k]) = 2 /\ champop[k][1] >= champop[k][2]

Encoded(champop, code) ==
  LET p == Spelled(champop) IN {i \in 0..Len(p) - 1 : p[Len(p) - i] \in code}

(* A register has 4 bits, the amount of a shift 6 at most (the largest is  *)
(* 32), and no operand a whole word, even shifted by 2.                    *)
Widest(type) ==
  CASE type = "RGSTR" -> 4 [] type = "DECIMMSHFT" -> 6 [] type = "IMMEDIATE32P00" -> 28
    [] OTHER -> 31

ASSUME WidthAssumption ==
  \A key \in Keys : \A k \in 1..Len(RowAt(key).ops) :
    LET o == RowAt(key).ops[k] IN
    WellSpelled(o.champop) => Len(Spelled(o.champop)) <= Widest(o.type)

(* In two's complement, the ones above a negative number make -1.          *)
Signed(v, n) == Reading(IF n - 1 \in v THEN -1 ELSE 0, v, n)[n]

(* A shift by m, whose kind is in the bits 4 and 5 of the code.  Of a      *)
(* rotation by an amount, the amount only: the code prints the name RRX,   *)
(* where decodeIMMshift decodes SRType_ROR (desasm.c:315).                 *)
ShiftBy(m, arg, code) ==
  CASE {4, 5} \cap code = {}  -> arg[1] = "LSL" /\ Number(arg[2], 6) = m
    [] {4, 5} \cap code = {4} -> arg[1] = "LSR" /\ Number(arg[2], 6) = IF m = 0 THEN 32 ELSE m
    [] {4, 5} \cap code = {5} -> arg[1] = "ASR" /\ Number(arg[2], 6) = IF m = 0 THEN 32 ELSE m
    [] OTHER -> IF m = 0 THEN arg = <<"RRX", {0}>> ELSE Number(arg[2], 6) = m

(* What an operand should print, by its type.  Of the offset of BL and of  *)
(* B.T4, the bits that their champop spells only: the others, the sign     *)
(* among them, are taken from the bits 23, 13 and 11, and extended from    *)
(* the bit before the last (desasm.c:326-342).  No row spells the expanded *)
(* constants (THEXPIMM) with both ends of each field.                      *)
Expected(arg, o, code) ==
  LET e == Encoded(o.champop, code)
      n == Len(Spelled(o.champop)) IN
  CASE o.type = "RGSTR"          -> arg = <<"R", e>> /\ e \subseteq 0..3
    [] o.type = "IMMEDIATE32"    -> arg = <<"#", e>>
    [] o.type = "IMMEDIATE32P00" -> Number(arg[2], 30) = 4 * Number(e, n)
    [] o.type = "SGNEXTP0" -> Signed(arg[2], 32) = 2 * Signed(e, n)
    [] o.type = "SGNEXT_B" -> \A i \in 0..21 : i \in arg[2] <=> i - 1 \in e
    [] o.type = "REGLIST" -> arg = <<"registers", e>>
    [] o.type = "ITBLCK"  -> arg = <<"condition", e>>
    [] o.type = "DECIMMSHFT" -> ShiftBy(Number(e, n), arg, code)
    [] OTHER -> TRUE

(* Each register, immediate, list, condition and offset of B.T1 and B.T2   *)
(* printed is the one that the bits of the code encode, wherever the       *)
(* dictionary gives both ends of each field; so are the kind of a shift    *)
(* and its amount, the kind of a rotation by an amount apart; and so are   *)
(* the 22 low bits of the offset of BL and B.T4, and those only            *)
(* (get_operande, immediate, signextend and decodeIMMshift, against a      *)
(* reading of the bits one at a time).                                     *)
ArgsAsEncoded ==
  \A i \in 1..Len(lines) :
    LET ops == RowAt(lines[i].key).ops IN
    \A k \in 1..Len(ops) :
      WellSpelled(ops[k].champop) => Expected(lines[i].args[k], ops[k], lines[i].code)

(* The offsets at which the instructions of a text begin, and the code at  *)
(* one of them.                                                            *)
Following(t, o) ==
  IF o + 1 >= Len(t) THEN o ELSE IF Is32(t[o + 2]) THEN o + 4 ELSE o + 2

StartsOf(t) ==
  LET s[n \in 0..Len(t)] == IF n = 0 THEN 0 ELSE LET o == s[n - 1] IN Following(t, o)
  IN {s[n] : n \in 0..Len(t)}

Whole(t, o) ==
  /\ o + 1 < Len(t)
  /\ Is32(t[o + 2]) => o + 3 < Len(t)

CodeIn(t, o) ==
  CodeOf([i \in 1..4 |-> IF o + i <= Len(t) THEN t[o + i] ELSE {}])

BeforeZero(t, o) ==
  \A p \in StartsOf(t) : p <= o /\ Whole(t, p) => CodeIn(t, p) # {}

(* When disasm answers OK, it has printed, in order, every whole           *)
(* instruction that begins in the range and before the first zero code,    *)
(* with its code, and nothing out of the range or across two instructions. *)
ShowsRange ==
  [][ (pc = "walk" /\ pc' = "idle" /\ ret' = OK)
        => /\ \A o \in StartsOf(text) :
                Base + o \in start..stop /\ Whole(text, o) /\ BeforeZero(text, o)
                  => \E i \in 1..Len(lines) : /\ lines[i].adr = Base + o
                                              /\ lines[i].code = CodeIn(text, o)
           /\ \A i \in 1..Len(lines) :
                /\ lines[i].adr \in start..stop
                /\ lines[i].adr - Base \in StartsOf(text)
           /\ \A i, j \in 1..Len(lines) : i < j => lines[i].adr < lines[j].adr
    ]_vars

(* Every walk ends, with an answer or with the emulator (the steps of 2 or *)
(* 4 bytes of lecture_txt, against a condition that is true for a thousand *)
(* turns anyway).                                                          *)
WalkEnds == pc = "walk" ~> (pc = "idle" \/ ~up)

(* What one expects of a range inside the text, and does not hold.         *)
ReleasedOnce == ~ub
=============================================================================
