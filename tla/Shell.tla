------------------------------- MODULE Shell --------------------------------
(***************************************************************************)
(* The interpreter: the main loop (emulARM.c), the dispatch of a line and  *)
(* the handlers of the commands (inter.c), with the registers and the      *)
(* flags they change (registre.c).  A line is a sequence of tokens; what   *)
(* string_standardise and strtok_r do to its characters is not modelled.   *)
(*                                                                         *)
(* The memory, the breakpoints and the disassembler appear by their return *)
(* codes only (Memory and BreakList model the first two): whenever one is  *)
(* called it may answer OK, answer an error, or fault.                     *)
(***************************************************************************)
EXTENDS Integers, Sequences

CONSTANTS
  Name,      \* the registers: r0 .. r12, sp, lr, pc
  Flag,      \* the flags: N, Z, C, V
  Typed,     \* what the user types when asked for a flag
  ByteMax,   \* 0xFF
  WordMax,   \* 0xFFFFFFFF
  Lines,     \* the lines a script or the user may contain
  MaxLines   \* bound on the lines of a session

(* A token: a number in base 16 or 10, the name of a register as the table *)
(* spells it ("reg") or in another case ("REG"), or any other word.        *)
Token == [kind : {"hex", "dec", "reg", "REG", "word"},
          text : STRING, num : Int]

Word(w) == [kind |-> "word", text |-> w, num |-> 0]
Hex(n)  == [kind |-> "hex", text |-> "", num |-> n]
Dec(n)  == [kind |-> "dec", text |-> "", num |-> n]
Reg(r)  == [kind |-> "reg", text |-> r, num |-> 0]
REG(r)  == [kind |-> "REG", text |-> r, num |-> 0]

(* The one token that a text of its kind gives.                            *)
WellFormed(t) ==
  \/ t \in {Word(t.text), Hex(t.num), Dec(t.num)}
  \/ t.text \in Name /\ t \in {Reg(t.text), REG(t.text)}

ASSUME ShellAssumption ==
  /\ ByteMax \in Nat /\ WordMax \in Nat /\ ByteMax < WordMax
  /\ Name \subseteq STRING /\ Flag \subseteq STRING /\ Typed \subseteq STRING
  /\ {"set", "reg", "mem", "apsr"} \intersect Name = {}
  /\ Lines \subseteq Seq(Token)
  /\ \A l \in Lines : \A i \in DOMAIN l : WellFormed(l[i])
  /\ MaxLines \in Nat

VARIABLES
  mode,      \* inter->mode: a command file or the terminal
  eof,       \* the end of the input was reached
  ferror,    \* a read of the file has failed
  pc,        \* where the program is in the main loop or in setcmd
  rest,      \* the tokens that get_next_token has not returned yet
  regs,      \* inter->fulltable[0]
  flags,     \* inter->fulltable[1]
  saisi,     \* apsrsaisi, the local buffer of setcmd
  loaded,    \* inter->memory is not null
  ret,       \* the value returned by execute_cmd
  status,    \* how the process ended, if it did
  count,     \* the number of lines read
  line,      \* history: the whole line
  before,    \* history: the registers when the line was read
  failed     \* history: a line returned an error

vars == <<mode, eof, ferror, pc, rest, regs, flags, saisi, loaded, ret, status,
          count, line, before, failed>>
input   == <<mode, eof, ferror, count, line, before>>
machine == <<regs, flags, saisi, loaded>>

OK       == 0     \* CMD_OK_RETURN_VALUE
EXIT     == -1    \* CMD_EXIT_RETURN_VALUE
UNKNOWN  == -2    \* CMD_UNKOWN_RETURN_VALUE
ERR      == 1
TEST_ERR == 2
FAULT    == 139   \* the process is killed

Init ==
  /\ mode \in {"INTERACTIF", "SCRIPT"}
  /\ eof = FALSE /\ ferror = FALSE /\ pc = "acquire"
  /\ rest = <<>> /\ line = <<>>
  /\ regs = [r \in Name |-> 0] /\ before = regs
  /\ flags = [f \in Flag |-> 0]
  /\ saisi = "" /\ loaded = FALSE
  /\ ret = OK /\ status = "running"
  /\ count = 0 /\ failed = FALSE

At(p) == status = "running" /\ pc = p

-----------------------------------------------------------------------------
(* acquire_line                                                            *)

(* The last line of a file without a final newline is read together with   *)
(* the end of the file.                                                    *)
AcquireLine ==
  /\ At("acquire") /\ ~eof /\ count < MaxLines
  /\ line' \in Lines /\ rest' = line'
  /\ before' = regs
  /\ count' = count + 1
  /\ eof' \in (IF mode = "SCRIPT" THEN BOOLEAN ELSE {FALSE})
  /\ pc' = "execute"
  /\ UNCHANGED <<mode, ferror, machine, ret, status, failed>>

(* The end of the file, or an empty line or the end of the terminal input. *)
AcquireNothing ==
  /\ At("acquire")
  /\ eof' \in (IF mode = "SCRIPT" THEN {TRUE} ELSE {eof, TRUE})
  /\ pc' = "feof"
  /\ UNCHANGED <<mode, ferror, rest, machine, ret, status, count, line, before, failed>>

(* fgets fails before the end of the file: the file given is a directory,  *)
(* or its device fails.  The end is not reached, and the next read may     *)
(* fail again.                                                             *)
AcquireError ==
  /\ At("acquire") /\ mode = "SCRIPT"
  /\ ferror' = TRUE
  /\ pc' = "feof"
  /\ UNCHANGED <<mode, eof, rest, machine, ret, status, count, line, before, failed>>

-----------------------------------------------------------------------------
(* Tokens (get_type)                                                       *)

(* Mistake to detect: a negative number passes the test of its size.       *)
SizedSigned(n, small, large) ==
  IF n > WordMax THEN "UNKNOWN" ELSE IF n <= ByteMax THEN small ELSE large

(* A negative decimal is of no type.                                       *)
Sized(n, small, large) ==
  IF n < 0 \/ n > WordMax THEN "UNKNOWN" ELSE IF n <= ByteMax THEN small ELSE large

Type(t) ==
  CASE t.kind = "hex" -> Sized(t.num, "HEXA8", "HEXA32")
    [] t.kind = "dec" -> Sized(t.num, "DECI8", "DECI32")
    [] t.kind \in {"reg", "REG"} -> "REG"
    [] OTHER -> IF t.text = "apsr" THEN "STATEREG" ELSE "UNKNOWN"

IsHexa(t)   == Type(t) \in {"HEXA8", "HEXA32"}
IsByte(t)   == Type(t) \in {"HEXA8", "DECI8"}
IsNumber(t) == IsHexa(t) \/ Type(t) \in {"DECI8", "DECI32"}

-----------------------------------------------------------------------------
(* execute_cmd                                                             *)

Args == Tail(rest)

(* The first token; "#" stands for all the tokens that begin with it, and  *)
(* an empty line is answered as a comment.                                 *)
Command == IF rest = <<>> THEN "#" ELSE Head(rest).text

Called(c) == At("execute") /\ Command = c

(* The handler returns r without having changed anything.                  *)
Answer(r) ==
  /\ IF r = FAULT
     THEN status' = "crashed" /\ UNCHANGED <<pc, ret>>
     ELSE ret' = r /\ pc' = "treat" /\ UNCHANGED status
  /\ UNCHANGED <<input, rest, machine, failed>>

AnswerIf(p) == Answer(IF p THEN OK ELSE ERR)
AnyAnswer   == \E r \in {OK, ERR, FAULT} : Answer(r)

Blank == Called("#") /\ Answer(OK)

ExitCmd == Called("exit") /\ Answer(EXIT)

Commands == {"exit", "load", "disp", "test", "disasm", "set", "assert", "step",
             "run", "debug", "resume", "break", "help"}

UnknownCmd ==
  /\ At("execute") /\ Command \notin Commands \union {"#"}
  /\ Answer(UNKNOWN)

HelpCmd   == Called("help") /\ Answer(IF Args = <<>> THEN OK ELSE UNKNOWN)
DebugCmd  == Called("debug") /\ AnswerIf(Args = <<>>)
ResumeCmd == Called("resume") /\ AnswerIf(Args = <<>>)
StepCmd   == Called("step") /\ AnswerIf(Args \in {<<>>, <<Word("into")>>})
RunCmd    == Called("run") /\ AnswerIf(Args = <<>> \/ (Len(Args) = 1 /\ IsHexa(Args[1])))

(* The first argument that is not a hexadecimal, or not a positive int,    *)
(* ends the command.                                                       *)
TestCmd ==
  /\ Called("test")
  /\ LET wrong == {i \in DOMAIN Args : ~IsHexa(Args[i])}
         small == {i \in DOMAIN Args : Args[i].num \notin 1..(WordMax \div 2)}
         First(S) == CHOOSE i \in S : \A j \in S : i <= j
     IN Answer(IF Args = <<>> THEN ERR
               ELSE IF wrong \union small = {} THEN OK
               ELSE IF First(wrong \union small) \in wrong THEN ERR ELSE TEST_ERR)

(* A file name alone is loaded; with an address nothing is, and the        *)
(* command succeeds.                                                       *)
LoadCmd ==
  /\ Called("load")
  /\ IF Len(Args) # 1
     THEN AnswerIf(Len(Args) = 2 /\ IsHexa(Args[2]))
     ELSE \/ Answer(ERR)
          \/ Answer(FAULT)
          \/ /\ loaded' = TRUE
             /\ ret' = OK /\ pc' = "treat"
             /\ UNCHANGED <<input, rest, regs, flags, saisi, status, failed>>

DispCmd ==
  /\ Called("disp")
  /\ LET a == Args IN
     AnswerIf(
       \/ /\ Len(a) = 2 /\ a[1] = Word("mem") /\ a[2] = Word("map") /\ loaded
       \/ /\ Len(a) = 4 /\ a[1] = Word("mem") /\ loaded
          /\ IsHexa(a[2]) /\ a[3] = Word(":") /\ IsHexa(a[4])
       \/ /\ Len(a) >= 2 /\ a[1] = Word("reg")
          /\ \/ a = <<Word("reg"), Word("all")>>
             \/ \A i \in 2..Len(a) : Type(a[i]) = "REG")

DisasmCmd ==
  /\ Called("disasm")
  /\ LET a == Args
         range == /\ Len(a) = 3 /\ IsHexa(a[1])
                  /\ \/ a[2] = Word(":") /\ IsHexa(a[3]) /\ a[1].num <= a[3].num
                     \/ a[2] = Word("+") /\ IsNumber(a[3])
                  /\ a[1].num % 2 = 0 /\ a[3].num % 2 = 0
     IN IF range /\ loaded THEN AnyAnswer ELSE Answer(ERR)

(* Without an argument "break del" gives a null token to get_type.         *)
BreakCmd ==
  /\ Called("break")
  /\ LET a == Args IN
     CASE a = <<Word("list")>> -> Answer(OK)
       [] a = <<Word("del")>> -> Answer(FAULT)
       [] \/ Len(a) = 2 /\ a[1] = Word("del") /\ (IsHexa(a[2]) \/ a[2] = Word("all"))
          \/ Len(a) > 1 /\ a[1] = Word("add") /\ \A i \in 2..Len(a) : IsHexa(a[i])
          -> \E r \in {OK, ERR} : Answer(r)
       [] OTHER -> Answer(ERR)

(* _assert_cmd_reg: a name in another case is not in the first table, and  *)
(* looking for it in the second one reads past its four entries.  A value  *)
(* that is no number stands for 0.                                         *)
Compared(t) == IF IsNumber(t) THEN t.num ELSE 0

(* Mistake to detect: the value is compared with that of any register.     *)
AssertRegAny(r, t) == AnswerIf(\E q \in Name : regs[q] = Compared(t))

AssertReg(r, t) == AnswerIf(regs[r] = Compared(t))

AssertCmd ==
  /\ Called("assert")
  /\ LET a == Args IN
     IF Len(a) # 3 THEN Answer(ERR)
     ELSE IF a[1] = Word("reg") /\ a[2].kind = "reg" THEN AssertReg(a[2].text, a[3])
     ELSE IF a[1] = Word("reg") /\ a[2].kind = "REG" THEN \E r \in {ERR, FAULT} : Answer(r)
     ELSE IF /\ loaded /\ IsHexa(a[2])
             /\ (a[1] = Word("word") /\ IsNumber(a[3])) \/ (a[1] = Word("byte") /\ IsByte(a[3]))
     THEN AnyAnswer
     ELSE Answer(ERR)

-----------------------------------------------------------------------------
(* setcmd: the values are applied one after the other as they are parsed,  *)
(* so what precedes a mistake stays applied.                               *)
SetCmd ==
  /\ Called("set")
  /\ IF Args = <<>> \/ Args[1].text \notin {"reg", "mem"}
     THEN Answer(ERR)
     ELSE /\ pc' = IF Args[1].text = "reg" THEN "set reg" ELSE "set mem"
          /\ rest' = Tail(Args)
          /\ saisi' = ""
          /\ UNCHANGED <<input, regs, flags, loaded, ret, status, failed>>

(* No token is left: the command succeeds, also when it never had one.     *)
SetDone == (At("set reg") \/ At("set mem")) /\ rest = <<>> /\ Answer(OK)

(* _set_reg_cmd: modifier_valeur_reg accepts any value for a 32-bit        *)
(* register; a name in another case is silently ignored.                   *)
Written(t, n) == IF t.kind = "reg" THEN [regs EXCEPT ![t.text] = n] ELSE regs

(* Mistake to detect: a number is not skipped, so it is parsed again.      *)
SetRegValueReread ==
  /\ At("set reg") /\ Len(rest) > 1
  /\ Type(rest[1]) = "REG" /\ IsNumber(rest[2])
  /\ regs' = Written(rest[1], rest[2].num)
  /\ rest' = Tail(rest)
  /\ UNCHANGED <<input, pc, flags, saisi, loaded, ret, status, failed>>

SetRegValue ==
  /\ At("set reg") /\ Len(rest) > 1
  /\ Type(rest[1]) = "REG" /\ IsNumber(rest[2])
  /\ regs' = Written(rest[1], rest[2].num)
  /\ rest' = Tail(Tail(rest))
  /\ UNCHANGED <<input, pc, flags, saisi, loaded, ret, status, failed>>

(* inverser_registre_etat: after the test for 1 comes the test for 0.      *)
Inverted(v) ==
  LET w == IF v = 1 THEN 0 ELSE v
  IN IF w = 0 THEN 1 ELSE w

(* The name of the flag is read from the terminal, in a script too; at the *)
(* end of the terminal input the buffer keeps what it holds.  An unknown   *)
(* name is looked for past the end of the table.                           *)
SetRegFlag ==
  /\ At("set reg") /\ rest # <<>> /\ Type(rest[1]) = "STATEREG"
  /\ saisi' \in Typed \union {saisi}
  /\ rest' = Tail(rest)
  /\ IF saisi' \in Flag
     THEN flags' = [flags EXCEPT ![saisi'] = Inverted(@)] /\ UNCHANGED status
     ELSE flags' = flags /\ status' \in {"running", "crashed"}
  /\ UNCHANGED <<input, pc, regs, loaded, ret, failed>>

SetRegError ==
  /\ At("set reg") /\ rest # <<>> /\ Type(rest[1]) # "STATEREG"
  /\ ~(Type(rest[1]) = "REG" /\ Len(rest) > 1 /\ IsNumber(rest[2]))
  /\ Answer(ERR)

Triple ==
  /\ Len(rest) > 2 /\ IsHexa(rest[1])
  /\ \/ rest[2] = Word("byte") /\ IsByte(rest[3])
     \/ rest[2] = Word("word") /\ IsNumber(rest[3])

(* _set_mem_byte_cmd and _set_mem_word_cmd: without a memory they          *)
(* dereference a null pointer.                                             *)
SetMemValue ==
  /\ At("set mem") /\ Triple
  /\ \/ Answer(FAULT)
     \/ /\ loaded
        /\ rest' = SubSeq(rest, 4, Len(rest))
        /\ UNCHANGED <<input, machine, pc, ret, status, failed>>

SetMemError == At("set mem") /\ rest # <<>> /\ ~Triple /\ Answer(ERR)

-----------------------------------------------------------------------------
(* main: what follows a command                                            *)

Fails(r) == r \notin {OK, EXIT}

(* Mistake to detect: only the positive codes are errors.                  *)
TreatPositive ==
  /\ At("treat")
  /\ failed' = (failed \/ Fails(ret))
  /\ CASE ret = EXIT -> status' = "success" /\ UNCHANGED pc
       [] ret > 0 /\ mode = "SCRIPT" -> status' = "failure" /\ UNCHANGED pc
       [] OTHER -> pc' = "feof" /\ UNCHANGED status
  /\ UNCHANGED <<input, rest, machine, ret>>

(* exit ends the process with success, an error ends a script with         *)
(* failure.                                                                *)
Treat ==
  /\ At("treat")
  /\ failed' = (failed \/ Fails(ret))
  /\ CASE ret = EXIT -> status' = "success" /\ UNCHANGED pc
       [] Fails(ret) /\ mode = "SCRIPT" -> status' = "failure" /\ UNCHANGED pc
       [] OTHER -> pc' = "feof" /\ UNCHANGED status
  /\ UNCHANGED <<input, rest, machine, ret>>

(* Mistake to detect: the end of the file is looked for only after a line. *)
FeofAfterLine ==
  /\ At("feof")
  /\ IF mode = "SCRIPT" /\ eof /\ rest # <<>>
     THEN status' = "success" /\ UNCHANGED pc
     ELSE pc' = "acquire" /\ UNCHANGED status
  /\ UNCHANGED <<input, rest, machine, ret, failed>>

(* The end of the file ends a script; nothing ends a session at the        *)
(* terminal but exit.                                                      *)
Feof ==
  /\ At("feof")
  /\ IF mode = "SCRIPT" /\ eof
     THEN status' = "success" /\ UNCHANGED pc
     ELSE pc' = "acquire" /\ UNCHANGED status
  /\ UNCHANGED <<input, rest, machine, ret, failed>>

Over == status # "running" /\ UNCHANGED vars

Next ==
  \/ AcquireLine \/ AcquireNothing \/ AcquireError
  \/ Blank \/ ExitCmd \/ UnknownCmd \/ HelpCmd \/ DebugCmd \/ ResumeCmd \/ StepCmd \/ RunCmd
  \/ TestCmd \/ LoadCmd \/ DispCmd \/ DisasmCmd \/ BreakCmd \/ AssertCmd
  \/ SetCmd \/ SetDone \/ SetRegValue \/ SetRegFlag \/ SetRegError \/ SetMemValue \/ SetMemError
  \/ Treat \/ Feof
  \/ Over

Spec == Init /\ [][Next]_vars

(* The program is one thread that never waits but for its input, and the   *)
(* input comes; a file has an end (MaxLines).                              *)
FairSpec == Spec /\ WF_vars(Next)

-----------------------------------------------------------------------------
(* Properties                                                              *)

TypeOK ==
  /\ mode \in {"INTERACTIF", "SCRIPT"} /\ eof \in BOOLEAN /\ ferror \in BOOLEAN
  /\ pc \in {"acquire", "execute", "set reg", "set mem", "treat", "feof"}
  /\ rest \in Seq(Token) /\ line \in Seq(Token)
  /\ regs \in [Name -> 0..WordMax] /\ before \in [Name -> 0..WordMax]
  /\ flags \in [Flag -> {0, 1}]
  /\ saisi \in Typed \union {""}
  /\ loaded \in BOOLEAN /\ failed \in BOOLEAN
  /\ ret \in {OK, EXIT, UNKNOWN, ERR, TEST_ERR}
  /\ status \in {"running", "success", "failure", "crashed"}
  /\ count \in 0..MaxLines

(* The exit status of a script tells the truth: success means that no line *)
(* of it returned anything but OK, up to its end or to an exit; failure    *)
(* means that a line did.  At the terminal an error never ends the shell.  *)
VerdictHonest ==
  /\ status = "success" /\ mode = "SCRIPT" => ~failed
  /\ status = "failure" => mode = "SCRIPT" /\ failed

(* The pairs of a line "set reg ..." from position i to its end or to the  *)
(* first mistake.                                                          *)
PairsFrom(l) ==
  LET P[i \in 3..(Len(l) + 2)] ==
        IF i > Len(l) THEN <<>>
        ELSE IF Type(l[i]) = "STATEREG" THEN P[i + 1]
        ELSE IF i < Len(l) /\ Type(l[i]) = "REG" /\ IsNumber(l[i + 1])
             THEN <<[reg |-> l[i], num |-> l[i + 1].num]>> \o P[i + 2]
        ELSE <<>>
  IN P

IsSetReg(l) == Len(l) > 1 /\ l[1] = Word("set") /\ l[2] = Word("reg")

(* The value of register r, v before the pairs p: the last that names it   *)
(* wins.                                                                   *)
After(p, r, v) ==
  LET named == {i \in DOMAIN p : p[i].reg = Reg(r)}
  IN IF named = {} THEN v
     ELSE p[CHOOSE i \in named : \A j \in named : j <= i].num

Final(l, r) == After(PairsFrom(l)[3], r, before[r])

(* The values of a line are not negative: what set reg does of a negative  *)
(* decimal is the subject of GrammarAccepted.                              *)
NoNegative(l) == \A i \in DOMAIN l : l[i].kind = "dec" => l[i].num >= 0

(* Whatever a line without a negative value returns, the registers are     *)
(* those that its pairs before the first mistake give: all of them when it *)
(* succeeds, none lost or applied twice when it fails in the middle; and   *)
(* no other line changes them (setcmd, inter.c:632-676).                   *)
SetMeaning ==
  At("treat") /\ NoNegative(line) =>
    regs = [r \in Name |-> IF IsSetReg(line) THEN Final(line, r) ELSE before[r]]

(* An assert on a register with a numeric value answers OK exactly when    *)
(* the register, as the previous lines left it, holds that value.          *)
AssertMeaning ==
  /\ At("treat") /\ Len(line) = 4 /\ line[1] = Word("assert") /\ line[2] = Word("reg")
  /\ line[3].kind = "reg" /\ IsNumber(line[4])
  => (ret = OK <=> before[line[3].text] = line[4].num)

(* A script that can be read ends, whatever its lines are, whether or not  *)
(* its last line has a newline, and also after reads that failed, as long  *)
(* as they do not fail for ever (the loop of main and acquire_line).       *)
ScriptsEnd ==
  <>[][~AcquireError]_vars => (mode = "SCRIPT" ~> status # "running")

(* The help (inter.c:1083) gives two forms of set: set mem byte <@>        *)
(* <integer8>, and set reg <reg> <integer32> with an integer that is       *)
(* signed.  A line of either form is not refused.                          *)
SetMemForm(l) ==
  /\ Len(l) = 5 /\ l[1] = Word("set") /\ l[2] = Word("mem") /\ l[3] = Word("byte")
  /\ IsHexa(l[4]) /\ IsByte(l[5])

Integer32(t) == t.kind = "dec" /\ t.num \in -(WordMax \div 2) - 1..WordMax \div 2

SetRegForm(l) == Len(l) = 4 /\ IsSetReg(l) /\ Type(l[3]) = "REG" /\ Integer32(l[4])

GrammarAccepted == At("treat") /\ (SetMemForm(line) \/ SetRegForm(line)) => ret # ERR

(* The scripts of test/set/05 and 11 and of test/assert/10 have            *)
(* TEST_RETURN_CODE=FAIL.                                                  *)
ExpectedFailures ==
  {<<Word("set"), Word("reg")>>, <<Word("set"), Word("mem")>>,
   <<Word("assert"), Word("reg"), Reg("r1"), Word("toto")>>}

ExpectedToFail == At("treat") /\ line \in ExpectedFailures => ret # OK

(* main says that all the ways out of its loop are treated in it           *)
(* (emulARM.c:191), and that any error ends a script (emulARM.c:173): once *)
(* the input is at its end, or the script cannot be read, the program      *)
(* stops.                                                                  *)
EndOfInputEnds == eof \/ ferror ~> status # "running"
=============================================================================
