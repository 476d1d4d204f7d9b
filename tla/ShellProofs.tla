---------------------------- MODULE ShellProofs -----------------------------
(***************************************************************************)
(* The interpreter, for all registers, lines and sessions: the variables   *)
(* keep their types, the exit status of a script tells whether a line of   *)
(* it failed, and an assert on a register answers OK exactly when the      *)
(* register holds the value.                                               *)
(***************************************************************************)
EXTENDS Shell, Induction, TLAPS

USE DEF OK, EXIT, UNKNOWN, ERR, TEST_ERR, FAULT

Codes == {OK, EXIT, UNKNOWN, ERR, TEST_ERR, FAULT}

(* As long as a script runs none of its lines has failed.                  *)
VerdictInv ==
  /\ VerdictHonest
  /\ status = "running" /\ mode = "SCRIPT" => ~failed

(* A handler starts with its line whole and the registers untouched; only  *)
(* a line "set ..." reaches the loops of setcmd.                           *)
LineInv ==
  /\ pc = "execute" => rest = line /\ regs = before
  /\ pc \in {"set reg", "set mem"} => line # <<>> /\ line[1].text = "set"

IInv == TypeOK /\ VerdictInv /\ LineInv /\ AssertMeaning

AssertLine ==
  /\ Len(line) = 4 /\ line[1] = Word("assert") /\ line[2] = Word("reg")
  /\ line[3].kind = "reg" /\ IsNumber(line[4])

LEMMA Limits == /\ ByteMax \in Nat /\ WordMax \in Nat /\ MaxLines \in Nat
                /\ Lines \subseteq Seq(Token)
BY ShellAssumption

LEMMA InitInv == Init => IInv
<1> SUFFICES ASSUME Init PROVE IInv
  OBVIOUS
<1>1. TypeOK
  <2>1. regs \in [Name -> 0..WordMax] /\ before \in [Name -> 0..WordMax]
    <3>1. 0 \in 0..WordMax
      BY Limits
    <3> QED BY <3>1, Zenon DEF Init
  <2>2. flags \in [Flag -> {0, 1}]
    BY DEF Init
  <2>3. /\ rest \in Seq(Token) /\ line \in Seq(Token) /\ saisi \in Typed \union {""}
        /\ count \in 0..MaxLines /\ ret \in {OK, EXIT, UNKNOWN, ERR, TEST_ERR}
    <3>1. 0 \in 0..MaxLines /\ <<>> \in Seq(Token)
      BY Limits
    <3> QED BY <3>1, Zenon DEF Init
  <2>4. /\ mode \in {"INTERACTIF", "SCRIPT"} /\ eof \in BOOLEAN /\ ferror \in BOOLEAN
        /\ loaded \in BOOLEAN /\ failed \in BOOLEAN
    BY DEF Init
  <2>5. /\ pc \in {"acquire", "execute", "set reg", "set mem", "treat", "feof"}
        /\ status \in {"running", "success", "failure", "crashed"}
    BY DEF Init
  <2> QED BY <2>1, <2>2, <2>3, <2>4, <2>5 DEF TypeOK
<1>2. VerdictInv /\ LineInv /\ AssertMeaning
  BY DEF Init, VerdictInv, VerdictHonest, LineInv, AssertMeaning, At
<1> QED BY <1>1, <1>2 DEF IInv

-----------------------------------------------------------------------------
(* Numbers and tokens                                                      *)

LEMMA AssertText == Word("assert").text = "assert"
BY DEF Word

LEMMA TailType ==
  ASSUME NEW s \in Seq(Token), s # <<>>
  PROVE  Tail(s) \in Seq(Token) /\ Len(Tail(s)) = Len(s) - 1
OBVIOUS

LEMMA DropType ==
  ASSUME NEW s \in Seq(Token), Len(s) > 2
  PROVE  SubSeq(s, 4, Len(s)) \in Seq(Token)
OBVIOUS

LEMMA ElementType ==
  ASSUME NEW s \in Seq(Token), NEW i \in 1..Len(s)
  PROVE  s[i] \in Token
OBVIOUS

LEMMA NumberBounds ==
  ASSUME NEW t \in Token, IsNumber(t)
  PROVE  t.num \in 0..WordMax
<1>1. t.kind \in {"hex", "dec"} /\ t.num \in Int /\ Type(t) # "UNKNOWN"
  BY DEF IsNumber, IsHexa, Type, Token
<1>2. Type(t) \in {Sized(t.num, "HEXA8", "HEXA32"), Sized(t.num, "DECI8", "DECI32")}
  BY <1>1 DEF Type
<1> QED BY <1>1, <1>2, Limits DEF Sized

LEMMA WrittenType ==
  ASSUME TypeOK, NEW t, NEW n \in 0..WordMax
  PROVE  Written(t, n) \in [Name -> 0..WordMax]
BY DEF TypeOK, Written

-----------------------------------------------------------------------------
(* A handler that answers                                                  *)

LEMMA AnswerType ==
  ASSUME TypeOK, NEW r \in Codes, Answer(r)
  PROVE  TypeOK'
<1>1. rest' = rest /\ UNCHANGED <<mode, eof, ferror, count, line, before>>
      /\ UNCHANGED <<regs, flags, saisi, loaded>> /\ failed' = failed
  BY DEF Answer, input, machine
<1>2. ret' \in {OK, EXIT, UNKNOWN, ERR, TEST_ERR}
  BY DEF Answer, TypeOK, Codes
<1>3. pc' \in {"acquire", "execute", "set reg", "set mem", "treat", "feof"}
  BY DEF Answer, TypeOK
<1>4. status' \in {"running", "success", "failure", "crashed"}
  BY DEF Answer, TypeOK
<1> QED BY <1>1, <1>2, <1>3, <1>4 DEF TypeOK

(* The answer is judged later: it disturbs only what is said of asserts.   *)
LEMMA AnswerInv ==
  ASSUME IInv, NEW r \in Codes, Answer(r), status = "running",
         AssertLine => (r = OK <=> before[line[3].text] = line[4].num)
  PROVE  IInv'
<1>1. TypeOK'
  BY AnswerType DEF IInv
<1>2. UNCHANGED <<mode, line, before, rest, regs, failed>>
      /\ \/ status' = "crashed" /\ pc' = pc
         \/ r # FAULT /\ ret' = r /\ pc' = "treat" /\ status' = status
  BY DEF Answer, input, machine
<1>3. VerdictInv'
  BY <1>2 DEF IInv, VerdictInv, VerdictHonest
<1>4. LineInv'
  BY <1>2 DEF IInv, LineInv
<1>5. AssertMeaning'
  <2>1. CASE status' = "crashed"
    BY <2>1 DEF AssertMeaning, At
  <2>2. CASE ret' = r
    BY <1>2, <2>2 DEF AssertMeaning, AssertLine
  <2> QED BY <1>2, <2>1, <2>2
<1> QED BY <1>1, <1>3, <1>4, <1>5 DEF IInv

LEMMA OtherLine ==
  ASSUME IInv, At("execute"), Command # "assert"
  PROVE  ~AssertLine
<1>1. rest = line /\ line \in Seq(Token)
  BY DEF IInv, LineInv, TypeOK, At
<1>2. line # <<>> => line[1].text = Command
  BY <1>1 DEF Command
<1>3. line[1] = Word("assert") => line[1].text = "assert"
  BY DEF Word
<1>4. Len(line) = 4 => line # <<>>
  BY <1>1
<1> QED BY <1>2, <1>3, <1>4 DEF AssertLine

(* The commands other than assert, when they only answer.                  *)
LEMMA OtherAnswer ==
  ASSUME IInv, At("execute"), Command # "assert", NEW r \in Codes, Answer(r)
  PROVE  IInv'
BY OtherLine, AnswerInv DEF At

(* The commands that change nothing, whatever they answer.                 *)
LEMMA AnsweringStep ==
  ASSUME IInv,
         Blank \/ ExitCmd \/ UnknownCmd \/ HelpCmd \/ DebugCmd \/ ResumeCmd \/ StepCmd
         \/ RunCmd \/ TestCmd \/ DispCmd \/ DisasmCmd \/ BreakCmd
  PROVE  IInv'
<1> USE DEF Codes
<1>1. CASE Blank
  BY <1>1, OtherAnswer DEF Blank, Called
<1>2. CASE ExitCmd
  BY <1>2, OtherAnswer DEF ExitCmd, Called
<1>3. CASE UnknownCmd
  <2>1. ~AssertLine
    <3>1. rest = line /\ line \in Seq(Token)
      BY <1>3 DEF UnknownCmd, At, IInv, LineInv, TypeOK
    <3>2. AssertLine => line # <<>> /\ Head(line) = Word("assert")
      BY <3>1 DEF AssertLine
    <3>3. AssertLine => Command = "assert"
      BY <3>1, <3>2 DEF Command, Word
    <3> QED BY <3>3, <1>3 DEF UnknownCmd, Commands
  <2> QED BY <2>1, <1>3, AnswerInv DEF UnknownCmd, At
<1>4. CASE HelpCmd
  BY <1>4, OtherAnswer DEF HelpCmd, Called
<1>5. CASE DebugCmd
  BY <1>5, OtherAnswer DEF DebugCmd, Called, AnswerIf
<1>6. CASE ResumeCmd
  BY <1>6, OtherAnswer DEF ResumeCmd, Called, AnswerIf
<1>7. CASE StepCmd
  BY <1>7, OtherAnswer DEF StepCmd, Called, AnswerIf
<1>8. CASE RunCmd
  BY <1>8, OtherAnswer DEF RunCmd, Called, AnswerIf
<1>9. CASE TestCmd
  <2>1. \E r \in {OK, ERR, TEST_ERR} : Answer(r)
    BY <1>9 DEF TestCmd
  <2>2. At("execute") /\ Command = "test"
    BY <1>9 DEF TestCmd, Called
  <2> QED BY <2>1, <2>2, OtherAnswer
<1>10. CASE DispCmd
  <2>1. \E r \in {OK, ERR} : Answer(r)
    BY <1>10 DEF DispCmd, AnswerIf
  <2>2. At("execute") /\ Command = "disp"
    BY <1>10 DEF DispCmd, Called
  <2> QED BY <2>1, <2>2, OtherAnswer
<1>11. CASE DisasmCmd
  <2>1. \E r \in {OK, ERR, FAULT} : Answer(r)
    BY <1>11 DEF DisasmCmd, AnyAnswer
  <2>2. At("execute") /\ Command = "disasm"
    BY <1>11 DEF DisasmCmd, Called
  <2> QED BY <2>1, <2>2, OtherAnswer
<1>12. CASE BreakCmd
  <2>1. \E r \in {OK, ERR, FAULT} : Answer(r)
    BY <1>12 DEF BreakCmd
  <2>2. At("execute") /\ Command = "break"
    BY <1>12 DEF BreakCmd, Called
  <2> QED BY <2>1, <2>2, OtherAnswer
<1> QED BY <1>1, <1>2, <1>3, <1>4, <1>5, <1>6, <1>7, <1>8, <1>9, <1>10, <1>11, <1>12

LEMMA LoadStep ==
  ASSUME IInv, LoadCmd
  PROVE  IInv'
<1>1. At("execute") /\ Command = "load"
  BY DEF LoadCmd, Called
<1>2. ASSUME NEW r \in {OK, ERR, FAULT}, Answer(r)
      PROVE  IInv'
  BY <1>1, <1>2, OtherAnswer DEF Codes
<1>3. ASSUME loaded' = TRUE, ret' = OK, pc' = "treat",
             UNCHANGED <<input, rest, regs, flags, saisi, status, failed>>
      PROVE  IInv'
  <2>1. TypeOK'
    BY <1>3 DEF IInv, TypeOK, input
  <2>2. VerdictInv' /\ LineInv'
    BY <1>3 DEF IInv, VerdictInv, VerdictHonest, LineInv, input
  <2>3. ~AssertLine
    BY <1>1, OtherLine
  <2>4. AssertMeaning'
    BY <1>3, <2>3 DEF AssertLine, AssertMeaning, input
  <2> QED BY <2>1, <2>2, <2>4 DEF IInv
<1> QED BY <1>2, <1>3 DEF LoadCmd, AnswerIf

(* An assert compares with the registers that the previous lines left.     *)
LEMMA AssertStep ==
  ASSUME IInv, AssertCmd
  PROVE  IInv'
<1>1. /\ rest = line /\ regs = before /\ line \in Seq(Token) /\ rest # <<>>
      /\ At("execute") /\ status = "running"
  BY DEF AssertCmd, Called, At, Command, IInv, LineInv, TypeOK
<1>2. /\ Len(Args) = Len(line) - 1
      /\ \A i \in DOMAIN Args : Args[i] = line[i + 1]
  BY <1>1 DEF Args
<1>3. CASE AssertLine
  <2>1. Len(Args) = 3 /\ Args[1] = Word("reg") /\ Args[2] = line[3] /\ Args[3] = line[4]
    BY <1>1, <1>2, <1>3 DEF AssertLine
  <2>2. AssertReg(line[3].text, line[4]) /\ IsNumber(line[4])
    BY <1>3, <2>1 DEF AssertCmd, AssertLine
  <2>3. PICK r \in {OK, ERR} :
          Answer(r) /\ (r = OK <=> before[line[3].text] = line[4].num)
    BY <1>1, <2>2 DEF AssertReg, AnswerIf, Compared, OK, ERR
  <2> QED BY <2>3, <1>1, AnswerInv DEF Codes
<1>4. CASE ~AssertLine
  <2>1. \E r \in {OK, ERR, FAULT} : Answer(r)
    BY DEF AssertCmd, AssertReg, AnswerIf, AnyAnswer
  <2> QED BY <2>1, <1>1, <1>4, AnswerInv DEF Codes
<1> QED BY <1>3, <1>4

-----------------------------------------------------------------------------
(* setcmd                                                                  *)

LEMMA SetCmdStep ==
  ASSUME IInv, SetCmd
  PROVE  IInv'
<1>1. At("execute") /\ Command = "set"
  BY DEF SetCmd, Called
<1>2. CASE Answer(ERR)
  BY <1>1, <1>2, OtherAnswer DEF Codes
<1>3. CASE ~Answer(ERR)
  <2>1. /\ pc' \in {"set reg", "set mem"} /\ rest' = Tail(Args) /\ saisi' = "" /\ Args # <<>>
        /\ UNCHANGED <<input, regs, flags, loaded, ret, status, failed>>
    BY <1>3 DEF SetCmd
  <2>2. rest \in Seq(Token) /\ rest # <<>> /\ line = rest /\ line[1].text = "set"
    <3>1. rest # <<>>
      BY <1>1 DEF Command
    <3>2. rest \in Seq(Token) /\ line = rest
      BY <1>1 DEF At, IInv, LineInv, TypeOK
    <3> QED BY <3>1, <3>2, <1>1 DEF Command
  <2>3. rest' \in Seq(Token)
    BY <2>1, <2>2, TailType DEF Args
  <2>4. TypeOK'
    BY <2>1, <2>3 DEF IInv, TypeOK, input
  <2>5. VerdictInv'
    BY <2>1 DEF IInv, VerdictInv, VerdictHonest, input
  <2>6. LineInv' /\ AssertMeaning'
    BY <2>1, <2>2 DEF LineInv, AssertMeaning, At, input
  <2> QED BY <2>4, <2>5, <2>6 DEF IInv
<1> QED BY <1>2, <1>3

(* The loops of setcmd answer for a line that is no assert.                *)
LEMMA InSetcmd ==
  ASSUME IInv, pc \in {"set reg", "set mem"}
  PROVE  ~AssertLine
<1>1. line[1].text = "set"
  BY Zenon DEF IInv, LineInv
<1> QED BY <1>1, AssertText DEF AssertLine

LEMMA SetAnswerStep ==
  ASSUME IInv, SetDone \/ SetRegError \/ SetMemError
  PROVE  IInv'
<1>1. /\ status = "running" /\ pc \in {"set reg", "set mem"}
      /\ \E r \in {OK, ERR} : Answer(r)
  BY DEF SetDone, SetRegError, SetMemError, At
<1> QED BY <1>1, InSetcmd, AnswerInv DEF Codes

(* A step of the loops, which stays in them or dies.                       *)
LEMMA LoopStep ==
  ASSUME IInv, pc \in {"set reg", "set mem"}, pc' = pc, TypeOK',
         UNCHANGED <<input, failed>>, status = "running",
         status' \in {"running", "crashed"}
  PROVE  IInv'
<1>1. VerdictInv'
  BY DEF IInv, VerdictInv, VerdictHonest, input
<1>2. LineInv' /\ AssertMeaning'
  BY DEF IInv, LineInv, AssertMeaning, At, input
<1> QED BY <1>1, <1>2 DEF IInv

LEMMA SetLoopStep ==
  ASSUME IInv, SetRegValue \/ SetRegFlag \/ SetMemValue
  PROVE  IInv'
<1>1. rest \in Seq(Token)
  BY DEF IInv, TypeOK
<1>2. CASE SetRegValue
  <2>1. /\ Len(rest) > 1 /\ IsNumber(rest[2]) /\ rest' = Tail(Tail(rest))
        /\ regs' = Written(rest[1], rest[2].num) /\ status = "running" /\ pc = "set reg"
        /\ UNCHANGED <<input, pc, flags, saisi, loaded, ret, status, failed>>
    BY <1>2 DEF SetRegValue, At
  <2> DEFINE once == Tail(rest)
  <2>2. Len(rest) > 1 /\ rest' = Tail(once)
    BY <2>1
  <2>3. rest # <<>> /\ 2 \in 1..Len(rest)
    BY <1>1, <2>2
  <2>4. rest[2] \in Token
    BY <1>1, <2>3, ElementType
  <2>5. once \in Seq(Token) /\ Len(once) = Len(rest) - 1
    BY <1>1, <2>3, TailType
  <2> HIDE DEF once
  <2>6. once # <<>>
    BY <1>1, <2>2, <2>5
  <2>7. rest' \in Seq(Token)
    BY <2>2, <2>5, <2>6, TailType
  <2>8. regs' \in [Name -> 0..WordMax]
    BY <2>1, <2>4, NumberBounds, WrittenType DEF IInv
  <2>9. TypeOK'
    BY <2>1, <2>7, <2>8 DEF IInv, TypeOK, input
  <2> QED BY <2>1, <2>9, LoopStep
<1>3. CASE SetRegFlag
  <2>1. /\ rest # <<>> /\ rest' = Tail(rest) /\ saisi' \in Typed \union {saisi}
        /\ status = "running" /\ pc = "set reg" /\ status' \in {"running", "crashed"}
        /\ UNCHANGED <<input, pc, regs, loaded, ret, failed>>
    BY <1>3 DEF SetRegFlag, At
  <2>2. flags' \in [Flag -> {0, 1}]
    <3>1. flags \in [Flag -> {0, 1}]
      BY DEF IInv, TypeOK
    <3>2. CASE saisi' \in Flag
      <4>1. flags[saisi'] \in {0, 1}
        BY <3>1, <3>2
      <4>2. Inverted(flags[saisi']) \in {0, 1}
        BY <4>1 DEF Inverted
      <4> QED BY <1>3, <3>1, <3>2, <4>2 DEF SetRegFlag
    <3>3. CASE saisi' \notin Flag
      BY <1>3, <3>1, <3>3 DEF SetRegFlag
    <3> QED BY <3>2, <3>3
  <2>3. rest' \in Seq(Token) /\ saisi' \in Typed \union {""}
    BY <1>1, <2>1, TailType DEF IInv, TypeOK
  <2>4. TypeOK'
    BY <2>1, <2>2, <2>3 DEF IInv, TypeOK, input
  <2> QED BY <2>1, <2>4, LoopStep
<1>4. CASE SetMemValue
  <2>1. status = "running" /\ pc = "set mem" /\ Len(rest) > 2
    BY <1>4 DEF SetMemValue, Triple, At
  <2>2. CASE Answer(FAULT)
    BY <2>1, <2>2, InSetcmd, AnswerInv DEF Codes
  <2>3. CASE ~Answer(FAULT)
    <3>1. rest' = SubSeq(rest, 4, Len(rest))
          /\ UNCHANGED <<input, machine, pc, ret, status, failed>>
      BY <1>4, <2>3 DEF SetMemValue
    <3>2. rest' \in Seq(Token)
      BY <1>1, <2>1, <3>1, DropType
    <3>3. TypeOK'
      BY <3>1, <3>2 DEF IInv, TypeOK, input, machine
    <3> QED BY <2>1, <3>1, <3>3, LoopStep
  <2> QED BY <2>2, <2>3
<1> QED BY <1>2, <1>3, <1>4

-----------------------------------------------------------------------------
(* The main loop                                                           *)

LEMMA AcquireStep ==
  ASSUME IInv, AcquireLine \/ AcquireNothing \/ AcquireError
  PROVE  IInv'
<1>1. CASE AcquireLine
  <2>1. /\ line' \in Lines /\ rest' = line' /\ before' = regs
        /\ eof' \in BOOLEAN /\ pc' = "execute"
        /\ UNCHANGED <<mode, ferror, regs, flags, saisi, loaded, ret, status, failed>>
    BY <1>1 DEF AcquireLine, machine
  <2>2. count' \in 0..MaxLines
    <3>1. count \in 0..MaxLines
      BY DEF IInv, TypeOK
    <3>2. count' = count + 1 /\ count < MaxLines
      BY <1>1 DEF AcquireLine
    <3> QED BY <3>1, <3>2, Limits
  <2>3. line' \in Seq(Token)
    BY <2>1, Limits
  <2>4. TypeOK'
    BY <2>1, <2>2, <2>3 DEF IInv, TypeOK
  <2>5. VerdictInv' /\ LineInv' /\ AssertMeaning'
    BY <2>1 DEF IInv, VerdictInv, VerdictHonest, LineInv, AssertMeaning, At
  <2> QED BY <2>4, <2>5 DEF IInv
<1>2. CASE AcquireNothing \/ AcquireError
  <2>1. /\ eof' \in BOOLEAN /\ ferror' \in BOOLEAN /\ pc' = "feof"
        /\ UNCHANGED <<mode, rest, regs, flags, saisi, loaded, ret, status, count, line,
                       before, failed>>
    BY <1>2 DEF AcquireNothing, AcquireError, machine, IInv, TypeOK
  <2>2. TypeOK'
    BY <2>1 DEF IInv, TypeOK
  <2>3. VerdictInv' /\ LineInv' /\ AssertMeaning'
    BY <2>1 DEF IInv, VerdictInv, VerdictHonest, LineInv, AssertMeaning, At
  <2> QED BY <2>2, <2>3 DEF IInv
<1> QED BY <1>1, <1>2

LEMMA LoopEndStep ==
  ASSUME IInv, Treat \/ Feof
  PROVE  IInv'
<1>1. /\ status = "running"
      /\ UNCHANGED <<mode, eof, ferror, count, line, before, rest, regs, flags, saisi, loaded, ret>>
  BY DEF Treat, Feof, At, input, machine
<1>2. CASE Treat
  <2>1. failed' \in BOOLEAN /\ (failed' <=> failed \/ Fails(ret))
    BY <1>2 DEF Treat, IInv, TypeOK
  <2>2. \/ ret = EXIT /\ status' = "success" /\ pc' = pc
        \/ ret # EXIT /\ Fails(ret) /\ mode = "SCRIPT" /\ status' = "failure" /\ pc' = pc
        \/ ret # EXIT /\ ~(Fails(ret) /\ mode = "SCRIPT") /\ pc' = "feof" /\ status' = status
    <3>1. CASE ret = EXIT
      BY <1>2, <3>1 DEF Treat, Fails
    <3>2. CASE ret # EXIT /\ Fails(ret) /\ mode = "SCRIPT"
      BY <1>2, <3>2 DEF Treat
    <3>3. CASE ret # EXIT /\ ~(Fails(ret) /\ mode = "SCRIPT")
      BY <1>2, <3>3 DEF Treat
    <3> QED BY <3>1, <3>2, <3>3
  <2>3. pc = "treat" /\ (ret = EXIT => ~Fails(ret))
    BY <1>2 DEF Treat, At, Fails
  <2>4. TypeOK'
    BY <1>1, <2>1, <2>2, <2>3 DEF IInv, TypeOK
  <2>5. VerdictInv'
    BY <1>1, <2>1, <2>2, <2>3 DEF IInv, VerdictInv, VerdictHonest
  <2>6. LineInv' /\ AssertMeaning'
    BY <1>1, <2>2, <2>3 DEF LineInv, AssertMeaning, At
  <2> QED BY <2>4, <2>5, <2>6 DEF IInv
<1>3. CASE Feof
  <2>1. /\ failed' = failed /\ pc = "feof"
        /\ \/ mode = "SCRIPT" /\ status' = "success" /\ pc' = pc
           \/ pc' = "acquire" /\ status' = status
    BY <1>3 DEF Feof, At
  <2>2. TypeOK'
    BY <1>1, <2>1 DEF IInv, TypeOK
  <2>3. VerdictInv'
    BY <1>1, <2>1 DEF IInv, VerdictInv, VerdictHonest
  <2>4. LineInv' /\ AssertMeaning'
    BY <1>1, <2>1 DEF LineInv, AssertMeaning, At
  <2> QED BY <2>2, <2>3, <2>4 DEF IInv
<1> QED BY <1>2, <1>3

LEMMA Inductive == IInv /\ [Next]_vars => IInv'
<1> SUFFICES ASSUME IInv, [Next]_vars PROVE IInv'
  OBVIOUS
<1>1. CASE UNCHANGED vars
  <2>1. TypeOK'
    BY <1>1 DEF vars, IInv, TypeOK
  <2>2. VerdictInv' /\ LineInv' /\ AssertMeaning'
    BY <1>1 DEF vars, IInv, VerdictInv, VerdictHonest, LineInv, AssertMeaning, At
  <2> QED BY <2>1, <2>2 DEF IInv
<1>2. CASE AcquireLine \/ AcquireNothing \/ AcquireError
  BY <1>2, AcquireStep
<1>3. CASE \/ Blank \/ ExitCmd \/ UnknownCmd \/ HelpCmd \/ DebugCmd \/ ResumeCmd \/ StepCmd
           \/ RunCmd \/ TestCmd \/ DispCmd \/ DisasmCmd \/ BreakCmd
  BY <1>3, AnsweringStep
<1>4. CASE LoadCmd \/ AssertCmd \/ SetCmd
  BY <1>4, LoadStep, AssertStep, SetCmdStep
<1>5. CASE SetDone \/ SetRegError \/ SetMemError
  BY <1>5, SetAnswerStep
<1>6. CASE SetRegValue \/ SetRegFlag \/ SetMemValue
  BY <1>6, SetLoopStep
<1>7. CASE Treat \/ Feof
  BY <1>7, LoopEndStep
<1> QED BY <1>1, <1>2, <1>3, <1>4, <1>5, <1>6, <1>7 DEF Next, Over

LEMMA AlwaysIInv == Spec => []IInv
BY InitInv, Inductive, PTL DEF Spec

-----------------------------------------------------------------------------
(* Every variable keeps its type, for all lines; in particular no command  *)
(* stores in a register a value that does not fit it.                      *)
THEOREM TypeCorrect == Spec => []TypeOK
<1>1. IInv => TypeOK
  BY DEF IInv
<1> QED BY <1>1, AlwaysIInv, PTL

(* main ends a script with success only if none of its lines returned an   *)
(* error, the negative codes included, and with failure only if one did.   *)
THEOREM VerdictsHonest == Spec => []VerdictHonest
<1>1. IInv => VerdictHonest
  BY DEF IInv, VerdictInv
<1> QED BY <1>1, AlwaysIInv, PTL

(* assertcmd answers OK for a register and a number exactly when the       *)
(* previous lines left that number in the register.                        *)
THEOREM AssertsMeanIt == Spec => []AssertMeaning
<1>1. IInv => AssertMeaning
  BY DEF IInv
<1> QED BY <1>1, AlwaysIInv, PTL-----------------------------------------------------------------------------

(* The pairs of a line "set reg ..."                                       *)

Pair == [reg : Token, num : Int]

(* The pairs from position i on, when those from i + 1 and i + 2 are p, q. *)
FromHere(l, i, p, q) ==
  IF i > Len(l) THEN <<>>
  ELSE IF Type(l[i]) = "STATEREG" THEN p
  ELSE IF i < Len(l) /\ Type(l[i]) = "REG" /\ IsNumber(l[i + 1])
       THEN <<[reg |-> l[i], num |-> l[i + 1].num]>> \o q
  ELSE <<>>

LEMMA FromHereType ==
  ASSUME NEW l \in Seq(Token), NEW i \in 1..Len(l) + 2, NEW p, NEW q,
         i <= Len(l) => p \in Seq(Pair), i < Len(l) => q \in Seq(Pair)
  PROVE  FromHere(l, i, p, q) \in Seq(Pair)
<1>1. <<>> \in Seq(Pair)
  OBVIOUS
<1>2. CASE i < Len(l) /\ Type(l[i]) = "REG" /\ IsNumber(l[i + 1])
  <2>1. i \in 1..Len(l) /\ i + 1 \in 1..Len(l)
    BY <1>2
  <2>2. l[i] \in Token /\ l[i + 1].num \in Int
    <3>1. l[i] \in Token /\ l[i + 1] \in Token
      BY <2>1, ElementType
    <3> QED BY <3>1 DEF Token
  <2>3. [reg |-> l[i], num |-> l[i + 1].num] \in Pair
    BY <2>2 DEF Pair
  <2>4. <<[reg |-> l[i], num |-> l[i + 1].num]>> \o q \in Seq(Pair)
    BY <1>2, <2>3
  <2>5. ~(i > Len(l)) /\ Type(l[i]) # "STATEREG"
    BY <1>2
  <2> QED BY <1>2, <2>4, <2>5, Zenon DEF FromHere
<1>3. CASE ~(i < Len(l) /\ Type(l[i]) = "REG" /\ IsNumber(l[i + 1]))
  <2>1. CASE i > Len(l)
    <3>1. FromHere(l, i, p, q) = <<>>
      BY <2>1, Zenon DEF FromHere
    <3> QED BY <1>1, <3>1
  <2>2. CASE ~(i > Len(l)) /\ Type(l[i]) = "STATEREG"
    <3>1. FromHere(l, i, p, q) = p
      BY <2>2, Zenon DEF FromHere
    <3> QED BY <2>2, <3>1
  <2>3. CASE ~(i > Len(l)) /\ Type(l[i]) # "STATEREG"
    <3>1. FromHere(l, i, p, q) = <<>>
      BY <1>3, <2>3, Zenon DEF FromHere
    <3> QED BY <1>1, <3>1
  <2> QED BY <2>1, <2>2, <2>3
<1> QED BY <1>2, <1>3

(* Only what follows on the line matters.                                  *)
LEMMA FromHereSame ==
  ASSUME NEW l \in Seq(Token), NEW i \in Int, NEW p, NEW q, NEW p2, NEW q2,
         i <= Len(l) => p = p2, i < Len(l) => q = q2
  PROVE  FromHere(l, i, p, q) = FromHere(l, i, p2, q2)
<1>1. i > Len(l) \/ i <= Len(l)
  OBVIOUS
<1>2. CASE i < Len(l) /\ Type(l[i]) = "REG" /\ IsNumber(l[i + 1])
  BY <1>1, <1>2, Zenon DEF FromHere
<1>3. CASE ~(i < Len(l) /\ Type(l[i]) = "REG" /\ IsNumber(l[i + 1]))
  BY <1>1, <1>3, Zenon DEF FromHere
<1> QED BY <1>2, <1>3

(* The recursive function of PairsFrom is defined from the end of the line *)
(* backwards: there is one on the positions from m, for every m.           *)
IsPairs(l, m, n, P) == \A i \in m..n : P[i] = FromHere(l, i, P[i + 1], P[i + 2])

LEMMA PairsOneMore ==
  ASSUME NEW l \in Seq(Token), NEW n, n = Len(l) + 2, NEW m \in 1..n - 1,
         NEW P \in [m + 1..n -> Seq(Pair)], IsPairs(l, m + 1, n, P)
  PROVE  \E Q \in [m..n -> Seq(Pair)] : IsPairs(l, m, n, Q)
<1> DEFINE v == FromHere(l, m, P[m + 1], P[m + 2])
           Q == [i \in m..n |-> IF i = m THEN v ELSE P[i]]
<1>1. Len(l) \in Nat /\ n \in Nat
  OBVIOUS
<1>2. v \in Seq(Pair)
  <2>1. m <= Len(l) => P[m + 1] \in Seq(Pair)
    BY <1>1
  <2>2. m < Len(l) => P[m + 2] \in Seq(Pair)
    BY <1>1
  <2> QED BY <1>1, <2>1, <2>2, FromHereType
<1> HIDE DEF v
<1>3. Q \in [m..n -> Seq(Pair)] /\ Q[m] = v /\ \A i \in m + 1..n : Q[i] = P[i]
  BY <1>1, <1>2
<1> HIDE DEF Q
<1>4. ASSUME NEW i \in m..n
      PROVE  Q[i] = FromHere(l, i, Q[i + 1], Q[i + 2])
  <2>1. i <= Len(l) => Q[i + 1] = P[i + 1]
    BY <1>1, <1>3
  <2>2. i < Len(l) => Q[i + 2] = P[i + 2]
    BY <1>1, <1>3
  <2>3. FromHere(l, i, Q[i + 1], Q[i + 2]) = FromHere(l, i, P[i + 1], P[i + 2])
    BY <2>1, <2>2, FromHereSame
  <2>4. Q[i] = FromHere(l, i, P[i + 1], P[i + 2])
    <3>1. CASE i = m
      BY <1>3, <3>1 DEF v
    <3>2. CASE i # m
      <4>1. i \in m + 1..n
        BY <1>1, <3>2
      <4> QED BY <1>3, <4>1 DEF IsPairs
    <3> QED BY <3>1, <3>2
  <2> QED BY <2>3, <2>4
<1>5. IsPairs(l, m, n, Q)
  BY <1>4 DEF IsPairs
<1> QED BY <1>3, <1>5

LEMMA PairsExist ==
  ASSUME NEW l \in Seq(Token), Len(l) > 1, NEW n, n = Len(l) + 2
  PROVE  \E P \in [3..n -> Seq(Pair)] : IsPairs(l, 3, n, P)
<1> DEFINE S == {k \in 0..n - 3 : \E P \in [n - k..n -> Seq(Pair)] : IsPairs(l, n - k, n, P)}
<1>1. Len(l) \in Nat /\ n \in Nat /\ n - 3 \in Nat
  OBVIOUS
<1>2. 0 \in S
  <2> DEFINE P == [i \in n - 0..n |-> <<>>]
  <2>1. P \in [n - 0..n -> Seq(Pair)] /\ P[n] = <<>>
    BY <1>1
  <2> HIDE DEF P
  <2>2. FromHere(l, n, P[n + 1], P[n + 2]) = <<>>
    BY <1>1 DEF FromHere
  <2>3. IsPairs(l, n - 0, n, P)
    BY <1>1, <2>1, <2>2 DEF IsPairs
  <2> QED BY <1>1, <2>1, <2>3
<1>3. \A k \in 0..(n - 3) - 1 : k \in S => k + 1 \in S
  <2> SUFFICES ASSUME NEW k \in 0..(n - 3) - 1, k \in S
               PROVE  k + 1 \in S
    OBVIOUS
  <2>1. PICK P \in [n - k..n -> Seq(Pair)] : IsPairs(l, n - k, n, P)
    OBVIOUS
  <2>2. PICK m : m = n - (k + 1)
    OBVIOUS
  <2>3. m \in 1..n - 1 /\ n - k = m + 1 /\ k + 1 \in 0..n - 3
    BY <1>1, <2>2
  <2>4. \E Q \in [m..n -> Seq(Pair)] : IsPairs(l, m, n, Q)
    BY <2>1, <2>3, PairsOneMore
  <2> QED BY <2>2, <2>3, <2>4
<1> HIDE DEF S
<1>4. \A k \in 0..n - 3 : k \in S
  BY <1>1, <1>2, <1>3, UpTo
<1>5. n - 3 \in S /\ n - (n - 3) = 3
  BY <1>1, <1>4
<1> QED BY <1>5 DEF S

LEMMA PairsDef ==
  ASSUME NEW l \in Seq(Token), Len(l) > 1
  PROVE  \A i \in 3..Len(l) + 2 :
           PairsFrom(l)[i] = FromHere(l, i, PairsFrom(l)[i + 1], PairsFrom(l)[i + 2])
<1>1. PICK P \in [3..Len(l) + 2 -> Seq(Pair)] : IsPairs(l, 3, Len(l) + 2, P)
  BY PairsExist
<1>2. P = [i \in 3..Len(l) + 2 |-> FromHere(l, i, P[i + 1], P[i + 2])]
  BY <1>1 DEF IsPairs
<1>3. PairsFrom(l) = CHOOSE Q : Q = [i \in 3..Len(l) + 2 |-> FromHere(l, i, Q[i + 1], Q[i + 2])]
  BY Zenon DEF PairsFrom, FromHere
<1>4. PairsFrom(l) = [i \in 3..Len(l) + 2 |-> FromHere(l, i, PairsFrom(l)[i + 1], PairsFrom(l)[i + 2])]
  BY <1>2, <1>3, Zenon
<1> QED BY <1>4, Zenon

LEMMA PairsType ==
  ASSUME NEW l \in Seq(Token), Len(l) > 1
  PROVE  \A i \in 3..Len(l) + 2 : PairsFrom(l)[i] \in Seq(Pair)
<1> DEFINE n == Len(l) + 2
           S == {k \in 0..n - 3 : \A i \in n - k..n : PairsFrom(l)[i] \in Seq(Pair)}
<1>1. Len(l) \in Nat /\ n \in Nat /\ n - 3 \in Nat
  OBVIOUS
<1>2. \A i \in 3..n : PairsFrom(l)[i] =
        FromHere(l, i, PairsFrom(l)[i + 1], PairsFrom(l)[i + 2])
  BY PairsDef
<1>3. 0 \in S
  <2>1. n \in 3..n /\ n \in 1..Len(l) + 2 /\ ~(n <= Len(l)) /\ ~(n < Len(l))
    BY <1>1
  <2>2. PairsFrom(l)[n] \in Seq(Pair)
    <3> HIDE DEF n
    <3> QED BY <1>2, <2>1, FromHereType
  <2> HIDE DEF n
  <2> QED BY <1>1, <2>2
<1>4. \A k \in 0..(n - 3) - 1 : k \in S => k + 1 \in S
  <2> SUFFICES ASSUME NEW k \in 0..(n - 3) - 1, k \in S
               PROVE  k + 1 \in S
    OBVIOUS
  <2>1. PICK m : m = n - (k + 1)
    OBVIOUS
  <2>2. m \in 3..n /\ m \in 1..Len(l) + 2 /\ n - k = m + 1 /\ k + 1 \in 0..n - 3
    BY <1>1, <2>1
  <2>3. \A i \in m + 1..n : PairsFrom(l)[i] \in Seq(Pair)
    BY <2>2
  <2>4. /\ m <= Len(l) => PairsFrom(l)[m + 1] \in Seq(Pair)
        /\ m < Len(l) => PairsFrom(l)[m + 2] \in Seq(Pair)
    BY <1>1, <2>2, <2>3
  <2>5. PairsFrom(l)[m] \in Seq(Pair)
    <3> HIDE DEF n
    <3> QED BY <1>2, <2>2, <2>4, FromHereType
  <2>6. \A i \in m..n : PairsFrom(l)[i] \in Seq(Pair)
    BY <1>1, <2>2, <2>3, <2>5
  <2> HIDE DEF n
  <2> QED BY <2>1, <2>2, <2>6
<1> HIDE DEF S
<1>5. n - 3 \in S
  <2>1. \A k \in 0..n - 3 : k \in S
    BY <1>1, <1>3, <1>4, UpTo
  <2> QED BY <1>1, <2>1
<1>6. n - (n - 3) = 3
  BY <1>1
<1> QED BY <1>5, <1>6 DEF S

-----------------------------------------------------------------------------
(* What pairs give to a register                                           *)

Named(p, r) == {i \in DOMAIN p : p[i].reg = Reg(r)}

LEMMA AfterLast ==
  ASSUME NEW p \in Seq(Pair), NEW r, NEW v
  PROVE  /\ Named(p, r) = {} => After(p, r, v) = v
         /\ \A m \in Named(p, r) : (\A j \in Named(p, r) : j <= m) => After(p, r, v) = p[m].num
         /\ Named(p, r) # {} => \E m \in Named(p, r) : \A j \in Named(p, r) : j <= m
         /\ Named(p, r) \subseteq 1..Len(p)
<1>1. Named(p, r) \subseteq 1..Len(p) /\ Len(p) \in Nat
  BY DEF Named
<1>2. Named(p, r) = {} => After(p, r, v) = v
  BY Zenon DEF After, Named
<1>3. Named(p, r) # {} => \E m \in Named(p, r) : \A j \in Named(p, r) : j <= m
  <2>1. Named(p, r) \in SUBSET (0..Len(p))
    BY <1>1
  <2> QED BY <1>1, <2>1, GreatestNat
<1>4. ASSUME NEW m \in Named(p, r), \A j \in Named(p, r) : j <= m
      PROVE  After(p, r, v) = p[m].num
  <2>1. PICK c : c = CHOOSE i \in Named(p, r) : \A j \in Named(p, r) : j <= i
    OBVIOUS
  <2>2. c \in Named(p, r) /\ \A j \in Named(p, r) : j <= c
    BY <1>4, <2>1, Zenon
  <2>3. c = m
    BY <1>1, <1>4, <2>2
  <2>4. After(p, r, v) = p[c].num
    BY <1>4, <2>1, Zenon DEF After, Named
  <2> QED BY <2>3, <2>4
<1> QED BY <1>1, <1>2, <1>3, <1>4

LEMMA AfterEmpty == ASSUME NEW r, NEW v PROVE After(<<>>, r, v) = v
<1>1. <<>> \in Seq(Pair) /\ Named(<<>>, r) = {}
  BY DEF Named
<1> QED BY <1>1, AfterLast

(* The first pair counts when no other names its register.                 *)
LEMMA AfterCons ==
  ASSUME NEW x \in Pair, NEW q \in Seq(Pair), NEW r, NEW v
  PROVE  After(<<x>> \o q, r, v) = After(q, r, IF x.reg = Reg(r) THEN x.num ELSE v)
<1> DEFINE p == <<x>> \o q
           w == IF x.reg = Reg(r) THEN x.num ELSE v
<1>1. /\ p \in Seq(Pair) /\ Len(p) = Len(q) + 1 /\ p[1] = x /\ Len(q) \in Nat
      /\ \A i \in 1..Len(q) : p[i + 1] = q[i]
      /\ DOMAIN p = 1..Len(q) + 1 /\ DOMAIN q = 1..Len(q)
  OBVIOUS
<1> HIDE DEF p, w
<1>2. /\ \A i \in Named(q, r) : i + 1 \in Named(p, r)
      /\ \A i \in Named(p, r) : i = 1 \/ i - 1 \in Named(q, r)
      /\ 1 \in Named(p, r) <=> x.reg = Reg(r)
  <2>1. \A i \in Named(q, r) : i + 1 \in Named(p, r)
    BY <1>1 DEF Named
  <2>2. 1 \in Named(p, r) <=> x.reg = Reg(r)
    BY <1>1 DEF Named
  <2>3. ASSUME NEW i \in Named(p, r), i # 1
        PROVE  i - 1 \in Named(q, r)
    <3>1. i \in 1..Len(q) + 1 /\ p[i].reg = Reg(r)
      BY <1>1 DEF Named
    <3>2. i - 1 \in 1..Len(q) /\ (i - 1) + 1 = i
      BY <1>1, <2>3, <3>1
    <3>3. p[i] = q[i - 1]
      BY <1>1, <3>2
    <3> QED BY <1>1, <3>1, <3>2, <3>3 DEF Named
  <2> QED BY <2>1, <2>2, <2>3
<1>3. CASE Named(q, r) # {}
  <2>1. PICK m \in Named(q, r) : \A j \in Named(q, r) : j <= m
    BY <1>3, AfterLast
  <2>2. m \in 1..Len(q) /\ Named(p, r) \subseteq 1..Len(p)
    BY <1>1, AfterLast
  <2>3. \A j \in Named(p, r) : j <= m + 1
    BY <1>1, <1>2, <2>1, <2>2
  <2>4. After(p, r, v) = p[m + 1].num
    BY <1>1, <1>2, <2>3, AfterLast
  <2>5. After(q, r, w) = q[m].num
    BY <2>1, AfterLast
  <2> QED BY <1>1, <2>2, <2>4, <2>5 DEF p, w
<1>4. CASE Named(q, r) = {}
  <2>1. After(q, r, w) = w
    BY <1>4, AfterLast
  <2>2. CASE x.reg = Reg(r)
    <3>1. 1 \in Named(p, r) /\ \A j \in Named(p, r) : j <= 1
      <4>1. \A j \in Named(p, r) : j = 1
        BY <1>2, <1>4
      <4> QED BY <1>2, <2>2, <4>1
    <3>2. After(p, r, v) = p[1].num
      BY <1>1, <3>1, AfterLast
    <3> QED BY <1>1, <2>1, <2>2, <3>2 DEF p, w
  <2>3. CASE x.reg # Reg(r)
    <3>1. Named(p, r) = {}
      BY <1>2, <1>4, <2>3
    <3>2. After(p, r, v) = v
      BY <1>1, <3>1, AfterLast
    <3> QED BY <2>1, <2>3, <3>2 DEF p, w
  <2> QED BY <2>2, <2>3
<1> QED BY <1>3, <1>4
-----------------------------------------------------------------------------
(* The registers after a line                                              *)

Meant(r) == IF IsSetReg(line) THEN Final(line, r) ELSE before[r]

(* In the loop of setcmd the registers are those of the pairs read so far: *)
(* the ones of the rest of the line give them their final values.          *)
SetInv ==
  /\ \A i \in DOMAIN line : WellFormed(line[i])
  /\ pc = "set reg" =>
       /\ IsSetReg(line)
       /\ \E i \in 3..Len(line) + 1 :
            /\ rest = SubSeq(line, i, Len(line))
            /\ \A r \in Name : Final(line, r) = After(PairsFrom(line)[i], r, regs[r])
  /\ pc = "set mem" => ~IsSetReg(line) /\ regs = before

(* The same of every line, with a negative value as the mistake that        *)
(* setcmd takes it for.                                                    *)
AsRead == At("treat") => regs = [r \in Name |-> Meant(r)]

MeaningInv == SetInv /\ AsRead

(* The handlers compare texts; no two tokens of a line share a keyword.    *)
LEMMA Keywords ==
  ASSUME NEW t, WellFormed(t)
  PROVE  /\ t.text = "set" => t = Word("set")
         /\ t.text = "mem" => t # Word("reg")
         /\ t.text = "reg" => t = Word("reg")
         /\ t.kind = "reg" => t.text \in Name /\ t = Reg(t.text)
         /\ t.kind # "reg" => \A r \in Name : t # Reg(r)
<1>1. "set" \notin Name /\ "reg" \notin Name
  BY ShellAssumption
<1>2. CASE t = Word(t.text)
  BY <1>2 DEF Word, Reg
<1>3. CASE t = Hex(t.num) \/ t = Dec(t.num)
  <2>1. /\ \A n : Hex(n).text = "" /\ Hex(n).kind = "hex"
        /\ \A n : Dec(n).text = "" /\ Dec(n).kind = "dec"
    BY DEF Hex, Dec
  <2>2. t.text = "" /\ t.kind \in {"hex", "dec"}
    BY <1>3, <2>1, Zenon
  <2>3. \A r \in Name : Reg(r).kind = "reg"
    BY DEF Reg
  <2>4. "" # "set" /\ "" # "mem" /\ "" # "reg"
    OBVIOUS
  <2>5. t.kind # "reg"
    BY <2>2
  <2> QED BY <2>2, <2>3, <2>4, <2>5, Zenon
<1>4. CASE t.text \in Name /\ (t = Reg(t.text) \/ t = REG(t.text))
  <2>1. t.kind \in {"reg", "REG"} /\ t.text # "set" /\ t.text # "reg"
    BY <1>1, <1>4 DEF Reg, REG
  <2>2. t # Word("reg")
    BY <2>1 DEF Word
  <2>3. t.kind = "reg" => t = Reg(t.text)
    BY <1>4 DEF REG
  <2>4. t.kind # "reg" => \A r \in Name : t # Reg(r)
    BY DEF Reg
  <2> QED BY <1>4, <2>1, <2>2, <2>3, <2>4
<1> QED BY <1>2, <1>3, <1>4, Zenon DEF WellFormed

LEMMA KeywordTexts == Word("set").text = "set" /\ Word("reg").text = "reg"
BY DEF Word

(* A line that no "set reg" begins leaves the registers as they were.      *)
LEMMA NotSetReg ==
  ASSUME IInv, At("execute"), Command # "set"
  PROVE  ~IsSetReg(line)
<1>1. rest = line /\ line \in Seq(Token)
  BY DEF IInv, LineInv, TypeOK, At
<1>2. line # <<>> => line[1].text = Command
  BY <1>1 DEF Command
<1>3. Len(line) > 1 => line # <<>>
  BY <1>1
<1> QED BY <1>2, <1>3, KeywordTexts DEF IsSetReg

LEMMA RegsMeant ==
  ASSUME TypeOK, \A r \in Name : regs[r] = Meant(r)
  PROVE  regs = [r \in Name |-> Meant(r)]
BY DEF TypeOK

LEMMA Unchanged ==
  ASSUME regs = before, ~IsSetReg(line)
  PROVE  \A r \in Name : regs[r] = Meant(r)
BY DEF Meant

(* The line answers with the registers it should leave, or dies.           *)
LEMMA AnswerMeaning ==
  ASSUME TypeOK, MeaningInv, UNCHANGED <<line, before, rest, regs>>,
         \/ status' # "running" /\ pc' = pc
         \/ pc' = "treat" /\ \A r \in Name : regs[r] = Meant(r)
  PROVE  MeaningInv'
<1>1. SetInv'
  <2>1. CASE pc' = pc
    BY <2>1 DEF MeaningInv, SetInv, Final
  <2>2. CASE pc' = "treat"
    BY <2>2 DEF MeaningInv, SetInv
  <2> QED BY <2>1, <2>2
<1>2. AsRead'
  <2>1. CASE status' # "running"
    BY <2>1 DEF AsRead, At
  <2>2. CASE pc' = "treat" /\ \A r \in Name : regs[r] = Meant(r)
    <3>1. regs = [r \in Name |-> Meant(r)]
      BY <2>2, RegsMeant
    <3>2. regs' = [r \in Name |-> IF IsSetReg(line) THEN Final(line, r) ELSE before[r]]
      BY <3>1 DEF Meant
    <3> QED BY <3>2 DEF AsRead, Meant, Final
  <2> QED BY <2>1, <2>2
<1> QED BY <1>1, <1>2 DEF MeaningInv

LEMMA HandlerMeaning ==
  ASSUME IInv, MeaningInv, NEW r, Answer(r), status = "running",
         \A q \in Name : regs[q] = Meant(q)
  PROVE  MeaningInv'
<1>1. /\ UNCHANGED <<line, before, rest, regs>>
      /\ (status' # "running" /\ pc' = pc) \/ pc' = "treat"
  BY DEF Answer, input, machine
<1>2. TypeOK
  BY DEF IInv
<1> QED BY <1>1, <1>2, AnswerMeaning

LEMMA OtherMeaning ==
  ASSUME IInv, MeaningInv, At("execute"), Command # "set", NEW r, Answer(r)
  PROVE  MeaningInv'
<1>1. status = "running" /\ regs = before
  BY DEF At, IInv, LineInv
<1>2. ~IsSetReg(line)
  BY NotSetReg
<1>3. \A q \in Name : regs[q] = Meant(q)
  BY <1>1, <1>2, Unchanged
<1> QED BY <1>1, <1>3, HandlerMeaning

LEMMA Answering ==
  ASSUME Blank \/ ExitCmd \/ UnknownCmd \/ HelpCmd \/ DebugCmd \/ ResumeCmd \/ StepCmd
         \/ RunCmd \/ TestCmd \/ DispCmd \/ DisasmCmd \/ BreakCmd \/ AssertCmd
  PROVE  At("execute") /\ \E r : Answer(r)
<1>1. At("execute")
  BY DEF Blank, ExitCmd, UnknownCmd, HelpCmd, DebugCmd, ResumeCmd, StepCmd, RunCmd, TestCmd,
         DispCmd, DisasmCmd, BreakCmd, AssertCmd, Called
<1>2. \E r : Answer(r)
  <2>1. CASE Blank \/ ExitCmd \/ UnknownCmd \/ HelpCmd
    BY <2>1 DEF Blank, ExitCmd, UnknownCmd, HelpCmd
  <2>2. CASE DebugCmd \/ ResumeCmd \/ StepCmd \/ RunCmd \/ DispCmd
    BY <2>2 DEF DebugCmd, ResumeCmd, StepCmd, RunCmd, DispCmd, AnswerIf
  <2>3. CASE TestCmd
    BY <2>3 DEF TestCmd
  <2>4. CASE DisasmCmd
    BY <2>4 DEF DisasmCmd, AnyAnswer
  <2>5. CASE BreakCmd
    BY <2>5 DEF BreakCmd
  <2>6. CASE AssertCmd
    BY <2>6 DEF AssertCmd, AssertReg, AnswerIf, AnyAnswer
  <2> QED BY <2>1, <2>2, <2>3, <2>4, <2>5, <2>6
<1> QED BY <1>1, <1>2

LEMMA AnsweringMeaning ==
  ASSUME IInv, MeaningInv,
         Blank \/ ExitCmd \/ UnknownCmd \/ HelpCmd \/ DebugCmd \/ ResumeCmd \/ StepCmd
         \/ RunCmd \/ TestCmd \/ DispCmd \/ DisasmCmd \/ BreakCmd \/ AssertCmd
  PROVE  MeaningInv'
<1>1. At("execute") /\ \E r : Answer(r)
  BY Answering
<1>2. Command # "set"
  <2>1. CASE UnknownCmd
    BY <2>1 DEF UnknownCmd, Commands
  <2>2. CASE ~UnknownCmd
    BY <2>2 DEF Blank, ExitCmd, HelpCmd, DebugCmd, ResumeCmd, StepCmd, RunCmd, TestCmd,
           DispCmd, DisasmCmd, BreakCmd, AssertCmd, Called
  <2> QED BY <2>1, <2>2
<1> QED BY <1>1, <1>2, OtherMeaning

LEMMA LoadMeaning ==
  ASSUME IInv, MeaningInv, LoadCmd
  PROVE  MeaningInv'
<1>1. At("execute") /\ Command = "load"
  BY DEF LoadCmd, Called
<1>2. ASSUME NEW r, Answer(r)
      PROVE  MeaningInv'
  BY <1>1, <1>2, OtherMeaning
<1>3. CASE /\ pc' = "treat"
           /\ UNCHANGED <<input, rest, regs>>
  <2>1. ~IsSetReg(line) /\ regs = before /\ TypeOK
    BY <1>1, NotSetReg DEF At, IInv, LineInv
  <2>2. \A q \in Name : regs[q] = Meant(q)
    BY <2>1, Unchanged
  <2> QED BY <1>3, <2>1, <2>2, AnswerMeaning DEF input
<1> QED BY <1>2, <1>3 DEF LoadCmd, AnswerIf

LEMMA SecondToken ==
  ASSUME NEW l \in Seq(Token), Len(l) > 1
  PROVE  Tail(l) # <<>> /\ Tail(l)[1] = l[2]
<1>1. l # <<>>
  <2>1. Len(l) # Len(<<>>)
    OBVIOUS
  <2> QED BY <2>1
<1>2. Tail(l) \in Seq(Token) /\ Len(Tail(l)) = Len(l) - 1 /\ Len(l) \in Nat
  BY <1>1, TailType
<1>3. \A k \in Nat : k > 1 => k - 1 # 0
  OBVIOUS
<1>4. Tail(l) # <<>>
  <2>1. Len(Tail(l)) # 0
    BY <1>2, <1>3
  <2>2. Len(<<>>) = 0
    OBVIOUS
  <2> QED BY <2>1, <2>2, Zenon
<1>5. Tail(l)[1] = l[2]
  BY <1>1
<1> QED BY <1>4, <1>5

(* setcmd enters its loop with every pair of the line to come.             *)
LEMMA SetCmdMeaning ==
  ASSUME IInv, MeaningInv, SetCmd
  PROVE  MeaningInv'
<1>1. /\ At("execute") /\ Command = "set" /\ status = "running"
      /\ rest = line /\ regs = before /\ line \in Seq(Token) /\ rest # <<>> /\ TypeOK
  BY DEF SetCmd, Called, At, Command, IInv, LineInv, TypeOK
<1>2. line[1] = Word("set") /\ Len(line) >= 1
  <2>1. 1 \in DOMAIN line /\ line[1].text = "set"
    BY <1>1 DEF Command
  <2>2. WellFormed(line[1])
    BY <2>1 DEF MeaningInv, SetInv
  <2> QED BY <1>1, <2>1, <2>2, Keywords
<1>3. Args # <<>> => /\ Len(line) > 1 /\ Args[1] = line[2] /\ WellFormed(line[2])
                     /\ Tail(Args) = SubSeq(line, 3, Len(line))
  <2> SUFFICES ASSUME Args # <<>>
               PROVE  /\ Len(line) > 1 /\ Args[1] = line[2] /\ WellFormed(line[2])
                      /\ Tail(Args) = SubSeq(line, 3, Len(line))
    OBVIOUS
  <2>1. Args = Tail(line)
    BY <1>1 DEF Args
  <2>2. Len(line) > 1 /\ Args[1] = line[2]
    BY <1>1, <2>1
  <2>3. 2 \in DOMAIN line
    BY <1>1, <2>2
  <2>4. Tail(Tail(line)) = SubSeq(line, 3, Len(line))
    BY <1>1, <2>2
  <2> QED BY <2>1, <2>2, <2>3, <2>4 DEF MeaningInv, SetInv
<1>4. CASE Args = <<>> \/ Args[1].text \notin {"reg", "mem"}
  <2>1. ~IsSetReg(line)
    <3>1. Args = Tail(line)
      BY <1>1 DEF Args
    <3>2. Len(line) > 1 => Args # <<>> /\ Args[1] = line[2]
      BY <1>1, <3>1, SecondToken
    <3> QED BY <1>4, <3>2, KeywordTexts DEF IsSetReg
  <2>2. Answer(ERR)
    BY <1>4 DEF SetCmd
  <2> QED BY <1>1, <2>1, <2>2, Unchanged, HandlerMeaning
<1>5. CASE Args # <<>> /\ Args[1].text \in {"reg", "mem"}
  <2>1. /\ pc' = (IF Args[1].text = "reg" THEN "set reg" ELSE "set mem")
        /\ rest' = Tail(Args)
        /\ line' = line /\ before' = before /\ regs' = regs
    BY <1>5 DEF SetCmd, input
  <2>2. CASE Args[1].text = "reg"
    <3>1. IsSetReg(line) /\ pc' = "set reg" /\ rest' = SubSeq(line, 3, Len(line))
      BY <1>2, <1>3, <1>5, <2>1, <2>2, Keywords DEF IsSetReg
    <3>2. 3 \in 3..Len(line) + 1
      BY <1>1, <1>3, <1>5
    <3>3. \A r \in Name : Final(line, r) = After(PairsFrom(line)[3], r, regs[r])
      BY <1>1 DEF Final
    <3>4. \E i \in 3..Len(line) + 1 :
            /\ rest' = SubSeq(line, i, Len(line))
            /\ \A r \in Name : Final(line, r) = After(PairsFrom(line)[i], r, regs[r])
      BY <3>1, <3>2, <3>3
    <3>5. SetInv'
      BY <2>1, <3>1, <3>4 DEF MeaningInv, SetInv, Final
    <3> QED BY <3>1, <3>5 DEF MeaningInv, AsRead, At
  <2>3. CASE Args[1].text = "mem"
    <3>1. ~IsSetReg(line) /\ pc' = "set mem"
      BY <1>3, <1>5, <2>1, <2>3, Keywords DEF IsSetReg
    <3>2. SetInv'
      BY <1>1, <2>1, <3>1 DEF MeaningInv, SetInv
    <3> QED BY <3>1, <3>2 DEF MeaningInv, AsRead, At
  <2> QED BY <1>5, <2>2, <2>3
<1> QED BY <1>4, <1>5

LEMMA SetMemMeaning ==
  ASSUME IInv, MeaningInv, pc = "set mem", SetDone \/ SetMemValue \/ SetMemError
  PROVE  MeaningInv'
<1>1. /\ status = "running" /\ ~IsSetReg(line) /\ regs = before
  BY DEF SetDone, SetMemValue, SetMemError, At, MeaningInv, SetInv
<1>2. \A q \in Name : regs[q] = Meant(q)
  BY <1>1, Unchanged
<1>3. ASSUME NEW r, Answer(r)
      PROVE  MeaningInv'
  BY <1>1, <1>2, <1>3, HandlerMeaning
<1>4. CASE pc' = pc /\ UNCHANGED <<line, before, regs>>
  BY <1>1, <1>4 DEF MeaningInv, SetInv, AsRead, At
<1> QED BY <1>3, <1>4 DEF SetDone, SetMemValue, SetMemError, input, machine

LEMMA EndOf ==
  ASSUME NEW l \in Seq(Token), Len(l) > 1, NEW i \in 3..Len(l) + 1,
         NEW s, s = SubSeq(l, i, Len(l))
  PROVE  /\ Len(s) = Len(l) - i + 1
         /\ \A j \in 1..Len(s) : s[j] = l[i + j - 1]
         /\ s # <<>> => Tail(s) = SubSeq(l, i + 1, Len(l)) /\ i + 1 \in 3..Len(l) + 1
         /\ Len(s) > 1 => /\ Tail(Tail(s)) = SubSeq(l, i + 2, Len(l))
                          /\ i + 2 \in 3..Len(l) + 1
<1>1. Len(l) \in Nat /\ i \in Nat
  OBVIOUS
<1>2. Len(s) = Len(l) - i + 1 /\ \A j \in 1..Len(s) : s[j] = l[i + j - 1]
  OBVIOUS
<1>3. s # <<>> => i <= Len(l)
  OBVIOUS
<1>4. s # <<>> => Tail(s) = SubSeq(l, i + 1, Len(l)) /\ i + 1 \in 3..Len(l) + 1
  BY <1>3
<1>5. ASSUME Len(s) > 1
      PROVE  /\ Tail(Tail(s)) = SubSeq(l, i + 2, Len(l))
             /\ i + 2 \in 3..Len(l) + 1
  <2>1. i + 1 <= Len(l) /\ s # <<>>
    <3>1. i + 1 <= Len(l)
      BY <1>1, <1>2, <1>5
    <3>2. Len(s) # Len(<<>>)
      BY <1>5
    <3> QED BY <3>1, <3>2
  <2>2. Tail(SubSeq(l, i + 1, Len(l))) = SubSeq(l, i + 2, Len(l))
    BY <1>1, <2>1
  <2> QED BY <1>1, <1>4, <2>1, <2>2
<1> QED BY <1>2, <1>4, <1>5

LEMMA PairsInside ==
  ASSUME NEW l \in Seq(Token), Len(l) > 1, NEW i \in 3..Len(l) + 1
  PROVE  PairsFrom(l)[i] = FromHere(l, i, PairsFrom(l)[i + 1], PairsFrom(l)[i + 2])
<1>1. i \in 3..Len(l) + 2
  OBVIOUS
<1> QED BY <1>1, PairsDef

(* One turn of the loop of "set reg", at the position i of the line.       *)
LEMMA TurnStart ==
  ASSUME IInv, MeaningInv, At("set reg")
  PROVE  \E i \in 3..Len(line) + 1 :
           /\ line \in Seq(Token) /\ IsSetReg(line) /\ rest = SubSeq(line, i, Len(line))
           /\ \A r \in Name : Final(line, r) = After(PairsFrom(line)[i], r, regs[r])
           /\ Len(rest) = Len(line) - i + 1
           /\ \A j \in 1..Len(rest) : rest[j] = line[i + j - 1]
           /\ PairsFrom(line)[i] = FromHere(line, i, PairsFrom(line)[i + 1], PairsFrom(line)[i + 2])
           /\ rest # <<>> => Tail(rest) = SubSeq(line, i + 1, Len(line)) /\ i + 1 \in 3..Len(line) + 1
           /\ Len(rest) > 1 => /\ Tail(Tail(rest)) = SubSeq(line, i + 2, Len(line))
                               /\ i + 2 \in 3..Len(line) + 1
<1>1. /\ line \in Seq(Token) /\ IsSetReg(line) /\ Len(line) > 1
  BY DEF MeaningInv, SetInv, IInv, TypeOK, At, IsSetReg
<1>2. PICK i \in 3..Len(line) + 1 :
        /\ rest = SubSeq(line, i, Len(line))
        /\ \A r \in Name : Final(line, r) = After(PairsFrom(line)[i], r, regs[r])
  BY DEF MeaningInv, SetInv, At
<1>3. PairsFrom(line)[i] = FromHere(line, i, PairsFrom(line)[i + 1], PairsFrom(line)[i + 2])
  BY <1>1, PairsInside
<1> QED BY <1>1, <1>2, <1>3, EndOf

(* A pair is applied: the registers before it and the pairs from it on     *)
(* give what the registers after it and the pairs that follow do.          *)
LEMMA WrittenMeaning ==
  ASSUME TypeOK, NEW t \in Token, WellFormed(t), NEW n \in Int, NEW q \in Seq(Pair), NEW r \in Name
  PROVE  After(<<[reg |-> t, num |-> n]>> \o q, r, regs[r]) = After(q, r, Written(t, n)[r])
<1> DEFINE x == [reg |-> t, num |-> n]
<1>1. x \in Pair /\ x.reg = t /\ x.num = n
  BY DEF Pair
<1> HIDE DEF x
<1>2. After(<<x>> \o q, r, regs[r]) = After(q, r, IF x.reg = Reg(r) THEN x.num ELSE regs[r])
  BY <1>1, AfterCons
<1>3. Written(t, n)[r] = IF t = Reg(r) THEN n ELSE regs[r]
  <2>1. DOMAIN regs = Name
    BY DEF TypeOK
  <2>2. CASE t.kind = "reg"
    <3>1. t.text \in Name /\ t = Reg(t.text)
      BY <2>2, Keywords
    <3>2. t = Reg(r) <=> t.text = r
      BY <3>1 DEF Reg
    <3>3. Written(t, n) = [regs EXCEPT ![t.text] = n]
      BY <2>2 DEF Written
    <3> QED BY <2>1, <3>1, <3>2, <3>3
  <2>3. CASE t.kind # "reg"
    <3>1. t # Reg(r)
      BY <2>3, Keywords
    <3> QED BY <2>3, <3>1 DEF Written
  <2> QED BY <2>2, <2>3
<1> QED BY <1>1, <1>2, <1>3 DEF x

LEMMA PairsTyped ==
  ASSUME NEW l \in Seq(Token), IsSetReg(l), NEW i \in 3..Len(l) + 1
  PROVE  PairsFrom(l)[i] \in Seq(Pair)
<1>1. Len(l) > 1 /\ i \in 3..Len(l) + 2
  BY DEF IsSetReg
<1> QED BY <1>1, PairsType

LEMMA LineTokens ==
  ASSUME SetInv, line \in Seq(Token), NEW i \in 1..Len(line)
  PROVE  WellFormed(line[i])
<1>1. i \in DOMAIN line
  OBVIOUS
<1> QED BY <1>1, Zenon DEF SetInv

LEMMA NoToken ==
  \A s \in Seq(Token) : (s = <<>> <=> Len(s) = 0) /\ (Len(s) > 1 => s # <<>>)
<1> SUFFICES ASSUME NEW s \in Seq(Token)
             PROVE  (s = <<>> <=> Len(s) = 0) /\ (Len(s) > 1 => s # <<>>)
  OBVIOUS
<1>1. Len(s) = 0 => s = <<>>
  OBVIOUS
<1>2. s = <<>> => Len(s) = 0
  OBVIOUS
<1> QED BY <1>1, <1>2

(* The first two tokens of the end of a line.                              *)
LEMMA EndTokens ==
  ASSUME NEW l \in Seq(Token), NEW i \in 3..Len(l) + 1,
         NEW s \in Seq(Token),
         Len(s) = Len(l) - i + 1, \A j \in 1..Len(s) : s[j] = l[i + j - 1]
  PROVE  /\ s = <<>> <=> i > Len(l)
         /\ s # <<>> => s[1] = l[i] /\ i \in 1..Len(l)
         /\ Len(s) > 1 <=> i < Len(l)
         /\ Len(s) > 1 => s[2] = l[i + 1] /\ i + 1 \in 1..Len(l)
<1>1. Len(l) \in Nat /\ i \in Nat
  OBVIOUS
<1>2. s = <<>> <=> i > Len(l)
  <2>1. s = <<>> <=> Len(s) = 0
    BY NoToken
  <2> QED BY <1>1, <2>1
<1>3. Len(s) > 1 <=> i < Len(l)
  BY <1>1
<1>4. ASSUME s # <<>>
      PROVE  s[1] = l[i] /\ i \in 1..Len(l)
  <2>1. i <= Len(l) /\ 1 \in 1..Len(s) /\ i + 1 - 1 = i
    BY <1>1, <1>2, <1>4
  <2>2. s[1] = l[i + 1 - 1]
    BY <2>1
  <2> QED BY <1>1, <2>1, <2>2
<1>5. ASSUME Len(s) > 1
      PROVE  s[2] = l[i + 1] /\ i + 1 \in 1..Len(l)
  <2>1. i < Len(l) /\ 2 \in 1..Len(s) /\ i + 2 - 1 = i + 1
    BY <1>1, <1>3, <1>5
  <2>2. s[2] = l[i + 2 - 1]
    BY <2>1
  <2> QED BY <1>1, <2>1, <2>2
<1> QED BY <1>2, <1>3, <1>4, <1>5

LEMMA SetRegMeaning ==
  ASSUME IInv, MeaningInv, pc = "set reg",
         SetDone \/ SetRegValue \/ SetRegFlag \/ SetRegError
  PROVE  MeaningInv'
<1>1. At("set reg") /\ status = "running" /\ TypeOK
  BY DEF SetDone, SetRegValue, SetRegFlag, SetRegError, At, IInv
<1>2. PICK i \in 3..Len(line) + 1 :
        /\ line \in Seq(Token) /\ IsSetReg(line) /\ rest = SubSeq(line, i, Len(line))
        /\ \A r \in Name : Final(line, r) = After(PairsFrom(line)[i], r, regs[r])
        /\ Len(rest) = Len(line) - i + 1
        /\ \A j \in 1..Len(rest) : rest[j] = line[i + j - 1]
        /\ PairsFrom(line)[i] = FromHere(line, i, PairsFrom(line)[i + 1], PairsFrom(line)[i + 2])
        /\ rest # <<>> => Tail(rest) = SubSeq(line, i + 1, Len(line)) /\ i + 1 \in 3..Len(line) + 1
        /\ Len(rest) > 1 => /\ Tail(Tail(rest)) = SubSeq(line, i + 2, Len(line))
                            /\ i + 2 \in 3..Len(line) + 1
  BY <1>1, TurnStart
<1>3. /\ rest = <<>> <=> i > Len(line)
      /\ rest # <<>> => rest[1] = line[i] /\ i \in 1..Len(line)
      /\ Len(rest) > 1 <=> i < Len(line)
      /\ Len(rest) > 1 => rest[2] = line[i + 1] /\ i + 1 \in 1..Len(line)
  <2>1. line \in Seq(Token) /\ rest \in Seq(Token)
    BY <1>1 DEF TypeOK
  <2>2. Len(rest) = Len(line) - i + 1 /\ \A j \in 1..Len(rest) : rest[j] = line[i + j - 1]
    BY <1>2
  <2> QED BY <2>1, <2>2, EndTokens
<1>4. ASSUME PairsFrom(line)[i] = <<>>, NEW r, Answer(r)
      PROVE  MeaningInv'
  <2>1. \A q \in Name : regs[q] = Meant(q)
    BY <1>2, <1>4, AfterEmpty DEF Meant
  <2> QED BY <1>1, <1>4, <2>1, HandlerMeaning
<1>5. ASSUME NEW k \in 3..Len(line) + 1, rest' = SubSeq(line, k, Len(line)),
             pc' = pc, line' = line, before' = before,
             \A r \in Name : Final(line, r) = After(PairsFrom(line)[k], r, regs'[r])
      PROVE  MeaningInv'
  <2>1. \E j \in 3..Len(line) + 1 :
          /\ rest' = SubSeq(line, j, Len(line))
          /\ \A r \in Name : Final(line, r) = After(PairsFrom(line)[j], r, regs'[r])
    BY <1>5
  <2>2. \A j \in DOMAIN line : WellFormed(line[j])
    BY DEF MeaningInv, SetInv
  <2>3. SetInv'
    BY <1>2, <1>5, <2>1, <2>2 DEF SetInv, Final
  <2> QED BY <1>5, <2>3 DEF MeaningInv, AsRead, At
<1>6. CASE SetDone
  <2>1. rest = <<>> /\ Answer(OK)
    BY <1>6 DEF SetDone
  <2>2. PairsFrom(line)[i] = <<>>
    BY <1>2, <1>3, <2>1, Zenon DEF FromHere
  <2> QED BY <1>4, <2>1, <2>2
<1>7. CASE SetRegError
  <2>1. /\ rest # <<>> /\ Type(rest[1]) # "STATEREG" /\ Answer(ERR)
        /\ ~(Type(rest[1]) = "REG" /\ Len(rest) > 1 /\ IsNumber(rest[2]))
    BY <1>7 DEF SetRegError
  <2>2. /\ Type(line[i]) # "STATEREG"
        /\ ~(i < Len(line) /\ Type(line[i]) = "REG" /\ IsNumber(line[i + 1]))
    BY <1>3, <2>1
  <2>3. PairsFrom(line)[i] = <<>>
    BY <1>2, <2>2, Zenon DEF FromHere
  <2> QED BY <1>4, <2>1, <2>3
<1>8. CASE SetRegFlag
  <2>1. /\ rest # <<>> /\ Type(rest[1]) = "STATEREG" /\ rest' = Tail(rest)
        /\ pc' = pc /\ line' = line /\ before' = before /\ regs' = regs
    BY <1>8 DEF SetRegFlag, input
  <2>2. PairsFrom(line)[i] = PairsFrom(line)[i + 1]
    <3>1. ~(i > Len(line)) /\ Type(line[i]) = "STATEREG"
      BY <1>3, <2>1
    <3> QED BY <1>2, <3>1, Zenon DEF FromHere
  <2> QED BY <1>2, <1>5, <2>1, <2>2
<1>9. CASE SetRegValue
  <2>1. /\ Len(rest) > 1 /\ Type(rest[1]) = "REG" /\ IsNumber(rest[2])
        /\ regs' = Written(rest[1], rest[2].num) /\ rest' = Tail(Tail(rest))
        /\ pc' = pc /\ line' = line /\ before' = before
    BY <1>9 DEF SetRegValue, input
  <2>2. rest # <<>>
    <3>1. rest \in Seq(Token)
      BY <1>1 DEF TypeOK
    <3> QED BY <2>1, <3>1, NoToken
  <2>3. /\ ~(i > Len(line)) /\ i < Len(line) /\ Type(line[i]) = "REG"
        /\ IsNumber(line[i + 1]) /\ Type(line[i]) # "STATEREG"
        /\ rest[1] = line[i] /\ rest[2] = line[i + 1]
        /\ i \in 1..Len(line) /\ i + 1 \in 1..Len(line)
    BY <1>3, <2>1, <2>2
  <2>4. PairsFrom(line)[i] =
          <<[reg |-> line[i], num |-> line[i + 1].num]>> \o PairsFrom(line)[i + 2]
    BY <1>2, <2>3, Zenon DEF FromHere
  <2>5. /\ line[i] \in Token /\ WellFormed(line[i]) /\ line[i + 1].num \in Int
    <3>1. line \in Seq(Token)
      BY <1>2
    <3>2. line[i] \in Token /\ line[i + 1] \in Token
      BY <2>3, <3>1, ElementType
    <3>3. WellFormed(line[i])
      BY <2>3, <3>1, LineTokens DEF MeaningInv
    <3> QED BY <3>2, <3>3 DEF Token
  <2>6. PairsFrom(line)[i + 2] \in Seq(Pair) /\ i + 2 \in 3..Len(line) + 1
    BY <1>2, <2>1, PairsTyped
  <2>7. ASSUME NEW r \in Name
        PROVE  Final(line, r) = After(PairsFrom(line)[i + 2], r, regs'[r])
    BY <1>1, <1>2, <2>1, <2>3, <2>4, <2>5, <2>6, WrittenMeaning
  <2>8. rest' = SubSeq(line, i + 2, Len(line))
    BY <1>2, <2>1
  <2> QED BY <1>5, <2>1, <2>6, <2>7, <2>8
<1> QED BY <1>6, <1>7, <1>8, <1>9

LEMMA InitMeaning == Init => MeaningInv
<1> SUFFICES ASSUME Init PROVE MeaningInv
  OBVIOUS
<1>1. line = <<>> /\ pc = "acquire"
  BY DEF Init
<1>2. \A i \in DOMAIN line : WellFormed(line[i])
  BY <1>1
<1> QED BY <1>1, <1>2 DEF MeaningInv, SetInv, AsRead, At

LEMMA AcquireMeaning ==
  ASSUME MeaningInv, AcquireLine \/ AcquireNothing \/ AcquireError
  PROVE  MeaningInv'
<1>1. pc' \in {"execute", "feof"}
  BY DEF AcquireLine, AcquireNothing, AcquireError
<1>2. \A i \in DOMAIN line' : WellFormed(line'[i])
  <2>1. CASE AcquireLine
    <3>1. line' \in Lines
      BY <2>1 DEF AcquireLine
    <3>2. \A l \in Lines : \A i \in DOMAIN l : WellFormed(l[i])
      BY ShellAssumption
    <3> QED BY <3>1, <3>2
  <2>2. CASE AcquireNothing \/ AcquireError
    <3>1. line' = line
      BY <2>2 DEF AcquireNothing, AcquireError
    <3> QED BY <3>1 DEF MeaningInv, SetInv
  <2> QED BY <2>1, <2>2
<1> QED BY <1>1, <1>2 DEF MeaningInv, SetInv, AsRead, At

LEMMA LoopEndMeaning ==
  ASSUME MeaningInv, Treat \/ Feof
  PROVE  MeaningInv'
<1>1. UNCHANGED <<line, before, rest, regs>>
  BY DEF Treat, Feof, input, machine
<1>2. pc \in {"treat", "feof"}
  BY DEF Treat, Feof, At
<1>3. pc' \in {"feof", "acquire"} \/ (pc' = pc /\ status' # "running")
  <2>1. CASE Treat
    BY <2>1 DEF Treat
  <2>2. CASE Feof
    BY <2>2 DEF Feof
  <2> QED BY <2>1, <2>2
<1> QED BY <1>1, <1>2, <1>3 DEF MeaningInv, SetInv, AsRead, At

LEMMA NextMeaning == IInv /\ MeaningInv /\ [Next]_vars => MeaningInv'
<1> SUFFICES ASSUME IInv, MeaningInv, [Next]_vars PROVE MeaningInv'
  OBVIOUS
<1>1. CASE UNCHANGED vars
  BY <1>1 DEF vars, MeaningInv, SetInv, AsRead, Final, Meant, At
<1>2. CASE AcquireLine \/ AcquireNothing \/ AcquireError
  BY <1>2, AcquireMeaning
<1>3. CASE \/ Blank \/ ExitCmd \/ UnknownCmd \/ HelpCmd \/ DebugCmd \/ ResumeCmd \/ StepCmd
           \/ RunCmd \/ TestCmd \/ DispCmd \/ DisasmCmd \/ BreakCmd \/ AssertCmd
  BY <1>3, AnsweringMeaning
<1>4. CASE LoadCmd \/ SetCmd
  BY <1>4, LoadMeaning, SetCmdMeaning
<1>5. CASE SetDone \/ SetMemValue \/ SetMemError \/ SetRegValue \/ SetRegFlag \/ SetRegError
  <2>1. CASE pc = "set mem"
    <3>1. SetDone \/ SetMemValue \/ SetMemError
      BY <1>5, <2>1 DEF SetRegValue, SetRegFlag, SetRegError, At
    <3> QED BY <2>1, <3>1, SetMemMeaning
  <2>2. CASE pc = "set reg"
    <3>1. SetDone \/ SetRegValue \/ SetRegFlag \/ SetRegError
      BY <1>5, <2>2 DEF SetMemValue, SetMemError, At
    <3> QED BY <2>2, <3>1, SetRegMeaning
  <2>3. pc \in {"set reg", "set mem"}
    BY <1>5 DEF SetDone, SetMemValue, SetMemError, SetRegValue, SetRegFlag, SetRegError, At
  <2> QED BY <2>1, <2>2, <2>3
<1>6. CASE Treat \/ Feof
  BY <1>6, LoopEndMeaning
<1> QED BY <1>1, <1>2, <1>3, <1>4, <1>5, <1>6 DEF Next, Over

(* setcmd leaves the registers that the pairs before the first mistake     *)
(* give, each applied once and in order, for lines of every length without *)
(* a negative value; every other command leaves them as they were.         *)
THEOREM SetsMeanIt == Spec => []SetMeaning
<1>1. Init => IInv /\ MeaningInv
  BY InitInv, InitMeaning
<1>2. IInv /\ MeaningInv /\ [Next]_vars => (IInv /\ MeaningInv)'
  BY Inductive, NextMeaning
<1>3. IInv /\ MeaningInv => SetMeaning
  BY DEF MeaningInv, AsRead, Meant, SetMeaning
<1> QED BY <1>1, <1>2, <1>3, PTL DEF Spec
-----------------------------------------------------------------------------
(* A script that is read to its end goes no further.                       *)
EndNotPassed == At("acquire") /\ mode = "SCRIPT" => ~eof

(* The steps of a turn of the main loop, from the last to the first.       *)
Stage(at) ==
  CASE at = "execute" -> 4 [] at \in {"set reg", "set mem"} -> 3 [] at = "treat" -> 2
    [] at = "feof" -> 1 [] OTHER -> 0

(* A step of a script that is not a read that fails ends it, reads from    *)
(* what is left of the file, comes closer to the end of the turn, or takes *)
(* tokens from the line.                                                   *)
Forward ==
  mode = "SCRIPT" /\ status = "running" /\ status' = "running" /\ ~AcquireError =>
    \/ ~eof /\ count' \in count..MaxLines /\ (count < count' \/ eof')
    \/ UNCHANGED <<eof, count>> /\ Stage(pc') < Stage(pc)
    \/ UNCHANGED <<eof, count, pc>> /\ Len(rest') < Len(rest)

LEMMA Stages ==
  /\ \A a \in {"execute", "set reg", "set mem"} : Stage("treat") < Stage(a)
  /\ Stage("set reg") < Stage("execute") /\ Stage("set mem") < Stage("execute")
  /\ Stage("feof") < Stage("treat") /\ Stage("acquire") < Stage("feof")
<1>1. /\ Stage("execute") = 4 /\ Stage("set reg") = 3 /\ Stage("set mem") = 3
      /\ Stage("treat") = 2 /\ Stage("feof") = 1 /\ Stage("acquire") = 0
  BY DEF Stage
<1>2. 2 < 3 /\ 2 < 4 /\ 3 < 4 /\ 1 < 2 /\ 0 < 1
  OBVIOUS
<1> QED BY <1>1, <1>2, Zenon

LEMMA AnswerForward ==
  ASSUME pc \in {"execute", "set reg", "set mem"}, status = "running", NEW r, Answer(r)
  PROVE  Forward
<1>1. UNCHANGED <<eof, count>>
  BY DEF Answer, input
<1>2. CASE status' = "crashed"
  BY <1>2 DEF Forward
<1>3. CASE pc' = "treat"
  <2>1. Stage(pc') < Stage(pc)
    BY <1>3, Stages, Zenon
  <2> QED BY <1>1, <2>1, Zenon DEF Forward
<1> QED BY <1>2, <1>3 DEF Answer

LEMMA Shorter ==
  ASSUME NEW s \in Seq(Token)
  PROVE  /\ s # <<>> => Len(Tail(s)) < Len(s)
         /\ Len(s) > 1 => Len(Tail(Tail(s))) < Len(s)
         /\ Len(s) > 2 => Len(SubSeq(s, 4, Len(s))) < Len(s)
OBVIOUS

LEMMA SetForward ==
  ASSUME TypeOK, SetDone \/ SetMemValue \/ SetMemError \/ SetRegValue \/ SetRegFlag \/ SetRegError
  PROVE  Forward
<1>1. pc \in {"set reg", "set mem"} /\ status = "running" /\ rest \in Seq(Token)
  BY DEF SetDone, SetMemValue, SetMemError, SetRegValue, SetRegFlag, SetRegError, At, TypeOK
<1>2. CASE \E r : Answer(r)
  BY <1>1, <1>2, AnswerForward
<1>3. CASE ~\E r : Answer(r)
  <2>1. UNCHANGED <<eof, count, pc>>
    BY <1>3 DEF SetDone, SetMemValue, SetMemError, SetRegValue, SetRegFlag, SetRegError, input
  <2>2. \/ Len(rest) > 1 /\ rest' = Tail(Tail(rest))
        \/ rest # <<>> /\ rest' = Tail(rest)
        \/ Len(rest) > 2 /\ rest' = SubSeq(rest, 4, Len(rest))
    BY <1>3 DEF SetDone, SetMemValue, SetMemError, SetRegValue, SetRegFlag, SetRegError, Triple
  <2>3. Len(rest') < Len(rest)
    BY <1>1, <2>2, Shorter, Zenon
  <2> QED BY <2>1, <2>3 DEF Forward
<1> QED BY <1>2, <1>3

LEMMA NextForward == TypeOK /\ EndNotPassed /\ [Next]_vars => [Forward]_vars
<1> SUFFICES ASSUME TypeOK, EndNotPassed, Next, vars' # vars PROVE Forward
  OBVIOUS
<1>1. CASE AcquireLine
  <2>1. ~eof /\ count < MaxLines /\ count' = count + 1
    BY <1>1, Zenon DEF AcquireLine
  <2>2. count \in 0..MaxLines
    BY Zenon DEF TypeOK
  <2>3. count' \in count..MaxLines /\ count < count'
    BY <2>1, <2>2, Limits
  <2> QED BY <2>1, <2>3, Zenon DEF Forward
<1>2. CASE AcquireNothing
  <2>1. At("acquire") /\ count' = count /\ (mode = "SCRIPT" => eof')
    BY <1>2 DEF AcquireNothing
  <2>2. count \in 0..MaxLines
    BY Zenon DEF TypeOK
  <2>3. count' \in count..MaxLines
    BY <2>1, <2>2, Limits
  <2> QED BY <2>1, <2>3, Zenon DEF Forward, EndNotPassed
<1>3. CASE \/ Blank \/ ExitCmd \/ UnknownCmd \/ HelpCmd \/ DebugCmd \/ ResumeCmd \/ StepCmd
           \/ RunCmd \/ TestCmd \/ DispCmd \/ DisasmCmd \/ BreakCmd \/ AssertCmd
  BY <1>3, Answering, AnswerForward DEF At
<1>4. CASE LoadCmd \/ SetCmd
  <2>1. pc = "execute" /\ status = "running"
    BY <1>4 DEF LoadCmd, SetCmd, Called, At
  <2>2. CASE \E r : Answer(r)
    BY <2>1, <2>2, AnswerForward
  <2>3. CASE ~\E r : Answer(r)
    <3>1. pc' \in {"treat", "set reg", "set mem"} /\ UNCHANGED <<eof, count>>
      BY <1>4, <2>3 DEF LoadCmd, SetCmd, AnswerIf, input
    <3>2. Stage(pc') < Stage(pc)
      BY <2>1, <3>1, Stages, Zenon
    <3> QED BY <3>1, <3>2, Zenon DEF Forward
  <2> QED BY <2>2, <2>3
<1>5. CASE SetDone \/ SetMemValue \/ SetMemError \/ SetRegValue \/ SetRegFlag \/ SetRegError
  BY <1>5, SetForward
<1>6. CASE Treat \/ Feof
  <2>1. /\ UNCHANGED <<eof, count>>
        /\ \/ status' # "running"
           \/ pc = "treat" /\ pc' = "feof"
           \/ pc = "feof" /\ pc' = "acquire"
    BY <1>6 DEF Treat, Feof, At, input
  <2>2. status' = "running" => Stage(pc') < Stage(pc)
    BY <2>1, Stages, Zenon
  <2> QED BY <2>1, <2>2, Zenon DEF Forward
<1>7. CASE AcquireError
  BY <1>7 DEF Forward
<1> QED BY <1>1, <1>2, <1>3, <1>4, <1>5, <1>6, <1>7 DEF Next, Over

LEMMA NextEnd == TypeOK /\ EndNotPassed /\ [Next]_vars => EndNotPassed'
<1> SUFFICES ASSUME TypeOK, EndNotPassed, [Next]_vars, At("acquire")', mode' = "SCRIPT"
             PROVE  ~eof'
  BY DEF EndNotPassed
<1>1. status' = "running" /\ pc' = "acquire"
  BY DEF At
<1>2. \A r : ~(pc = "execute" /\ Answer(r)) /\ ~(pc \in {"set reg", "set mem"} /\ Answer(r))
  BY <1>1 DEF Answer
<1>3. CASE Feof
  BY <1>1, <1>3 DEF Feof, input
<1>4. CASE AcquireLine \/ AcquireNothing \/ AcquireError \/ Treat
  BY <1>1, <1>4 DEF AcquireLine, AcquireNothing, AcquireError, Treat, At
<1>5. CASE \/ Blank \/ ExitCmd \/ UnknownCmd \/ HelpCmd \/ DebugCmd \/ ResumeCmd \/ StepCmd
           \/ RunCmd \/ TestCmd \/ DispCmd \/ DisasmCmd \/ BreakCmd \/ AssertCmd
  BY <1>2, <1>5, Answering DEF At
<1>6. CASE LoadCmd \/ SetCmd
  BY <1>1, <1>2, <1>6 DEF LoadCmd, SetCmd, AnswerIf, Called, At
<1>7. CASE SetDone \/ SetMemValue \/ SetMemError \/ SetRegValue \/ SetRegFlag \/ SetRegError
  BY <1>1, <1>2, <1>7 DEF SetDone, SetMemValue, SetMemError, SetRegValue, SetRegFlag, SetRegError, At
<1>8. CASE UNCHANGED vars
  BY <1>8 DEF vars, EndNotPassed, At
<1> QED BY <1>3, <1>4, <1>5, <1>6, <1>7, <1>8 DEF Next, Over

(* A script cannot go on for ever unless its file fails to be read for     *)
(* ever: every step of it but AcquireError leaves less of the file, of the *)
(* turn of the main loop or of the line (main, acquire_line and the loops  *)
(* of setcmd); after its end nothing is read.                              *)
THEOREM ScriptsAdvance == Spec => [][Forward]_vars
<1>1. Init => IInv /\ EndNotPassed
  BY InitInv DEF Init, EndNotPassed
<1>2. IInv /\ EndNotPassed /\ [Next]_vars => (IInv /\ EndNotPassed)'
  <2>1. IInv => TypeOK
    BY DEF IInv
  <2> QED BY <2>1, Inductive, NextEnd
<1>3. IInv /\ EndNotPassed /\ [Next]_vars => [Forward]_vars
  <2>1. IInv => TypeOK
    BY DEF IInv
  <2> QED BY <2>1, NextForward
<1> QED BY <1>1, <1>2, <1>3, PTL DEF Spec
=============================================================================
