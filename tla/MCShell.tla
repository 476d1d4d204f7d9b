------------------------------- MODULE MCShell ------------------------------
(* Shell with two registers, two flags and the lines that tell its cases   *)
(* apart.                                                                  *)
EXTENDS Shell

W(w) == Word(w)

MCLines == {
  <<>>,
  <<W("#")>>,
  <<W("exit"), W("toto")>>,
  <<W("bloub")>>,
  <<W("help")>>, <<W("debug")>>, <<W("resume"), W("toto")>>,
  <<W("step"), W("into")>>, <<W("run"), Hex(2)>>,
  <<W("test"), Hex(1), Hex(2)>>, <<W("test"), Hex(1), Hex(7)>>, <<W("test"), Dec(1)>>,
  <<W("load"), W("prog")>>, <<W("load"), W("prog"), Hex(2)>>,
  <<W("disp"), W("mem"), W("map")>>, <<W("disp"), W("reg"), Reg("r1"), REG("pc")>>,
  <<W("disasm"), Hex(2), W(":"), Hex(4)>>, <<W("disasm"), Hex(2), W("+"), Dec(1)>>,
  <<W("break"), W("add"), Hex(2)>>, <<W("break"), W("del")>>, <<W("break"), W("list")>>,
  <<W("set"), W("reg")>>,
  <<W("set"), W("mem")>>,
  <<W("set"), W("reg"), Reg("r1"), Dec(3)>>,
  <<W("set"), W("reg"), Reg("r1"), Hex(7), Reg("pc"), Dec(1), Reg("r1"), Dec(0)>>,
  <<W("set"), W("reg"), Reg("r1"), Dec(-1)>>,
  <<W("set"), W("reg"), Reg("pc"), Dec(2), W("apsr"), Reg("r1"), Dec(9)>>,
  <<W("set"), W("reg"), W("apsr"), REG("r1"), Hex(2), Reg("pc"), Hex(8)>>,
  <<W("set"), W("mem"), Hex(6), W("byte"), Hex(3), Hex(2), W("word"), Dec(7)>>,
  <<W("set"), W("mem"), W("byte"), Hex(6), Dec(1)>>,
  <<W("assert"), W("reg"), Reg("r1"), Dec(3)>>,
  <<W("assert"), W("reg"), Reg("pc"), Hex(3)>>,
  <<W("assert"), W("reg"), Reg("r1"), W("toto")>>,
  <<W("assert"), W("reg"), REG("r1"), Dec(0)>>,
  <<W("assert"), W("byte"), Hex(6), Hex(3)>>
}
=============================================================================
