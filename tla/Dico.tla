------------------------------- MODULE Dico ---------------------------------
(***************************************************************************)
(* The rows of Dico16.txt and of Dico32.txt that init_dico16 and           *)
(* init_dico32 load: SIZE16 = 27, all of the first file, and SIZE32 = 26,  *)
(* all of the second but its last line, B.T3.  The numbers are those of    *)
(* the files, misprints included: 6-8, 1-16, 26 alone, a row twice.        *)
(***************************************************************************)
EXTENDS Integers

(* The bits of a halfword, and of two of them.                             *)
H(n) == {i \in 0..15 : (n \div 2^i) % 2 = 1}
W(hi, lo) == H(lo) \union {i + 16 : i \in H(hi)}

R(id, mnemo, sig, mask, ops) ==
  [id |-> id, mnemo |-> mnemo, sig |-> sig, mask |-> mask, ops |-> ops]

Op(type, champop) == [type |-> type, champop |-> champop]
Reg(hi, lo)  == Op("RGSTR", <<<<hi, lo>>>>)
Imm(hi, lo)  == Op("IMMEDIATE32", <<<<hi, lo>>>>)
Imm4(hi, lo) == Op("IMMEDIATE32P00", <<<<hi, lo>>>>)
Sgn(hi, lo)  == Op("SGNEXTP0", <<<<hi, lo>>>>)
List(hi, lo) == Op("REGLIST", <<<<hi, lo>>>>)
None(hi, lo) == Op("NONE", <<<<hi, lo>>>>)
ItB(hi, lo)  == Op("ITBLCK", <<<<hi, lo>>>>)

(* i:imm3:imm8, imm4:i:imm3:imm8 and imm3:imm2.  The second one, written   *)
(* 19-16:26:14-12:7-0, is longer than the 15 characters of a champop: the  *)
(* 0 of the next one takes the place of its end.                           *)
Imm12(type) == Op(type, <<<<26>>, <<14, 12>>, <<7, 0>>>>)
Imm16 == Op("IMMEDIATE32", <<<<19, 16>>, <<26>>, <<14, 12>>, <<0>>>>)
Shft5 == Op("DECIMMSHFT", <<<<14, 12>>, <<7, 6>>>>)
Offset21 == Op("SGNEXT_B", <<<<25, 16>>, <<10, 0>>>>)

Rows16 == <<
  R("MOV.REG.T2", "MOV", H(\h0000), H(\hFFC0), <<Reg(2, 0), Reg(5, 3)>>),
  R("MUL.T1", "MUL", H(\h4340), H(\hFFC0), <<Reg(2, 0), Reg(5, 3)>>),
  R("CMP.REG.T1", "CMP", H(\h4280), H(\hFFC0), <<Reg(2, 0), Reg(5, 3)>>),
  R("BX", "BX", H(\h4700), H(\hFF80), <<Reg(6, 3)>>),
  R("SVC.T1", "SVC", H(\hDF00), H(\hFF00), <<Imm(7, 0)>>),
  R("ADD.REG.T2", "ADD", H(\h4400), H(\hFF00), <<Reg(2, 0), Reg(6, 3)>>),
  R("CMP.REG.T2", "CMP", H(\h4500), H(\hFF00), <<Reg(2, 0), Reg(6, 3)>>),
  R("IT.T1", "IT", H(\hBF00), H(\hFF00), <<ItB(7, 4)>>),
  R("MOV.REG.T1", "MOV", H(\h4600), H(\hFF00), <<Reg(2, 0), Reg(6, 3)>>),
  R("ADD.REG.T1", "ADD", H(\h1C00), H(\hFE01), <<Reg(2, 0), Reg(5, 3), Reg(8, 6)>>),
  R("PUSH.T1", "PUSH", H(\hB400), H(\hFE00), <<List(7, 0)>>),
  R("POP.T1", "POP", H(\hBC00), H(\hFE00), <<List(7, 0)>>),
  R("ADD.IMM.T1", "ADD", H(\h1C00), H(\hFE00), <<Reg(2, 0), Reg(5, 3), Imm(6, 8)>>),
  R("STR.REG.T1", "STR", H(\h5000), H(\hFE00), <<Reg(2, 0), Reg(5, 3), Reg(8, 6)>>),
  R("SUB.IMM.T1", "SUB", H(\h1E00), H(\hFE00), <<Reg(2, 0), Reg(5, 3), Imm(8, 6)>>),
  R("SUB.REG.T1", "SUB", H(\h1A00), H(\hFE00), <<Reg(2, 0), Reg(5, 3), Reg(8, 6)>>),
  R("ADD.IMM.T2", "ADD", H(\h3000), H(\hF800), <<Reg(10, 8), Imm(7, 0)>>),
  R("B.T2", "B", H(\hE000), H(\hF800), <<Sgn(10, 0)>>),
  R("CMP.IMM.T1", "CMP", H(\h2800), H(\hF800), <<Reg(10, 8), Imm(7, 0)>>),
  R("LDR.IMM.T1", "LDR", H(\h6800), H(\hF800), <<Reg(2, 0), Reg(5, 3), Imm4(10, 6)>>),
  R("LDR.IMM.T2", "LDR", H(\h9800), H(\hF800), <<Reg(10, 8), Imm4(7, 0)>>),
  R("LDR.LIT.T1", "LDR", H(\h4800), H(\hF800), <<Reg(10, 8), Imm(7, 0)>>),
  R("MOV.IMM.T1", "MOV", H(\h2000), H(\hF800), <<Reg(10, 8), Imm(7, 0)>>),
  R("STR.IMM.T1", "STR", H(\h6000), H(\hF800), <<Reg(2, 0), Reg(5, 3), Imm4(10, 6)>>),
  R("STR.IMM.T2", "STR", H(\h9000), H(\hF800), <<Reg(10, 8), Imm4(7, 0)>>),
  R("SUB.IMM.T2", "SUB", H(\h3800), H(\hF800), <<Reg(10, 8), Imm(7, 0)>>),
  R("B.T1", "B", H(\hD000), H(\hF000), <<Sgn(7, 0)>>)>>

Rows32 == <<
  R("POP.T3", "POP", W(\hF85D, \h0B04), W(\hFFFF, \h0FFF), <<Reg(15, 12)>>),
  R("PUSH.T3", "PUSH", W(\hF84D, \h0D00), W(\hFFFF, \h0FFF), <<Reg(15, 12)>>),
  R("PUSH.T2", "PUSH", W(\hE92D, \h0000), W(\hFFFF, \h0000), <<List(12, 0)>>),
  R("POP.T2", "POP", W(\hE8BD, \h0000), W(\hFFFF, \h0000), <<List(12, 0)>>),
  R("PUSH.T2", "PUSH", W(\hE92D, \h0000), W(\hFFFF, \h0000), <<List(12, 0)>>),
  R("MOV.REG.T3", "MOV", W(\hEA4F, \h0000), W(\hFFEF, \h70F0), <<Reg(11, 8), Reg(3, 0)>>),
  R("LDR.LIT.T2", "LDR", W(\hF85F, \h0000), W(\hFF7F, \h0000), <<Reg(15, 12), Imm4(11, 0)>>),
  R("MOV.IMM.T2", "MOV", W(\hF04F, \h0000), W(\hFBEF, \h8000),
    <<Reg(11, 8), Imm12("THEXPIMM_C")>>),
  R("STR.REG.T2", "STR", W(\hF840, \h0000), W(\hFFF0, \h0FC0),
    <<Reg(15, 12), Reg(19, 16), Reg(3, 0), Imm(5, 4)>>),
  R("MOV.IMM.T3", "MOV", W(\hF240, \h0000), W(\hFBF0, \h8000),
    <<Reg(11, 8), Imm16>>),
  R("MOVT.T1", "MOVT", W(\hF2C0, \h0000), W(\hFBF0, \h8000),
    <<Reg(11, 8), Imm16>>),
  R("CMP.IMM.T2", "CMP", W(\hF1B0, \h0F00), W(\hFBF0, \h8F00),
    <<Reg(19, 16), Imm12("THEXPIMM")>>),
  R("MUL.T2", "MUL", W(\hFB00, \hF000), W(\hFFF0, \hF0F0), <<Reg(11, 8), Reg(19, 16), Reg(3, 0)>>),
  R("STR.IMM.T3", "STR", W(\hF8C0, \h0000), W(\hFFF0, \h0000),
    <<Reg(15, 12), Reg(19, 16), Imm(11, 0)>>),
  R("STR.IMM.T4", "STR", W(\hF840, \h0800), W(\hFFF0, \h0800),
    <<None(15, 12), None(19, 16), None(7, 0)>>),
  R("CMP.REG.T3", "CMP", W(\hEBB0, \h0F00), W(\hFFF0, \h0F00),
    <<Reg(19, 16), Reg(3, 0), Shft5>>),
  R("LDR.T3", "LDR", W(\hF8D0, \h0000), W(\hFFF0, \h0000),
    <<Reg(15, 12), Reg(19, 16), Imm(11, 0)>>),
  R("LDR.T4", "LDR", W(\hF850, \h0800), W(\hFFF0, \h0000),
    <<Reg(15, 12), Reg(19, 16), Imm(7, 0)>>),
  R("SUB.IMM.T3", "SUB", W(\hF1A0, \h0000), W(\hFBE0, \h8000),
    <<Reg(11, 8), Reg(19, 16), Imm12("THEXPIMM")>>),
  R("SUB.IMM.T4", "SUB", W(\hF2A0, \h0000), W(\hFBF0, \h8000),
    <<Reg(11, 8), Reg(1, 16), Imm12("IMMEDIATE32")>>),
  R("SUB.REG.T2", "SUB", W(\hEBA0, \h0000), W(\hFFE0, \h0000),
    <<Reg(11, 8), Reg(19, 16), Reg(3, 0), Shft5>>),
  R("ADD.IMM.T3", "ADD", W(\hF100, \h0000), W(\hFBE0, \h8000),
    <<Reg(11, 8), Reg(19, 16), Imm12("THEXPIMM")>>),
  R("ADD.IMM.T4", "ADD", W(\hF200, \h0000), W(\hFBF0, \h8000),
    <<Reg(11, 8), Reg(19, 16), Imm12("IMMEDIATE32")>>),
  R("ADD.REG.T3", "ADD", W(\hEB00, \h0000), W(\hFFE0, \h0000),
    <<Reg(11, 8), Reg(19, 16), Reg(3, 0), Shft5>>),
  R("BL.T1", "BL", W(\hF000, \hD000), W(\hF800, \hD000),
    <<Offset21>>),
  R("B.T4", "B", W(\hF000, \h9000), W(\hF800, \hD000),
    <<Offset21>>)>>
=============================================================================
