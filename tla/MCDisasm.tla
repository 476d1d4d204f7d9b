------------------------------ MODULE MCDisasm ------------------------------
(***************************************************************************)
(* A small instance of Disasm, with the rows of the real dictionaries.     *)
(***************************************************************************)
EXTENDS Disasm, Dico

(* The bytes of a 16-bit and of a 32-bit instruction, as they are stored.  *)
I16(n) == <<H(n % 256), H(n \div 256)>>
I32(hi, lo) == I16(hi) \o I16(lo)

MCTexts ==
  {\* MOV, BNE, BEQ: 2 operands, then 1
   I16(\h2001) \o I16(\hD1FE) \o I16(\hD0FC),
   \* POP.T3, ADD (4 operands), BX, zero, MOV
   I32(\hF85D, \h0B04) \o I32(\hEB00, \h0001) \o I16(\h4770) \o I16(0) \o I16(\h2001),
   \* ITE written IT, ITT, IT with bit 3 unlike bit 4
   I16(\hBF0C) \o I16(\hBF04) \o I16(\hBF08),
   \* no row (AND), and a row before and after it
   I16(\h4001) \o I16(\h2001),
   I16(\hD3FE) \o I16(\h4001) \o I16(\h2001),
   \* a byte alone, and half a PUSH at the end
   I16(\h2001) \o <<H(\h70)>>,
   I16(\h4348) \o I16(\hE92D),
   \* MOV.IMM.T2 with an immediate that has no expansion
   I16(\h4770) \o I32(\hF04F, \h1000),
   \* LDR [#4], B backwards, POP; LSR #32, ASR and RRX; BL back, LDR, BL on
   I16(\h6849) \o I16(\hE7FD) \o I16(\hBC83),
   I32(\hEBB1, \h0F12) \o I32(\hEBB1, \h1FA2) \o I32(\hEBA1, \h0032),
   I32(\hF7FF, \hFFFE) \o I32(\hF8DF, \h1004) \o I32(\hF000, \hD000),
   \* MOV.IMM.T3 and SUB.IMM.T4, misprinted in the dictionary; ROR #1
   I32(\hF240, \h1001) \o I32(\hF2A1, \h0102) \o I32(\hEBB1, \h0F72),
   <<>>}

(* After the end: a zero, the first byte of a 32-bit instruction, another. *)
MCBeyond == {{}, H(\hF0), H(\h47)}

MCAddresses == (Base - 2..Base + 14) \ {Base - 1, Base + 3, Base + 5, Base + 7, Base + 9, Base + 11, Base + 13}
=============================================================================
