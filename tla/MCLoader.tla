------------------------------ MODULE MCLoader ------------------------------
(***************************************************************************)
(* A small instance of Loader: one file of each way to be loaded.          *)
(***************************************************************************)
EXTENDS Loader

Names == {".text", ".rodata", ".data", ".bss", ".shstrtab", ".symtab",
          ".strtab", ".data.rel", ".text.unlikely"}

MCStarts == {<<n, n>> : n \in Names}
  \union {<<".data.rel", ".data">>, <<".text.unlikely", ".text">>}

Plain == [type |-> "plain", known |-> TRUE]
OfSection == [type |-> "section", known |-> TRUE]

Section(n) ==
  [name |-> n, whole |-> TRUE,
   syms |-> IF n = ".symtab" THEN {Plain, OfSection} ELSE {}]

Elf(names) ==
  [kind |-> "elf", class |-> 32, ehdr |-> TRUE, names |-> "good",
   headers |-> [i \in 1..Len(names) |-> Section(names[i])], cut |-> Len(names)]

Names3 == <<".shstrtab", ".symtab", ".strtab">>
Complete == Elf(<<".text", ".data", ".bss", ".rodata">> \o Names3)
NoBss    == Elf(<<".text", ".data", ".rodata">> \o Names3)
NoRodata == Elf(<<".text", ".data", ".bss">> \o Names3)
TextOnly == Elf(<<".text", ".shstrtab">>)
NoCode   == Elf(Names3)
Misled   == Elf(<<".text.unlikely", ".data.rel", ".text", ".data">> \o Names3)
NoNames  == Elf(<<".text", ".symtab", ".shstrtab">>)

Symbols(f, s) ==
  [f EXCEPT !.headers = [i \in 1..Len(f.headers) |->
     IF f.headers[i].name = ".symtab"
     THEN [f.headers[i] EXCEPT !.syms = s] ELSE f.headers[i]]]

MCFiles ==
  {Complete, NoBss, NoRodata, TextOnly, NoCode, Misled, NoNames,
   [Complete EXCEPT !.kind = "missing"],
   [Complete EXCEPT !.kind = "alien"],
   [TextOnly EXCEPT !.class = 64],
   [Complete EXCEPT !.class = 0, !.ehdr = FALSE],
   [Complete EXCEPT !.names = "no content"],
   [TextOnly EXCEPT !.names = "undefined"],
   [Complete EXCEPT !.cut = 4],
   [Complete EXCEPT !.headers[2].whole = FALSE],
   Symbols(Complete, {[type |-> "section", known |-> FALSE]}),
   Symbols(Complete, {[type |-> "strange", known |-> FALSE]})}
=============================================================================
