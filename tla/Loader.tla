------------------------------- MODULE Loader -------------------------------
(***************************************************************************)
(* The command "load": _loadcmd (commandes.c) with the functions of elf.c, *)
(* syms.c and section.c that it calls, as a protocol over resources: the   *)
(* open file, the symbol and section tables, the blocks that reading a     *)
(* section allocates, the segments and their contents.  What a segment     *)
(* holds once loaded is the business of Memory.                            *)
(*                                                                         *)
(* A file is what its reads give: the same file gives the same answers to  *)
(* all of them.  Allocation does not fail.  Using a pointer that was       *)
(* released or never set is undefined: it sets ub, and the process may die *)
(* at any later step.                                                      *)
(***************************************************************************)
EXTENDS Integers, Sequences, FiniteSets

CONSTANTS
  Files,      \* the files considered
  Starts,     \* <<h, n>>: the name h of a section starts with the name n
  MaxLoads,   \* bound on the number of loads of a session
  NULL

(* The sections that _loadcmd looks for, in its order.                     *)
Wanted == <<".text", ".rodata", ".data", ".bss">>

Tables == {".shstrtab", ".symtab", ".strtab"}

Slot == 0..4
PLACESTHEAP == 4

(* A symbol: what its type says ("strange" is a type the switch does not   *)
(* know) and whether its section index is one of the file.                 *)
Symbol == [type : {"plain", "section", "strange"}, known : BOOLEAN]

(* A section header: its name, whether all its content can be read, and    *)
(* the symbols found when it is taken for a symbol table.                  *)
IsHeader(h) ==
  /\ DOMAIN h = {"name", "whole", "syms"}
  /\ h.whole \in BOOLEAN
  /\ h.syms \in SUBSET Symbol

(* kind: whether it opens, is long enough for a header, is an ELF file;    *)
(* class: EI_CLASS; ehdr: its header can be read; names: the state of the  *)
(* table of section names; headers: e_shnum headers, of which only the     *)
(* first cut can be read.                                                  *)
IsFile(f) ==
  /\ DOMAIN f = {"kind", "class", "ehdr", "names", "headers", "cut"}
  /\ f.kind \in {"missing", "short", "alien", "elf"}
  /\ f.class \in {0, 32, 64}
  /\ f.ehdr \in BOOLEAN
  /\ f.class = 0 => ~f.ehdr
  /\ f.class = 32 => f.ehdr
  /\ f.names \in {"good", "undefined", "no header", "no content"}
  /\ f.cut \in Nat
  /\ f.headers \in Seq({f.headers[i] : i \in 1..Len(f.headers)})
  /\ \A i \in 1..Len(f.headers) : IsHeader(f.headers[i])

ASSUME FilesAssumption ==
  /\ \A f \in Files : IsFile(f)
  /\ \A f \in Files : \A i \in 1..Len(f.headers) :
       <<f.headers[i].name, f.headers[i].name>> \in Starts
  /\ MaxLoads \in Nat
  /\ NULL \notin Files

(* The kinds of blocks.  "symtab" and "scntab" stand for a table with the  *)
(* names it holds.                                                         *)
Temporary == {"file", "symtab", "scntab", "ehdr", "sstab"}
Kind == Temporary \union {"map", "segment", "content"}

VARIABLES
  pc,       \* the next step of _loadcmd, or "idle"
  file,     \* the file being loaded, or the last one
  live,     \* how many blocks of each kind are allocated
  symtab,   \* the local symtab: "unset", "live" or "dangling"
  scntab,   \* the local section_table
  mapped,   \* inter->memory is not null
  slots,    \* the segment in each slot, NULL if none: the section it is for
            \* and the one its content comes from (NULL: a ghost)
  nseg,     \* nsegments
  ret,      \* the value returned by the last load
  up,       \* the emulator is running
  ub,       \* a pointer released or never set was released
  count,    \* the number of loads so far
  before,   \* history: the blocks allocated when the load began
  loaded    \* history: the files loaded so far that returned OK

vars == <<pc, file, live, symtab, scntab, mapped, slots, nseg, ret, up, ub,
          count, before, loaded>>
memory  == <<mapped, slots>>
session == <<count, before>>

OK  == 0     \* CMD_OK_RETURN_VALUE
ERR == 1

Init ==
  /\ pc = "idle"
  /\ file = NULL
  /\ live = [k \in Kind |-> 0]
  /\ symtab = "unset" /\ scntab = "unset"
  /\ mapped = FALSE
  /\ slots = [i \in Slot |-> NULL]
  /\ nseg = 0
  /\ ret = OK
  /\ up = TRUE /\ ub = FALSE
  /\ count = 0
  /\ before = live
  /\ loaded = <<>>

-----------------------------------------------------------------------------
(* elf_extract_scn_by_name: the header found (0 when it returns NULL) and  *)
(* the blocks that it leaves behind.                                       *)
Extraction(h, blocks) == [hdr |-> h, lost |-> blocks]
Nothing(blocks) == Extraction(0, blocks)

(* strncmp over the length of the name looked for.                         *)
Matches(h, n) == <<h, n>> \in Starts

Hits(f, n) == {i \in 1..Len(f.headers) : Matches(f.headers[i].name, n)}
FirstHit(f, n) == {i \in Hits(f, n) : \A j \in Hits(f, n) : i <= j}

(* The loop over the headers stops at the first match, or gives up at a    *)
(* header it cannot read.                                                  *)
Reached(f, i) ==
  IF i > f.cut THEN Nothing({"sstab"})
  ELSE IF f.headers[i].whole THEN Extraction(i, {})
  ELSE Nothing({"sstab", "content"})

Search(f, n) ==
  IF Hits(f, n) # {} THEN {Reached(f, i) : i \in FirstHit(f, n)}
  ELSE {Nothing(IF f.cut < Len(f.headers) THEN {"sstab"} ELSE {})}

(* elf_extract_section_names comes first and has losses of its own; a file *)
(* whose byte order is unknown fails there as one with "no header" does.   *)
Extract32(f, n) ==
  CASE f.names = "undefined"  -> {Nothing({"ehdr"})}
    [] f.headers = <<>>       -> {Nothing({})}
    [] f.names = "no header"  -> {Nothing({})}
    [] f.names = "no content" -> {Nothing({"sstab"})}
    [] OTHER                  -> Search(f, n)

(* For 64 bits the table of names is read right after the ELF header, not  *)
(* where e_shstrndx says: any header may seem to match.                    *)
Extract64(f) ==
  {Nothing({}), Nothing({"sstab"}), Nothing({"sstab", "content"})}
    \union {Extraction(i, {}) : i \in 1..Len(f.headers)}

Extract(f, n) == IF f.class = 32 THEN Extract32(f, n) ELSE Extract64(f)

(* elf_get_arch_info: the width is all that _loadcmd makes use of.         *)
BusWidth(f) == f.class

(* __elf_get_ehdr allocates before it reads, for a class that it knows.    *)
HeaderAllocated(f) == f.class # 0

(* elf_extract_section_header_table.                                       *)
HeaderTable(f) == f.headers # <<>>

(* The kinds of symbols read from the header found.                        *)
SymbolsOf(f, h) == IF h = 0 THEN {} ELSE f.headers[h].syms

HasContent(seg) == seg # NULL /\ seg.from # NULL

(* Mistake to detect: a block released by the callee and by the caller.    *)
AfterTwice(held, new, gone) ==
  [k \in Kind |-> held[k] + (IF k \in new THEN 1 ELSE 0) - (IF k \in gone THEN 2 ELSE 0)]

(* The number of blocks after some were allocated and others released.     *)
After(held, new, gone) ==
  [k \in Kind |-> held[k] + (IF k \in new THEN 1 ELSE 0) - (IF k \in gone THEN 1 ELSE 0)]

-----------------------------------------------------------------------------
(* _loadcmd, one action per call that can fail.  new_stab(0) comes first.  *)
Begin(f) ==
  /\ up /\ pc = "idle" /\ count < MaxLoads
  /\ file' = f
  /\ count' = count + 1
  /\ before' = live
  /\ UNCHANGED <<scntab, memory, nseg, up, ub, loaded>>

(* fopen fails: the empty symbol table is forgotten.                       *)
LoadMissing ==
  \E f \in Files :
    /\ f.kind = "missing"
    /\ Begin(f)
    /\ live' = After(live, {"symtab"}, {})
    /\ ret' = ERR
    /\ UNCHANGED <<pc, symtab>>

(* assert_elf_file refuses it: the file stays open as well.                *)
LoadRefused ==
  \E f \in Files :
    /\ f.kind \in {"short", "alien"}
    /\ Begin(f)
    /\ live' = After(live, {"symtab", "file"}, {})
    /\ ret' = ERR
    /\ UNCHANGED <<pc, symtab>>

LoadAccepted ==
  \E f \in Files :
    /\ f.kind = "elf"
    /\ Begin(f)
    /\ live' = After(live, {"symtab", "file"}, {})
    /\ symtab' = "live"
    /\ pc' = "section table"
    /\ UNCHANGED ret

At(label) == up /\ pc = label

(* elf_load_scntab: for 32 bits only, and when the headers and their names *)
(* can be read; otherwise the local section_table keeps what the stack     *)
(* held.                                                                   *)
LoadScnTab ==
  /\ At("section table")
  /\ \E x \in Extract(file, ".shstrtab") :
       IF BusWidth(file) # 32 \/ ~HeaderTable(file)
       THEN scntab' = "unset" /\ UNCHANGED live
       ELSE IF x.hdr = 0
       THEN scntab' = "unset" /\ live' = After(live, x.lost, {})
       ELSE scntab' = "live" /\ live' = After(live, {"scntab"}, {})
  /\ pc' = "symbol table"
  /\ UNCHANGED <<file, symtab, memory, nseg, ret, up, ub, session, loaded>>

(* elf_load_symtab begins with del_stab: every return before new_stab      *)
(* leaves the caller with a table already released.                        *)
SymTabLost(blocks) ==
  symtab' = "dangling" /\ live' = After(live, blocks, {"symtab"})

SymTabKept(blocks) ==
  symtab' = "live" /\ live' = After(live, blocks, {})

(* Mistake to detect: no new_stab(0) for a file without symbols.           *)
LoadSymTabStripped(syms, blocks) == SymTabLost(blocks)

NoSymbols(syms, blocks) == SymTabKept(blocks)

(* A symbol whose section is not in the file ends the process, if it is    *)
(* taken for one of type section: for a type that the switch does not know *)
(* the type is the one of the symbol before, or what the stack held.       *)
UnknownSection(t) == \E s \in t : s.type = "section" /\ ~s.known
MayBeUnknown(t) == \E s \in t : s.type # "plain" /\ ~s.known

LoadSymTab ==
  /\ At("symbol table")
  /\ \E x \in Extract(file, ".symtab"), n \in Extract(file, ".shstrtab"),
        s \in Extract(file, ".strtab") :
       LET syms == SymbolsOf(file, x.hdr) IN
       IF BusWidth(file) # 32 THEN SymTabLost({}) /\ up' = up
       ELSE IF syms = {} THEN NoSymbols(syms, x.lost) /\ up' = up
       ELSE IF n.hdr = 0 THEN SymTabLost(n.lost) /\ up' = up
       ELSE IF s.hdr = 0 THEN SymTabLost(s.lost) /\ up' = up
       ELSE /\ SymTabKept({})
            /\ up' \in {b \in BOOLEAN : /\ UnknownSection(syms) => ~b
                                       /\ ~MayBeUnknown(syms) => b}
  /\ pc' = "memory"
  /\ UNCHANGED <<file, scntab, memory, nseg, ret, ub, session, loaded>>

Segments == Cardinality({i \in Slot : slots[i] # NULL})

(* Mistake to detect: the map released is used again.                      *)
OldSlots == slots

NewSlots == [i \in Slot |-> NULL]

(* The segments of the previous load are released, not what they hold.     *)
(* Without an ELF header the first search for a section reads through a    *)
(* null pointer.                                                           *)
NewMemory ==
  /\ At("memory")
  /\ live' = [live EXCEPT
       !["segment"] = @ - Segments,
       !["map"] = IF mapped THEN @ ELSE @ + 1,
       !["ehdr"] = IF HeaderAllocated(file) THEN @ + 1 ELSE @]
  /\ mapped' = TRUE
  /\ slots' = NewSlots
  /\ nseg' = 0
  /\ up' = file.ehdr
  /\ pc' = Wanted[1]
  /\ UNCHANGED <<file, symtab, scntab, ret, ub, session, loaded>>

Segment(n, s) == [name |-> n, from |-> s]

(* The null pointer is neither the name of a segment nor a segment.        *)
SegmentNames == {Wanted[k] : k \in 1..Len(Wanted)} \union {"STACK/HEAP"}

ASSUME NullAssumption ==
  \A n \in SegmentNames, s \in SegmentNames \union {NULL} :
    n # NULL /\ Segment(n, s) # NULL

(* Mistake to detect: an absent section takes a slot.                      *)
NextSlotAlways(found) == nseg + 1

NextSlot(found) == IF found THEN nseg + 1 ELSE nseg

(* One turn of the loop over the sections.  An absent section gets a ghost *)
(* segment in the slot of the next one, which then takes its place.        *)
LoadSection(k) ==
  /\ At(Wanted[k])
  /\ \E x \in Extract(file, Wanted[k]) :
       /\ nseg' = NextSlot(x.hdr # 0)
       /\ IF x.hdr = 0
          THEN /\ slots' = [slots EXCEPT ![nseg] = Segment(Wanted[k], NULL)]
               /\ live' = After(live, {"segment"} \union x.lost, {})
          ELSE /\ slots' = [slots EXCEPT ![nseg] =
                             Segment(Wanted[k], file.headers[x.hdr].name)]
               /\ live' = After(live, {"segment", "content"}, {})
  /\ pc' = IF k = Len(Wanted) THEN "stack" ELSE Wanted[k + 1]
  /\ UNCHANGED <<file, symtab, scntab, mapped, ret, up, ub, session, loaded>>

(* Mistake to detect: the ELF header is kept.                              *)
GivenBackButHeader ==
  {"file"} \union {k \in {"symtab"} : symtab = "live"}
           \union {k \in {"scntab"} : scntab = "live"}

GivenBack ==
  {"ehdr", "file"} \union {k \in {"symtab"} : symtab = "live"}
                   \union {k \in {"scntab"} : scntab = "live"}

(* The stack, and the end of _loadcmd.  Without any section the segment    *)
(* before the first one is written through.  del_scntab of a table never   *)
(* set releases whatever the stack held, perhaps nothing.                  *)
Finish ==
  /\ At("stack")
  /\ slots' = [slots EXCEPT ![PLACESTHEAP] = Segment("STACK/HEAP", "STACK/HEAP")]
  /\ live' = After(live, {"segment", "content"}, GivenBack)
  /\ up' = (nseg > 0)
  /\ \/ ub' = (ub \/ symtab = "dangling")
     \/ scntab = "unset" /\ ub' = TRUE
  /\ symtab' = "unset" /\ scntab' = "unset"
  /\ ret' = OK
  /\ loaded' = Append(loaded, file)
  /\ pc' = "idle"
  /\ UNCHANGED <<file, mapped, nseg, session>>

(* A heap whose blocks were released twice may stop the process anywhere.  *)
HeapBreaks ==
  /\ up /\ ub
  /\ up' = FALSE
  /\ UNCHANGED <<pc, file, live, symtab, scntab, memory, nseg, ret, ub,
                 session, loaded>>

(* Mistake to detect: the contents are kept, as by NewMemory.              *)
ContentsKept == 0

Contents == Cardinality({i \in Slot : HasContent(slots[i])})

(* del_inter, for the memory.                                              *)
Quit ==
  /\ At("idle")
  /\ live' = [live EXCEPT
       !["segment"] = @ - Segments,
       !["content"] = @ - Contents,
       !["map"] = IF mapped THEN @ - 1 ELSE @]
  /\ mapped' = FALSE
  /\ slots' = [i \in Slot |-> NULL]
  /\ up' = FALSE
  /\ UNCHANGED <<pc, file, symtab, scntab, nseg, ret, ub, session, loaded>>

Over == ~up /\ UNCHANGED vars

Next ==
  \/ LoadMissing \/ LoadRefused \/ LoadAccepted
  \/ LoadScnTab \/ LoadSymTab \/ NewMemory
  \/ \E k \in 1..Len(Wanted) : LoadSection(k)
  \/ Finish \/ HeapBreaks \/ Quit \/ Over

Spec == Init /\ [][Next]_vars

-----------------------------------------------------------------------------
TypeOK ==
  /\ pc \in {"idle", "section table", "symbol table", "memory", "stack"}
              \union {Wanted[k] : k \in 1..Len(Wanted)}
  /\ file \in Files \union {NULL}
  /\ live \in [Kind -> Nat]
  /\ symtab \in {"unset", "live", "dangling"}
  /\ scntab \in {"unset", "live"}
  /\ mapped \in BOOLEAN
  /\ nseg \in Slot
  /\ DOMAIN slots = Slot
  /\ ret \in {OK, ERR}
  /\ up \in BOOLEAN /\ ub \in BOOLEAN
  /\ count \in 0..MaxLoads
  /\ before \in [Kind -> Nat]
  /\ loaded \in Seq(Files)

(* Nothing the program still points to was released: each block that the   *)
(* map, a slot, a table or the load in progress holds is allocated, so     *)
(* that no two of them share one (the free calls of _loadcmd and           *)
(* elf_load_symtab against the pointers that they leave).                  *)
Held ==
  /\ mapped => live["map"] >= 1
  /\ Segments <= live["segment"]
  /\ Cardinality({i \in Slot : HasContent(slots[i])}) <= live["content"]
  /\ symtab = "live" => live["symtab"] >= 1
  /\ scntab = "live" => live["scntab"] >= 1
  /\ pc # "idle" => live["file"] >= 1

HasSection(f, n) == \E i \in 1..Len(f.headers) : f.headers[i].name = n
WantedIn(f) == {k \in 1..Len(Wanted) : HasSection(f, Wanted[k])}

(* A complete 32-bit file: all of it can be read, no name merely starts    *)
(* like one that is looked for, and a table of symbols has its names.      *)
Sound(f) ==
  /\ f.kind = "elf" /\ f.class = 32
  /\ f.names = "good" /\ f.cut >= Len(f.headers)
  /\ \A i \in 1..Len(f.headers) : f.headers[i].whole
  /\ HasSection(f, ".shstrtab")
  /\ HasSection(f, ".symtab") => HasSection(f, ".strtab")
  /\ \A i \in 1..Len(f.headers) :
       \A n \in Tables \union {Wanted[k] : k \in 1..Len(Wanted)} :
         <<f.headers[i].name, n>> \in Starts => f.headers[i].name = n

(* Loading a complete 32-bit file never releases a table twice nor one     *)
(* that was not set, whatever was loaded before it; every way to do so     *)
(* takes another file (the two del_stab, and del_scntab at the end).       *)
ReleaseOnce == [][~ub /\ ub' => ~Sound(file)]_vars

(* After a complete file is loaded, only the memory is left: the file, its *)
(* header and the tables are all given back.                               *)
Tidy ==
  (pc = "idle" /\ count > 0 /\ ret = OK /\ Sound(file))
    => \A k \in Temporary : live[k] = before[k]

(* After a complete file is loaded, the segments are the sections it has,  *)
(* each with the content of its own, packed in the order of the loop, and  *)
(* no slot between them and the stack has a content.                       *)
LoadsWhatIsThere ==
  (pc = "idle" /\ up /\ loaded # <<>> /\ Sound(loaded[Len(loaded)]))
    => LET in == WantedIn(loaded[Len(loaded)])
           place(k) == Cardinality({j \in in : j < k}) IN
       /\ \A k \in in : slots[place(k)] = Segment(Wanted[k], Wanted[k])
       /\ \A i \in Cardinality(in)..PLACESTHEAP - 1 : ~HasContent(slots[i])

(* A session that loads one complete file and quits releases all that it   *)
(* allocated, when only .bss may be absent from the file: any other        *)
(* absence leaves a ghost segment behind.                                  *)
CleanExit ==
  (pc = "idle" /\ ~up /\ ~mapped /\ count = 1 /\ loaded # <<>>)
    => (Sound(file) /\ 1..3 \subseteq WantedIn(file)
          => \A k \in Kind : live[k] = 0)
=============================================================================
