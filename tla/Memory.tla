------------------------------- MODULE Memory -------------------------------
(***************************************************************************)
(* The emulated memory: the segments of memory.c, their layout by          *)
(* _loadcmd, and the commands "set mem" and "assert byte/word" that read   *)
(* and write them (commandes.c).  A segment grows by zero bytes, one at a  *)
(* time, when an address beyond its end is accessed, reads included.       *)
(*                                                                         *)
(* The content of a segment is a sequence, so its field taille is the      *)
(* length of contenu.  The cell past the end of an allocation is not       *)
(* modelled: writing to it loses the value, reading from it or from a      *)
(* released block gives any byte, and the program may die at any later     *)
(* step.  Allocation itself does not fail here.                            *)
(***************************************************************************)
EXTENDS Integers, Sequences, FiniteSets

CONSTANTS
  W,          \* number of addresses: 2^32
  B,          \* number of values of a byte: 256
  Page,       \* 0x1000: what a segment's start is rounded to
  START_MEM,  \* 0x3000: where the first section is loaded
  LastMax,    \* 0xFFFF: the maximal size given to the last segment
  StackBase,  \* 0xfffff000
  StackMax,   \* 0x100000
  MaxSize,    \* bound on the size of a section of the files considered
  Contents,   \* the contents a section can have
  Garbage,    \* what an unwritten uint32_t may contain
  Targets,    \* the addresses the user types
  Words,      \* the values the user types after "word"
  MaxCmds,    \* bound on the number of commands of a session
  NULL

Adr   == 0..(W - 1)
Byte  == 0..(B - 1)
Slot  == 0..4       \* NBSEG segments
PLACESTHEAP == 4
Sections == 0..3    \* .text, .rodata, .data, .bss

(* The size of a section, rounded up by _loadcmd (always by at least one). *)
Span(n) == ((n + Page) \div Page) * Page

LargerOf(m, n) == IF m < n THEN n ELSE m

ASSUME WidthAssumption ==
  /\ W \in Nat /\ B \in Nat /\ B >= 2
  /\ Page \in Nat /\ Page >= 2 /\ Page % 2 = 0
  /\ START_MEM \in Nat /\ START_MEM % 2 = 0

(* The files considered: four sections of MaxSize bytes, each rounded up,  *)
(* fit below the stack segment.  _loadcmd itself does not check it.        *)
ASSUME LayoutAssumption ==
  /\ MaxSize \in Nat /\ LastMax \in Nat /\ StackMax \in Nat
  /\ Page <= LastMax
  /\ StackBase \in Nat /\ StackBase < W /\ StackMax < W
  /\ START_MEM + 4 * (MaxSize + Page) + LargerOf(LastMax, MaxSize) <= StackBase
  /\ \A c \in Contents : c \in Seq(Byte) /\ Len(c) <= MaxSize
  /\ Garbage \subseteq Adr

ASSUME InputAssumption ==
  Targets \subseteq Adr /\ Words \subseteq Nat /\ MaxCmds \in Nat

Segment ==
  [base : Adr, max : Adr, contenu : Seq(Byte) \union {NULL}]

ASSUME NullAssumption ==
  NULL \notin Nat /\ NULL \notin Seq(Byte) /\ NULL \notin Segment

VARIABLES
  mapped,   \* inter->memory is not null
  mem,      \* inter->memory[0..NBSEG-1]
  sect,     \* the section _loadcmd is about to process, or NULL
  nseg,     \* nsegments
  start,    \* next_segment_start
  taille,   \* the local taille of _loadcmd
  cmd,      \* the last command: its kind, address and value
  ret,      \* the value it returned
  up,       \* the emulator is running
  ub,       \* an access went past the end of a block or into a freed one
  count     \* the number of commands so far

vars == <<mapped, mem, sect, nseg, start, taille, cmd, ret, up, ub, count>>
load == <<sect, nseg, start, taille>>

OK  == 0     \* CMD_OK_RETURN_VALUE
ERR == 1

Command == [op : {"none", "load", "set byte", "set word", "assert byte", "assert word"},
            adr : Adr, val : Nat]

Init ==
  /\ mapped = FALSE
  /\ mem = [i \in Slot |-> NULL]
  /\ sect = NULL
  /\ nseg = 0 /\ start = 0 /\ taille = 0
  /\ cmd = [op |-> "none", adr |-> 0, val |-> 0]
  /\ ret = OK
  /\ up = TRUE
  /\ ub = FALSE
  /\ count = 0

Idle == up /\ sect = NULL /\ count < MaxCmds

Begin(op, a, v) ==
  /\ Idle
  /\ count' = count + 1
  /\ cmd' = [op |-> op, adr |-> a, val |-> v]

-----------------------------------------------------------------------------
(* _loadcmd: the layout of the segments, one section after the other       *)

(* The file cannot be opened or is not an ELF file: nothing is touched.    *)
LoadRefused ==
  /\ Begin("load", 0, 0)
  /\ ret' = ERR
  /\ UNCHANGED <<mapped, mem, load, up, ub>>

(* Reading the symbol table may end the process (ERROR_MSG on a symbol of  *)
(* a section it does not know, or a table released twice); what led there  *)
(* is not modelled.                                                        *)
LoadAborts ==
  /\ Begin("load", 0, 0)
  /\ up' = FALSE
  /\ UNCHANGED <<mapped, mem, load, ret, ub>>

(* The former segments are released and the local taille is uninitialised. *)
LoadBegin ==
  /\ Begin("load", 0, 0)
  /\ mapped' = TRUE
  /\ mem' = [i \in Slot |-> NULL]
  /\ sect' = 0
  /\ nseg' = 0
  /\ start' = START_MEM
  /\ taille' \in Garbage
  /\ UNCHANGED <<ret, up, ub>>

(* Mistake to detect: the next segment starts right after the section,     *)
(* rounded down.                                                           *)
LoadSectionDown ==
  /\ up /\ sect \in Sections
  /\ \E c \in Contents :
       /\ mem' = [mem EXCEPT ![nseg] = [base |-> start, max |-> Page, contenu |-> c]]
       /\ start' = start + (Len(c) \div Page) * Page
       /\ taille' = Len(c)
  /\ nseg' = nseg + 1
  /\ sect' = sect + 1
  /\ UNCHANGED <<mapped, cmd, ret, up, ub, count>>

LoadSection ==
  /\ up /\ sect \in Sections
  /\ \E c \in Contents :
       /\ mem' = [mem EXCEPT ![nseg] = [base |-> start, max |-> Page, contenu |-> c]]
       /\ start' = start + Span(Len(c))
       /\ taille' = Len(c)
  /\ nseg' = nseg + 1
  /\ sect' = sect + 1
  /\ UNCHANGED <<mapped, cmd, ret, up, ub, count>>

(* Mistake to detect: nsegments also counts the sections that are absent.  *)
LoadSkippedCounted ==
  /\ up /\ sect \in Sections
  /\ \E n \in {taille} \union {Len(c) : c \in Contents} :
       /\ mem' = [mem EXCEPT ![nseg] = [base |-> start, max |-> n, contenu |-> NULL]]
       /\ taille' = n
  /\ nseg' = nseg + 1
  /\ sect' = sect + 1
  /\ UNCHANGED <<mapped, start, cmd, ret, up, ub, count>>

(* The section is absent (taille keeps its last value) or its content      *)
(* cannot be read (taille is the size the file declares).  A segment       *)
(* without content is put in the slot of the next section all the same.    *)
LoadSkipped ==
  /\ up /\ sect \in Sections
  /\ \E n \in {taille} \union {Len(c) : c \in Contents} :
       /\ mem' = [mem EXCEPT ![nseg] = [base |-> start, max |-> n, contenu |-> NULL]]
       /\ taille' = n
  /\ sect' = sect + 1
  /\ UNCHANGED <<mapped, nseg, start, cmd, ret, up, ub, count>>

Stack == [base |-> StackBase, max |-> StackMax, contenu |-> <<>>]

(* The stack segment is added and the last segment gets more room; without *)
(* any section memory[nsegments-1] does not exist.                         *)
LoadEnd ==
  /\ up /\ sect = 4
  /\ IF nseg = 0
     THEN /\ up' = FALSE
          /\ UNCHANGED <<mem, ret>>
     ELSE /\ mem' = [mem EXCEPT ![PLACESTHEAP] = Stack, ![nseg - 1].max = LastMax]
          /\ ret' = OK
          /\ up' = up
  /\ sect' = NULL /\ nseg' = 0 /\ start' = 0 /\ taille' = 0
  /\ UNCHANGED <<mapped, cmd, ub, count>>

-----------------------------------------------------------------------------
(* get_byte_seg                                                            *)

(* The address is in the window of the segment (32-bit unsigned sums).     *)
Hit(s, a) == s.base <= a /\ a <= (s.base + s.max - 1) % W

(* A segment without content, its taille is 1: it gives no byte at its     *)
(* first address, a pointer that cannot be used at the second, and         *)
(* inc_segment reads through the null contenu at the others.               *)
Ghost(s) == s.contenu = NULL
Wild(s, a) == Ghost(s) /\ Hit(s, a) /\ a # s.base
Fault(s, a) == Ghost(s) /\ Hit(s, a) /\ a > s.base + 1

Gives(s, a) == Hit(s, a) /\ ~Ghost(s)

(* Mistake to detect: the grown segment keeps only the new bytes.          *)
GrownFresh(s, a) ==
  IF Hit(s, a) /\ ~Ghost(s) /\ a > s.base + Len(s.contenu)
  THEN [s EXCEPT !.contenu = [k \in 1..(a - s.base) |-> 0]]
  ELSE s

(* The loop over inc_segment: zero bytes are added up to the address, that *)
(* one excluded.                                                           *)
Grown(s, a) ==
  IF Hit(s, a) /\ ~Ghost(s) /\ a > s.base + Len(s.contenu)
  THEN [s EXCEPT !.contenu =
          [k \in 1..(a - s.base) |-> IF k <= Len(@) THEN @[k] ELSE 0]]
  ELSE s

(* The address is that of a byte of the content.                           *)
InBounds(s, a) == Hit(s, a) /\ ~Ghost(s) /\ a < s.base + Len(s.contenu)

PastEnd(s, a) == Hit(s, a) /\ ~Ghost(s) /\ ~InBounds(s, a)

(* change_val_seg                                                          *)
Put(s, a, v) ==
  LET g == Grown(s, a) IN
  IF InBounds(g, a) THEN [g EXCEPT !.contenu[a - g.base + 1] = v] ELSE g

-----------------------------------------------------------------------------
(* The commands on the memory look at the first three segments only.       *)
Visited == 0..2

Dies ==
  /\ up' = FALSE
  /\ UNCHANGED <<mapped, mem, load, ret, ub>>

(* _set_mem_byte_cmd                                                       *)
SetByte(a, v) ==
  /\ Begin("set byte", a, v)
  /\ IF ~mapped \/ \E i \in Visited : mem[i] = NULL \/ Wild(mem[i], a)
     THEN Dies
     ELSE /\ mem' = [i \in Slot |-> IF i \in Visited THEN Put(mem[i], a, v) ELSE mem[i]]
          /\ ub' = (ub \/ \E i \in Visited : PastEnd(mem[i], a))
          /\ ret' = OK
          /\ UNCHANGED <<mapped, load, up>>

(* Mistake to detect: the low byte is stored without its mask.             *)
LoUnmasked(v) == v

Lo(v) == v % B
Hi(v) == (v \div B) % B
After(a) == (a + 1) % W

(* The high byte is stored first, so the segment has grown when the low    *)
(* byte follows.                                                           *)
PutWord(s, a, v) == Put(Put(s, After(a), Hi(v)), a, Lo(v))

(* _set_mem_word_cmd                                                       *)
SetWord(a, v) ==
  /\ Begin("set word", a, v)
  /\ IF ~mapped \/ \E i \in Visited : \/ mem[i] = NULL
                                      \/ Wild(mem[i], After(a)) \/ Wild(mem[i], a)
     THEN Dies
     ELSE /\ mem' = [i \in Slot |-> IF i \in Visited THEN PutWord(mem[i], a, v) ELSE mem[i]]
          /\ ub' = (ub \/ \E i \in Visited : \/ PastEnd(mem[i], After(a))
                                             \/ PastEnd(Grown(mem[i], After(a)), a))
          /\ ret' = OK
          /\ UNCHANGED <<mapped, load, up>>

(* What reading address a of segment s may give.                           *)
Read(s, a) == IF InBounds(s, a) THEN {s.contenu[a - s.base + 1]} ELSE Byte

(* *ptr == val: a signed char promoted to int against an unsigned int.     *)
SameByte(b, v) == b = v /\ b < B \div 2

Answer(yes) == ret' = IF yes THEN OK ELSE ERR

(* _assert_cmd, "byte": the first segment that gives the byte answers.     *)
AssertByte(a, v) ==
  /\ Begin("assert byte", a, v)
  /\ LET stops == {i \in Visited : mem[i] = NULL \/ Wild(mem[i], a) \/ Gives(mem[i], a)}
         i == CHOOSE k \in stops : \A m \in stops : k <= m
     IN
     IF ~mapped \/ stops = {}
     THEN ret' = ERR /\ UNCHANGED <<mapped, mem, load, up, ub>>
     ELSE IF mem[i] = NULL \/ Ghost(mem[i])
     THEN Dies
     ELSE /\ mem' = [mem EXCEPT ![i] = Grown(@, a)]
          /\ \E b \in Read(mem'[i], a) : Answer(SameByte(b, v))
          /\ ub' = (ub \/ PastEnd(mem[i], a))
          /\ UNCHANGED <<mapped, load, up>>

(* _assert_cmd, "word": every segment up to the one that answers grows for *)
(* both addresses; growing for the second one releases the block to which  *)
(* the pointer to the first one leads.                                     *)
GrownTwice(s, a) == Grown(Grown(s, a), After(a))

ReadFirst(s, a) ==
  IF Grown(s, a) = GrownTwice(s, a) THEN Read(Grown(s, a), a) ELSE Byte

AssertWord(a, v) ==
  /\ Begin("assert word", a, v)
  /\ LET stops == {i \in Visited : \/ mem[i] = NULL
                                   \/ Fault(mem[i], a) \/ Fault(mem[i], After(a))
                                   \/ Gives(mem[i], a) /\ Gives(mem[i], After(a))}
         last == IF stops = {} THEN 2 ELSE CHOOSE k \in stops : \A m \in stops : k <= m
         s == mem[last]
     IN
     IF ~mapped \/ a % 2 = 1
     THEN ret' = ERR /\ UNCHANGED <<mapped, mem, load, up, ub>>
     ELSE IF stops # {} /\ (s = NULL \/ Ghost(s))
     THEN Dies
     ELSE /\ mem' = [i \in Slot |-> IF i <= last THEN GrownTwice(mem[i], a) ELSE mem[i]]
          /\ IF stops = {}
             THEN ret' = ERR /\ ub' = ub
             ELSE /\ \E lo \in ReadFirst(s, a), hi \in Read(mem'[last], After(a)) :
                       Answer(lo = Lo(v) /\ hi = Hi(v))
                  /\ ub' = (ub \/ PastEnd(s, a) \/ PastEnd(Grown(s, a), After(a)))
          /\ UNCHANGED <<mapped, load, up>>

-----------------------------------------------------------------------------
(* disp mem: affiche_segment, called for every segment there is, and       *)
(* affiche_section.  Nothing changes; a ghost has no byte to print.        *)
Taille(s) == IF Ghost(s) THEN 1 ELSE Len(s.contenu)

(* size bytes of the content, from its beginning, under the addresses from *)
(* at on.                                                                  *)
Printed(at, size) == [at |-> at, size |-> size]
Nothing == Printed(0, 0)

(* Mistake to detect: the first address is not brought to the segment's.   *)
FirstShownTyped(s, dep) == dep

FirstShown(s, dep) == LargerOf(s.base, dep)

(* An end too far away is replaced by taille, which is no address.         *)
Display(s, dep, arr) ==
  LET d == FirstShown(s, dep)
      far == arr - d > Taille(s)
  IN IF d > arr THEN Nothing
     ELSE IF ~far THEN Printed(d, arr + 1 - d)
     ELSE IF d <= s.base THEN Printed(s.base, Taille(s))
     ELSE IF d > Taille(s) THEN Nothing
     ELSE Printed(d, Taille(s) + 1 - d)

(* The bytes that may be printed at address a: any byte past the content.  *)
Displayed(s, dep, arr, a) ==
  LET p == Display(s, dep, arr) IN
  IF Ghost(s) \/ a \notin p.at..p.at + p.size - 1 THEN {}
  ELSE IF a - p.at < Len(s.contenu) THEN {s.contenu[a - p.at + 1]}
  ELSE Byte

(* A block that was written past its end may break the allocator later.    *)
HeapBreaks ==
  /\ Idle /\ ub
  /\ up' = FALSE
  /\ UNCHANGED <<mapped, mem, load, cmd, ret, ub, count>>

(* The session ends: the process is gone or MaxCmds is reached.            *)
Over ==
  /\ ~up \/ (sect = NULL /\ count = MaxCmds)
  /\ UNCHANGED vars

-----------------------------------------------------------------------------
Next ==
  \/ LoadRefused \/ LoadAborts \/ LoadBegin \/ LoadSection \/ LoadSkipped \/ LoadEnd
  \/ \E a \in Targets, v \in Byte : SetByte(a, v) \/ AssertByte(a, v)
  \/ \E a \in Targets, v \in Words : SetWord(a, v) \/ AssertWord(a, v)
  \/ HeapBreaks
  \/ Over

Spec == Init /\ [][Next]_vars

-----------------------------------------------------------------------------
(* Properties                                                              *)

(* Every variable keeps its type.                                          *)
TypeOK ==
  /\ mapped \in BOOLEAN /\ up \in BOOLEAN /\ ub \in BOOLEAN
  /\ mem \in [Slot -> Segment \union {NULL}]
  /\ sect \in Sections \union {4, NULL}
  /\ nseg \in Slot /\ start \in Adr /\ taille \in Adr
  /\ cmd \in Command
  /\ ret \in {OK, ERR}
  /\ count \in 0..MaxCmds

Loaded(i) == mem[i] # NULL /\ ~Ghost(mem[i])

(* The first address after everything the segment holds or may hold.       *)
Beyond(s) == s.base + LargerOf(s.max, Len(s.contenu))

(* The windows of the loaded segments, stack included, never overlap, also *)
(* once the last one has been given LastMax: no address belongs to two     *)
(* segments, and growing one never reaches the next.                       *)
SegmentsApart ==
  \A i, j \in Slot : i < j /\ Loaded(i) /\ Loaded(j) => Beyond(mem[i]) <= mem[j].base

(* The sections found are in the first slots, in order, with no gap; at    *)
(* most one segment without content follows them, in the slot that the     *)
(* next section would have taken.  The commands, which look at three       *)
(* fixed slots, rely on it.                                                *)
FilledFirst ==
  \E n \in 0..4 :
    /\ \A i \in Sections : Loaded(i) <=> i < n
    /\ \A i \in Sections : i > n => mem[i] = NULL
    /\ sect # NULL => n = nseg /\ nseg <= sect

(* Once at least three sections are loaded, no access to the memory, at    *)
(* whatever address, ends the emulator through a segment that is missing   *)
(* or has no content; only the damage done past the end of a block can.    *)
FullLayoutSurvives ==
  Cardinality({i \in Sections : Loaded(i)}) >= 3 /\ ~ub /\ cmd.op # "load" => up

(* The cells that the commands can reach.                                  *)
Cell(a) == {i \in Visited : mem[i] # NULL /\ InBounds(mem[i], a)}
Store == [a \in {b \in Adr : Cell(b) # {}} |->
            LET s == mem[CHOOSE i \in Cell(a) : TRUE] IN s.contenu[a - s.base + 1]]

Abs == INSTANCE ByteStore WITH store <- Store, loading <- (sect # NULL)

(* The memory is a map from addresses to bytes for the user: a set changes *)
(* the addressed bytes and no other, growing loses none, and an assert     *)
(* answers from the stored bytes (ByteStore); of the bytes above 127 it is *)
(* only promised that no OK is wrong, for the others see RefusalTrue.      *)
ImplementsByteStore == Abs!Spec

(* For a range that does not begin inside a segment, disp mem shows each   *)
(* byte of the range that the segment holds at its own address; and        *)
(* whatever the range, it shows nothing outside of it.                     *)
DisplayFromStart ==
  \A i \in Slot : Loaded(i) => \A dep, arr \in Targets :
    LET s == mem[i]
        p == Display(s, dep, arr) IN
    /\ p.size > 0 => dep <= p.at /\ p.at + p.size - 1 <= arr
    /\ dep <= s.base => \A a \in dep..arr :
         InBounds(s, a) => Displayed(s, dep, arr, a) = {s.contenu[a - s.base + 1]}

(* memory.c:99 says that affiche_segment displays the content from one     *)
(* address to another: every range shows the bytes it holds.               *)
DisplayRange ==
  \A i \in Slot : Loaded(i) => \A dep, arr \in Targets : \A a \in dep..arr :
    InBounds(mem[i], a)
      => Displayed(mem[i], dep, arr, a) = {mem[i].contenu[a - mem[i].base + 1]}

(* When _assert_cmd refuses a byte it says that the value is another one   *)
(* (commandes.c:323): a byte that holds the value given is not refused.    *)
RefusalTrue ==
  up /\ cmd.op = "assert byte" /\ cmd.adr \in DOMAIN Store /\ ret = ERR
    => Store[cmd.adr] # cmd.val

(* memory.h:18 gives taille_max to rule overflows out: no access goes past *)
(* the end of a block.                                                     *)
NoOverflow == ~ub
=============================================================================
