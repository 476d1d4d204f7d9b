---------------------------- MODULE LoaderProofs ----------------------------
(***************************************************************************)
(* The command "load", for all files: the counts of blocks never go below  *)
(* zero, what the program holds is allocated, and a complete file is       *)
(* loaded without releasing anything twice, and leaves only its memory.    *)
(***************************************************************************)
EXTENDS Loader, FiniteSetTheorems, TLAPS

(* The steps that use the ELF header.                                      *)
Loading == {Wanted[k] : k \in 1..4} \union {"stack"}

(* What the place in _loadcmd says of its variables.                       *)
Control ==
  /\ pc # "idle" => file \in Files
  /\ pc \in {"section table", "symbol table"} => symtab = "live"
  /\ up /\ pc \in Loading => live["ehdr"] >= 1
  /\ \A k \in 1..4 : pc = Wanted[k] => nseg <= k - 1

(* A complete file has both tables.                                        *)
SoundInv ==
  pc # "idle" /\ Sound(file)
    => symtab = "live" /\ (pc # "section table" => scntab = "live")

(* The blocks of each temporary kind that the load in progress holds.      *)
Owed(k) ==
  CASE k \in {"file", "symtab"} -> 1
    [] k = "scntab" -> IF pc = "section table" THEN 0 ELSE 1
    [] k = "ehdr"   -> IF pc \in Loading THEN 1 ELSE 0
    [] OTHER        -> 0

TidyInv ==
  pc # "idle" /\ Sound(file) => \A k \in Temporary : live[k] = before[k] + Owed(k)

IInv == TypeOK /\ Held /\ Control /\ SoundInv /\ TidyInv /\ Tidy

-----------------------------------------------------------------------------
(* Names, counts and sets                                                  *)

LEMMA Labels ==
  /\ Len(Wanted) = 4
  /\ \A j, k \in 1..4 : Wanted[j] = Wanted[k] => j = k
  /\ \A k \in 1..4 : /\ Wanted[k] \in Loading
                     /\ Wanted[k] \notin {"idle", "section table", "symbol table", "memory", "stack"}
  /\ \A l \in {"idle", "section table", "symbol table", "memory"} : l \notin Loading
<1> DEFINE w == <<".text", ".rodata", ".data", ".bss">>
<1>1. Wanted = w
  BY DEF Wanted
<1>2. Len(w) = 4 /\ w[1] = ".text" /\ w[2] = ".rodata" /\ w[3] = ".data" /\ w[4] = ".bss"
  OBVIOUS
<1> HIDE DEF w
<1>3. \A j, k \in 1..4 : w[j] = w[k] => j = k
  <2> TAKE j, k \in 1..4
  <2>1. j \in {1, 2, 3, 4} /\ k \in {1, 2, 3, 4}
    OBVIOUS
  <2> QED BY <1>2, <2>1
<1>4. \A k \in 1..4 : w[k] \in {".text", ".rodata", ".data", ".bss"}
  <2> TAKE k \in 1..4
  <2>1. k \in {1, 2, 3, 4}
    OBVIOUS
  <2> QED BY <1>2, <2>1
<1>5. \A k \in 1..4 : w[k] \notin {"idle", "section table", "symbol table", "memory", "stack"}
  BY <1>4
<1> QED BY <1>1, <1>2, <1>3, <1>5 DEF Loading

LEMMA Kinds ==
  /\ Temporary \subseteq Kind
  /\ {"map", "segment", "content"} \subseteq Kind
  /\ \A k \in {"map", "segment", "content"} : k \notin Temporary
BY DEF Kind, Temporary

LEMMA SlotSets ==
  ASSUME NEW S \in SUBSET Slot
  PROVE  IsFiniteSet(S) /\ Cardinality(S) \in Nat
<1>1. IsFiniteSet(Slot)
  <2>1. 0 \in Int /\ 4 \in Int
    OBVIOUS
  <2> QED BY <2>1, FS_Interval DEF Slot
<1>2. IsFiniteSet(S)
  BY <1>1, FS_Subset
<1> QED BY <1>2, FS_CardinalityType

LEMMA OneMore ==
  ASSUME NEW S \in SUBSET Slot, NEW T \in SUBSET Slot, NEW n, T \subseteq S \union {n}
  PROVE  Cardinality(T) <= Cardinality(S) + 1
<1>1. IsFiniteSet(S) /\ Cardinality(S) \in Nat /\ Cardinality(T) \in Nat
  BY SlotSets
<1>2. /\ IsFiniteSet(S \union {n})
      /\ Cardinality(S \union {n}) = Cardinality(S)
           \/ Cardinality(S \union {n}) = Cardinality(S) + 1
  BY <1>1, FS_AddElement
<1>3. Cardinality(T) <= Cardinality(S \union {n})
  BY <1>2, FS_Subset
<1> QED BY <1>1, <1>2, <1>3

LEMMA NoSlot ==
  ASSUME NEW S, S = {}
  PROVE  Cardinality(S) = 0
BY FS_EmptySet

LEMMA AfterType ==
  ASSUME NEW held \in [Kind -> Nat], NEW new, NEW gone,
         \A k \in gone \ new : held[k] >= 1
  PROVE  /\ After(held, new, gone) \in [Kind -> Nat]
         /\ \A k \in Kind : After(held, new, gone)[k] =
              held[k] + (IF k \in new THEN 1 ELSE 0) - (IF k \in gone THEN 1 ELSE 0)
<1>1. \A k \in Kind : After(held, new, gone)[k] =
        held[k] + (IF k \in new THEN 1 ELSE 0) - (IF k \in gone THEN 1 ELSE 0)
  BY DEF After
<1>2. \A k \in Kind :
        held[k] + (IF k \in new THEN 1 ELSE 0) - (IF k \in gone THEN 1 ELSE 0) \in Nat
  OBVIOUS
<1> QED BY <1>1, <1>2 DEF After
-----------------------------------------------------------------------------
(* The search for a section                                                *)

LEMMA FileType ==
  ASSUME NEW f \in Files
  PROVE  /\ IsFile(f)
         /\ f # NULL
         /\ \A i \in 1..Len(f.headers) : Matches(f.headers[i].name, f.headers[i].name)
         /\ Len(f.headers) \in Nat
<1>1. IsFile(f) /\ f # NULL
  BY FilesAssumption
<1>2. \A i \in 1..Len(f.headers) : Matches(f.headers[i].name, f.headers[i].name)
  BY FilesAssumption DEF Matches
<1>3. f.headers \in Seq({f.headers[i] : i \in 1..Len(f.headers)})
  BY <1>1 DEF IsFile
<1>4. Len(f.headers) \in Nat
  BY <1>3
<1> QED BY <1>1, <1>2, <1>4

LEMMA ExtractionType ==
  ASSUME NEW h, NEW blocks
  PROVE  /\ Extraction(h, blocks).hdr = h /\ Extraction(h, blocks).lost = blocks
         /\ Nothing(blocks).hdr = 0 /\ Nothing(blocks).lost = blocks
BY DEF Extraction, Nothing

LEMMA ReachedType ==
  ASSUME NEW f \in Files, NEW i \in 1..Len(f.headers)
  PROVE  /\ Reached(f, i).hdr \in 0..Len(f.headers)
         /\ Reached(f, i).lost \subseteq {"ehdr", "sstab", "content"}
<1>1. Len(f.headers) \in Nat
  BY FileType
<1>2. \/ Reached(f, i) = Nothing({"sstab"})
      \/ Reached(f, i) = Extraction(i, {})
      \/ Reached(f, i) = Nothing({"sstab", "content"})
  BY Zenon DEF Reached
<1>3. CASE Reached(f, i) = Nothing({"sstab"})
  BY <1>1, <1>3, ExtractionType
<1>4. CASE Reached(f, i) = Extraction(i, {})
  BY <1>1, <1>4, ExtractionType
<1>5. CASE Reached(f, i) = Nothing({"sstab", "content"})
  BY <1>1, <1>5, ExtractionType
<1> QED BY <1>2, <1>3, <1>4, <1>5

LEMMA ExtractType ==
  ASSUME NEW f \in Files, NEW n, NEW x \in Extract(f, n)
  PROVE  x.hdr \in 0..Len(f.headers) /\ x.lost \subseteq {"ehdr", "sstab", "content"}
<1>1. Len(f.headers) \in Nat
  BY FileType
<1>2. \/ \E blocks \in SUBSET {"ehdr", "sstab", "content"} : x = Nothing(blocks)
      \/ \E i \in 1..Len(f.headers) : x = Extraction(i, {})
      \/ \E i \in 1..Len(f.headers) : x = Reached(f, i)
  <2>1. CASE f.class # 32
    BY <2>1 DEF Extract, Extract64
  <2>2. CASE f.class = 32
    <3>1. x \in Extract32(f, n)
      BY <2>2 DEF Extract
    <3>2. x \in Search(f, n) \/ x \in {Nothing({"ehdr"}), Nothing({}), Nothing({"sstab"})}
      BY <3>1, Zenon DEF Extract32
    <3>3. x \in Search(f, n)
            => \/ \E i \in FirstHit(f, n) : x = Reached(f, i)
               \/ x \in {Nothing({}), Nothing({"sstab"})}
      BY Zenon DEF Search
    <3>4. FirstHit(f, n) \subseteq 1..Len(f.headers)
      BY DEF FirstHit, Hits
    <3> QED BY <3>2, <3>3, <3>4
  <2> QED BY <2>1, <2>2
<1>3. CASE \E blocks \in SUBSET {"ehdr", "sstab", "content"} : x = Nothing(blocks)
  <2>1. PICK blocks \in SUBSET {"ehdr", "sstab", "content"} : x = Nothing(blocks)
    BY <1>3
  <2>2. x.hdr = 0 /\ x.lost = blocks
    BY <2>1, ExtractionType
  <2> QED BY <1>1, <2>1, <2>2
<1>4. CASE \E i \in 1..Len(f.headers) : x = Extraction(i, {})
  BY <1>1, <1>4, ExtractionType
<1>5. CASE \E i \in 1..Len(f.headers) : x = Reached(f, i)
  BY <1>5, ReachedType
<1> QED BY <1>2, <1>3, <1>4, <1>5

Searched == Tables \union {Wanted[k] : k \in 1..4}

(* In a complete file the search finds the section, and nothing else.      *)
LEMMA SoundExtract ==
  ASSUME NEW f \in Files, Sound(f), NEW n \in Searched, NEW x \in Extract(f, n)
  PROVE  /\ x.lost = {}
         /\ x.hdr # 0 <=> HasSection(f, n)
         /\ x.hdr # 0 => x.hdr \in 1..Len(f.headers) /\ f.headers[x.hdr].name = n
<1>1. /\ f.class = 32 /\ f.names = "good" /\ f.cut >= Len(f.headers)
      /\ \A i \in 1..Len(f.headers) : f.headers[i].whole
      /\ HasSection(f, ".shstrtab")
  BY DEF Sound
<1>2. Len(f.headers) \in Nat /\ f.cut \in Nat
  BY FileType DEF IsFile
<1>3. f.headers # <<>>
  BY <1>1 DEF HasSection
<1>4. x \in Search(f, n)
  BY <1>1, <1>3 DEF Extract, Extract32
<1>5. \A i \in 1..Len(f.headers) : Reached(f, i) = Extraction(i, {})
  BY <1>1, <1>2 DEF Reached
<1>6. \A i \in 1..Len(f.headers) : Matches(f.headers[i].name, n) <=> f.headers[i].name = n
  <2>1. \A i \in 1..Len(f.headers) : Matches(f.headers[i].name, n) => f.headers[i].name = n
    BY Labels DEF Sound, Matches, Searched
  <2> QED BY <2>1, FileType
<1>7. CASE HasSection(f, n)
  <2>1. Hits(f, n) # {}
    BY <1>6, <1>7 DEF HasSection, Hits
  <2>2. PICK i \in FirstHit(f, n) : x = Reached(f, i)
    BY <1>4, <2>1 DEF Search
  <2>3. i \in 1..Len(f.headers) /\ f.headers[i].name = n
    BY <1>6 DEF FirstHit, Hits
  <2>4. x.hdr = i /\ x.lost = {}
    BY <1>5, <2>2, <2>3, ExtractionType
  <2> QED BY <1>2, <1>7, <2>3, <2>4
<1>8. CASE ~HasSection(f, n)
  <2>1. Hits(f, n) = {}
    BY <1>6, <1>8 DEF HasSection, Hits
  <2>2. ~(f.cut < Len(f.headers))
    BY <1>1, <1>2
  <2>3. x = Nothing({})
    BY <1>4, <2>1, <2>2 DEF Search
  <2> QED BY <1>8, <2>3, ExtractionType
<1> QED BY <1>7, <1>8
-----------------------------------------------------------------------------
(* The invariant                                                           *)

(* What the steps that leave the memory alone keep of Held.                *)
LEMMA MemoryKept ==
  ASSUME TypeOK, Held, UNCHANGED memory, live' \in [Kind -> Nat],
         live'["map"] >= live["map"], live'["segment"] >= live["segment"],
         live'["content"] >= live["content"]
  PROVE  /\ mapped' => live'["map"] >= 1
         /\ Segments' <= live'["segment"]
         /\ Contents' <= live'["content"]
         /\ mapped' \in BOOLEAN /\ DOMAIN slots' = Slot
<1>1. slots' = slots /\ mapped' = mapped
  BY DEF memory
<1>2. live \in [Kind -> Nat] /\ mapped \in BOOLEAN /\ DOMAIN slots = Slot
  BY Zenon DEF TypeOK
<1>3. /\ live["map"] \in Nat /\ live["segment"] \in Nat /\ live["content"] \in Nat
      /\ live'["map"] \in Nat /\ live'["segment"] \in Nat /\ live'["content"] \in Nat
  BY <1>2, Kinds
<1>4. Segments' = Segments /\ Contents' = Contents
  BY <1>1 DEF Segments, Contents
<1>5. Segments \in Nat /\ Contents \in Nat
  BY SlotSets DEF Segments, Contents
<1>6. (mapped => live["map"] >= 1) /\ Segments <= live["segment"] /\ Contents <= live["content"]
  BY DEF Held, Contents
<1> QED BY <1>1, <1>2, <1>3, <1>4, <1>5, <1>6

LEMMA HeldIntro ==
  ASSUME mapped => live["map"] >= 1, Segments <= live["segment"], Contents <= live["content"],
         symtab = "live" => live["symtab"] >= 1,
         scntab = "live" => live["scntab"] >= 1,
         pc # "idle" => live["file"] >= 1
  PROVE  Held
BY DEF Held, Contents

LEMMA Parts ==
  TypeOK => /\ live \in [Kind -> Nat] /\ before \in [Kind -> Nat]
            /\ \A k \in Kind : live[k] \in Nat /\ before[k] \in Nat
            /\ nseg \in Slot /\ count \in 0..MaxLoads
<1> SUFFICES ASSUME TypeOK
             PROVE  /\ live \in [Kind -> Nat] /\ before \in [Kind -> Nat]
                    /\ \A k \in Kind : live[k] \in Nat /\ before[k] \in Nat
                    /\ nseg \in Slot /\ count \in 0..MaxLoads
  OBVIOUS
<1>1. /\ live \in [Kind -> Nat] /\ before \in [Kind -> Nat]
      /\ nseg \in Slot /\ count \in 0..MaxLoads
  BY Zenon DEF TypeOK
<1> QED BY <1>1

LEMMA InitInv == Init => IInv
<1> SUFFICES ASSUME Init PROVE IInv
  OBVIOUS
<1>1. live \in [Kind -> Nat] /\ before \in [Kind -> Nat]
  BY DEF Init
<1>2. DOMAIN slots = Slot /\ \A i \in Slot : slots[i] = NULL
  BY DEF Init
<1>3. nseg \in Slot /\ count \in 0..MaxLoads /\ loaded \in Seq(Files)
  BY FilesAssumption DEF Init, Slot
<1>4. /\ pc = "idle" /\ file = NULL /\ symtab = "unset" /\ scntab = "unset" /\ mapped = FALSE
      /\ ret = OK /\ up = TRUE /\ ub = FALSE /\ count = 0
  BY DEF Init
<1>5. TypeOK
  BY <1>1, <1>2, <1>3, <1>4 DEF TypeOK
<1>6. Held
  <2>1. {i \in Slot : slots[i] # NULL} = {} /\ {i \in Slot : HasContent(slots[i])} = {}
    BY <1>2 DEF HasContent
  <2>2. Segments = 0 /\ Contents = 0
    BY <2>1, NoSlot DEF Segments, Contents
  <2>3. live["segment"] \in Nat /\ live["content"] \in Nat
    BY <1>1, Kinds
  <2> QED BY <1>4, <2>2, <2>3, HeldIntro
<1>7. Control
  BY <1>4, Labels DEF Control
<1> QED BY <1>4, <1>5, <1>6, <1>7 DEF IInv, SoundInv, TidyInv, Tidy

LEMMA BeginType ==
  ASSUME TypeOK, NEW f \in Files, Begin(f)
  PROVE  /\ up /\ pc = "idle"
         /\ file' = f /\ before' = live /\ count' \in 0..MaxLoads
         /\ UNCHANGED <<scntab, memory, nseg, up, ub, loaded>>
<1>1. count < MaxLoads /\ count' = count + 1 /\ count \in 0..MaxLoads
  BY Parts DEF Begin
<1>2. count' \in 0..MaxLoads
  BY <1>1, FilesAssumption
<1> QED BY <1>2 DEF Begin

(* The blocks allocated before a load is given up, or accepted.            *)
LEMMA BeginLive ==
  ASSUME TypeOK, NEW new \in SUBSET {"symtab", "file"}, live' = After(live, new, {})
  PROVE  /\ live' \in [Kind -> Nat]
         /\ \A k \in Kind : live'[k] = live[k] + (IF k \in new THEN 1 ELSE 0)
         /\ \A k \in Kind : live'[k] >= live[k]
<1>1. live \in [Kind -> Nat]
  BY Parts
<1>2. /\ live' \in [Kind -> Nat]
      /\ \A k \in Kind : live'[k] = live[k] + (IF k \in new THEN 1 ELSE 0) - (IF k \in {} THEN 1 ELSE 0)
  BY <1>1, AfterType
<1>3. \A k \in Kind : live'[k] = live[k] + (IF k \in new THEN 1 ELSE 0)
  BY <1>1, <1>2
<1> QED BY <1>1, <1>2, <1>3

LEMMA GivenUp ==
  ASSUME IInv, NEW f \in Files, Begin(f),
         NEW new \in SUBSET {"symtab", "file"}, live' = After(live, new, {}),
         ret' = ERR, UNCHANGED <<pc, symtab>>
  PROVE  IInv'
<1>0. TypeOK /\ Held /\ Control
  BY DEF IInv
<1>1. /\ up /\ pc = "idle"
      /\ file' = f /\ before' = live /\ count' \in 0..MaxLoads
      /\ UNCHANGED <<scntab, memory, nseg, up, ub, loaded>>
  BY <1>0, BeginType
<1>2. live' \in [Kind -> Nat] /\ \A k \in Kind : live'[k] >= live[k]
  BY <1>0, BeginLive
<1>3. "symtab" \in Kind /\ "scntab" \in Kind
  BY DEF Kind, Temporary
<1>4. /\ mapped' => live'["map"] >= 1
      /\ Segments' <= live'["segment"]
      /\ Contents' <= live'["content"]
      /\ mapped' \in BOOLEAN /\ DOMAIN slots' = Slot
  BY <1>0, <1>1, <1>2, Kinds, MemoryKept
<1>5. TypeOK'
  BY <1>0, <1>1, <1>2, <1>4 DEF TypeOK
<1>6. Held'
  <2>1. (symtab = "live" => live["symtab"] >= 1) /\ (scntab = "live" => live["scntab"] >= 1)
    BY <1>0 DEF Held
  <2>2. live["symtab"] \in Nat /\ live["scntab"] \in Nat
    BY <1>0, <1>3, Parts
  <2>3. (symtab' = "live" => live'["symtab"] >= 1) /\ (scntab' = "live" => live'["scntab"] >= 1)
    BY <1>1, <1>2, <1>3, <2>1, <2>2
  <2> QED BY <1>1, <1>4, <2>3 DEF Held, Contents
<1>7. Control'
  BY <1>1, Labels DEF Control
<1>8. SoundInv' /\ TidyInv' /\ Tidy'
  BY <1>1 DEF SoundInv, TidyInv, Tidy, OK, ERR
<1> QED BY <1>5, <1>6, <1>7, <1>8 DEF IInv

LEMMA LoadAcceptedInv == IInv /\ LoadAccepted => IInv'
<1> SUFFICES ASSUME IInv, LoadAccepted PROVE IInv'
  OBVIOUS
<1>0. TypeOK /\ Held /\ Control
  BY DEF IInv
<1>a. PICK f \in Files :
        /\ Begin(f)
        /\ live' = After(live, {"symtab", "file"}, {})
        /\ symtab' = "live" /\ pc' = "section table" /\ ret' = ret
  BY DEF LoadAccepted
<1>1. /\ up /\ pc = "idle"
      /\ file' = f /\ before' = live /\ count' \in 0..MaxLoads
      /\ UNCHANGED <<scntab, memory, nseg, up, ub, loaded>>
  BY <1>0, <1>a, BeginType
<1>2. /\ live' \in [Kind -> Nat] /\ \A k \in Kind : live'[k] >= live[k]
      /\ \A k \in Kind : live'[k] = live[k] + (IF k \in {"symtab", "file"} THEN 1 ELSE 0)
  BY <1>0, <1>a, BeginLive
<1>3. "symtab" \in Kind /\ "scntab" \in Kind /\ "file" \in Kind
  BY DEF Kind, Temporary
<1>4. /\ mapped' => live'["map"] >= 1
      /\ Segments' <= live'["segment"]
      /\ Contents' <= live'["content"]
      /\ mapped' \in BOOLEAN /\ DOMAIN slots' = Slot
  BY <1>0, <1>1, <1>2, Kinds, MemoryKept
<1>5. TypeOK'
  BY <1>0, <1>a, <1>1, <1>2, <1>4 DEF TypeOK
<1>6. Held'
  <2>1. scntab = "live" => live["scntab"] >= 1
    BY <1>0 DEF Held
  <2>2. live["symtab"] \in Nat /\ live["scntab"] \in Nat /\ live["file"] \in Nat
    BY <1>0, <1>3, Parts
  <2>3. /\ live'["symtab"] >= 1 /\ live'["file"] >= 1
        /\ scntab' = "live" => live'["scntab"] >= 1
    BY <1>1, <1>2, <1>3, <2>1, <2>2
  <2> QED BY <1>1, <1>4, <2>3 DEF Held, Contents
<1>7. Control'
  BY <1>a, <1>1, Labels DEF Control
<1>8. SoundInv'
  BY <1>a DEF SoundInv
<1>9. TidyInv'
  <2> SUFFICES ASSUME NEW k \in Temporary
               PROVE  live'[k] = before'[k] + Owed(k)'
    BY DEF TidyInv
  <2>1. k \in Kind /\ live[k] \in Nat
    BY <1>0, Kinds, Parts
  <2>2. pc' \notin Loading
    BY <1>a, Labels
  <2>3. Owed(k)' = IF k \in {"symtab", "file"} THEN 1 ELSE 0
    BY <1>a, <2>2 DEF Owed, Temporary
  <2> QED BY <1>1, <1>2, <2>1, <2>3
<1>10. Tidy'
  BY <1>a DEF Tidy
<1> QED BY <1>5, <1>6, <1>7, <1>8, <1>9, <1>10 DEF IInv
(* The steps of a load before its memory.                                  *)
LEMMA LoadScnTabInv == IInv /\ LoadScnTab => IInv'
<1> SUFFICES ASSUME IInv, LoadScnTab PROVE IInv'
  OBVIOUS
<1>0. TypeOK /\ Held /\ Control /\ SoundInv /\ TidyInv
  BY DEF IInv
<1>1. /\ up /\ pc = "section table" /\ pc' = "symbol table"
      /\ UNCHANGED <<file, symtab, memory, nseg, ret, up, ub, session, loaded>>
  BY DEF LoadScnTab, At
<1>2. file \in Files /\ symtab = "live"
  BY <1>0, <1>1 DEF Control
<1>3. live \in [Kind -> Nat] /\ \A k \in Kind : live[k] \in Nat
  BY <1>0, Parts
<1>4. PICK x \in Extract(file, ".shstrtab") :
        IF BusWidth(file) # 32 \/ ~HeaderTable(file)
        THEN scntab' = "unset" /\ UNCHANGED live
        ELSE IF x.hdr = 0
        THEN scntab' = "unset" /\ live' = After(live, x.lost, {})
        ELSE scntab' = "live" /\ live' = After(live, {"scntab"}, {})
  BY DEF LoadScnTab
<1>5. /\ live' \in [Kind -> Nat] /\ \A k \in Kind : live'[k] >= live[k]
      /\ \/ scntab' = "unset"
         \/ scntab' = "live" /\ \A k \in Kind :
              live'[k] = live[k] + (IF k \in {"scntab"} THEN 1 ELSE 0)
  <2>1. CASE scntab' = "unset" /\ live' = live
    BY <1>3, <2>1
  <2>2. CASE scntab' = "unset" /\ live' = After(live, x.lost, {})
    <3>1. /\ live' \in [Kind -> Nat]
          /\ \A k \in Kind : live'[k] =
               live[k] + (IF k \in x.lost THEN 1 ELSE 0) - (IF k \in {} THEN 1 ELSE 0)
      BY <1>3, <2>2, AfterType
    <3> QED BY <1>3, <2>2, <3>1
  <2>3. CASE scntab' = "live" /\ live' = After(live, {"scntab"}, {})
    <3>1. /\ live' \in [Kind -> Nat]
          /\ \A k \in Kind : live'[k] =
               live[k] + (IF k \in {"scntab"} THEN 1 ELSE 0) - (IF k \in {} THEN 1 ELSE 0)
      BY <1>3, <2>3, AfterType
    <3> QED BY <1>3, <2>3, <3>1
  <2> QED BY <1>4, <2>1, <2>2, <2>3, Zenon
<1>6. "symtab" \in Kind /\ "scntab" \in Kind /\ "file" \in Kind
  BY DEF Kind, Temporary
<1>7. /\ mapped' => live'["map"] >= 1
      /\ Segments' <= live'["segment"]
      /\ Contents' <= live'["content"]
      /\ mapped' \in BOOLEAN /\ DOMAIN slots' = Slot
  BY <1>0, <1>1, <1>5, Kinds, MemoryKept
<1>8. count' = count /\ before' = before
  BY <1>1 DEF session
<1>9. TypeOK'
  BY <1>0, <1>1, <1>5, <1>7, <1>8 DEF TypeOK
<1>10. Held'
  <2>1. live["symtab"] >= 1 /\ live["file"] >= 1
    BY <1>0, <1>1, <1>2 DEF Held
  <2>2. live'["symtab"] >= 1 /\ live'["file"] >= 1
    BY <1>3, <1>5, <1>6, <2>1
  <2>3. scntab' = "live" => live'["scntab"] >= 1
    BY <1>3, <1>5, <1>6
  <2> QED BY <1>7, <2>2, <2>3 DEF Held, Contents
<1>11. Control'
  BY <1>1, <1>2, Labels DEF Control
<1>12. Sound(file) => scntab' = "live"
  <2> SUFFICES ASSUME Sound(file) PROVE scntab' = "live"
    OBVIOUS
  <2>1. BusWidth(file) = 32 /\ HasSection(file, ".shstrtab")
    BY DEF Sound, BusWidth
  <2>2. HeaderTable(file)
    BY <2>1 DEF HasSection, HeaderTable
  <2>3. ".shstrtab" \in Searched
    BY DEF Searched, Tables
  <2>4. x.hdr # 0
    BY <1>2, <2>1, <2>3, SoundExtract
  <2> QED BY <1>4, <2>1, <2>2, <2>4
<1>13. SoundInv'
  BY <1>1, <1>2, <1>12 DEF SoundInv
<1>14. TidyInv'
  <2> SUFFICES ASSUME Sound(file), NEW k \in Temporary
               PROVE  live'[k] = before[k] + Owed(k)'
    BY <1>1, <1>8 DEF TidyInv
  <2>1. k \in Kind /\ live[k] \in Nat /\ before[k] \in Nat
    BY <1>0, Kinds, Parts
  <2>2. pc \notin Loading /\ pc' \notin Loading
    BY <1>1, Labels
  <2>3. live[k] = before[k] + Owed(k)
    BY <1>0, <1>1 DEF TidyInv
  <2>4. /\ Owed(k) = IF k \in {"file", "symtab"} THEN 1 ELSE 0
        /\ Owed(k)' = IF k \in {"file", "symtab", "scntab"} THEN 1 ELSE 0
    BY <1>1, <2>2 DEF Owed, Temporary
  <2>5. live'[k] = live[k] + (IF k \in {"scntab"} THEN 1 ELSE 0)
    BY <1>5, <1>12, <2>1
  <2> QED BY <2>1, <2>3, <2>4, <2>5
<1>15. Tidy'
  BY <1>1 DEF Tidy
<1> QED BY <1>9, <1>10, <1>11, <1>13, <1>14, <1>15 DEF IInv

(* In a complete file the symbol table is replaced, and nothing lost.      *)
LEMMA SoundSymbols ==
  ASSUME file \in Files, Sound(file), LoadSymTab
  PROVE  SymTabKept({})
<1>1. PICK x \in Extract(file, ".symtab"), n \in Extract(file, ".shstrtab"),
           s \in Extract(file, ".strtab") :
       LET syms == SymbolsOf(file, x.hdr) IN
       \/ BusWidth(file) # 32
       \/ syms = {} /\ NoSymbols(syms, x.lost)
       \/ syms # {} /\ n.hdr = 0
       \/ syms # {} /\ s.hdr = 0
       \/ SymTabKept({})
  BY Zenon DEF LoadSymTab
<1>2. BusWidth(file) = 32
  BY DEF Sound, BusWidth
<1>3. ".symtab" \in Searched /\ ".shstrtab" \in Searched /\ ".strtab" \in Searched
  BY DEF Searched, Tables
<1>4. /\ x.lost = {} /\ n.hdr # 0
      /\ x.hdr # 0 => HasSection(file, ".symtab")
      /\ HasSection(file, ".strtab") => s.hdr # 0
  BY <1>3, SoundExtract DEF Sound
<1>5. SymbolsOf(file, x.hdr) # {} => s.hdr # 0
  BY <1>4 DEF SymbolsOf, Sound
<1> QED BY <1>1, <1>2, <1>4, <1>5 DEF NoSymbols

LEMMA LoadSymTabInv == IInv /\ LoadSymTab => IInv'
<1> SUFFICES ASSUME IInv, LoadSymTab PROVE IInv'
  OBVIOUS
<1>0. TypeOK /\ Held /\ Control /\ SoundInv /\ TidyInv
  BY DEF IInv
<1>1. /\ up /\ pc = "symbol table" /\ pc' = "memory"
      /\ UNCHANGED <<file, scntab, memory, nseg, ret, ub, session, loaded>>
  BY DEF LoadSymTab, At
<1>2. file \in Files /\ symtab = "live"
  BY <1>0, <1>1 DEF Control
<1>3. live \in [Kind -> Nat] /\ \A k \in Kind : live[k] \in Nat
  BY <1>0, Parts
<1>4. PICK blocks \in SUBSET {"ehdr", "sstab", "content"} :
        SymTabLost(blocks) \/ SymTabKept(blocks)
  <2>1. PICK x \in Extract(file, ".symtab"), n \in Extract(file, ".shstrtab"),
             s \in Extract(file, ".strtab") :
         \/ SymTabLost({}) \/ NoSymbols(SymbolsOf(file, x.hdr), x.lost)
         \/ SymTabLost(n.lost) \/ SymTabLost(s.lost) \/ SymTabKept({})
    BY Zenon DEF LoadSymTab
  <2>2. /\ x.lost \subseteq {"ehdr", "sstab", "content"}
        /\ n.lost \subseteq {"ehdr", "sstab", "content"}
        /\ s.lost \subseteq {"ehdr", "sstab", "content"}
    BY <1>2, ExtractType
  <2> QED BY <2>1, <2>2 DEF NoSymbols
<1>5. up' \in BOOLEAN
  BY <1>1, Zenon DEF LoadSymTab
<1>6. "symtab" \in Kind /\ "scntab" \in Kind /\ "file" \in Kind
  BY DEF Kind, Temporary
<1>7. live["symtab"] >= 1 /\ live["file"] >= 1 /\ (scntab = "live" => live["scntab"] >= 1)
  BY <1>0, <1>1, <1>2 DEF Held
<1>8. /\ live' \in [Kind -> Nat]
      /\ \A k \in Kind \ {"symtab"} : live'[k] >= live[k]
      /\ symtab' \in {"live", "dangling"}
      /\ symtab' = "live" => live'["symtab"] >= 1
  <2>1. CASE SymTabLost(blocks)
    <3>1. symtab' = "dangling" /\ live' = After(live, blocks, {"symtab"})
      BY <2>1 DEF SymTabLost
    <3>2. \A k \in {"symtab"} \ blocks : live[k] >= 1
      BY <1>7
    <3>3. /\ live' \in [Kind -> Nat]
          /\ \A k \in Kind : live'[k] =
               live[k] + (IF k \in blocks THEN 1 ELSE 0) - (IF k \in {"symtab"} THEN 1 ELSE 0)
      BY <1>3, <3>1, <3>2, AfterType
    <3> QED BY <1>3, <3>1, <3>3
  <2>2. CASE SymTabKept(blocks)
    <3>1. symtab' = "live" /\ live' = After(live, blocks, {})
      BY <2>2 DEF SymTabKept
    <3>2. /\ live' \in [Kind -> Nat]
          /\ \A k \in Kind : live'[k] =
               live[k] + (IF k \in blocks THEN 1 ELSE 0) - (IF k \in {} THEN 1 ELSE 0)
      BY <1>3, <3>1, AfterType
    <3> QED BY <1>3, <1>6, <1>7, <3>1, <3>2
  <2> QED BY <1>4, <2>1, <2>2
<1>9. /\ mapped' => live'["map"] >= 1
      /\ Segments' <= live'["segment"]
      /\ Contents' <= live'["content"]
      /\ mapped' \in BOOLEAN /\ DOMAIN slots' = Slot
  <2>1. \A k \in {"map", "segment", "content"} : k \in Kind \ {"symtab"}
    BY Kinds
  <2>2. live'["map"] >= live["map"] /\ live'["segment"] >= live["segment"]
          /\ live'["content"] >= live["content"]
    BY <1>8, <2>1
  <2> QED BY <1>0, <1>1, <1>8, <2>2, MemoryKept
<1>10. count' = count /\ before' = before
  BY <1>1 DEF session
<1>11. TypeOK'
  BY <1>0, <1>1, <1>5, <1>8, <1>9, <1>10 DEF TypeOK
<1>12. Held'
  <2>1. live'["file"] >= 1 /\ (scntab' = "live" => live'["scntab"] >= 1)
    <3>1. "file" \in Kind \ {"symtab"} /\ "scntab" \in Kind \ {"symtab"}
      BY <1>6
    <3>2. live'["file"] >= live["file"] /\ live'["scntab"] >= live["scntab"]
      BY <1>8, <3>1
    <3>3. /\ live["file"] \in Nat /\ live["scntab"] \in Nat
          /\ live'["file"] \in Nat /\ live'["scntab"] \in Nat
      BY <1>3, <1>6, <1>8
    <3>4. \A a, b \in Nat : a >= 1 /\ b >= a => b >= 1
      OBVIOUS
    <3>5. live'["file"] >= 1
      BY <1>7, <3>2, <3>3, <3>4
    <3>6. scntab = "live" => live'["scntab"] >= 1
      BY <1>7, <3>2, <3>3, <3>4
    <3> QED BY <1>1, <3>5, <3>6
  <2> QED BY <1>8, <1>9, <2>1 DEF Held, Contents
<1>13. Control'
  BY <1>1, <1>2, Labels DEF Control
<1>14. Sound(file) => symtab' = "live" /\ live' = After(live, {}, {})
  BY <1>2, SoundSymbols DEF SymTabKept
<1>15. SoundInv'
  BY <1>0, <1>1, <1>14 DEF SoundInv
<1>16. TidyInv'
  <2> SUFFICES ASSUME Sound(file), NEW k \in Temporary
               PROVE  live'[k] = before[k] + Owed(k)'
    BY <1>1, <1>10 DEF TidyInv
  <2>1. k \in Kind /\ live[k] \in Nat /\ before[k] \in Nat
    BY <1>0, Kinds, Parts
  <2>2. pc \notin Loading /\ pc' \notin Loading
    BY <1>1, Labels
  <2>3. live[k] = before[k] + Owed(k)
    BY <1>0, <1>1 DEF TidyInv
  <2>4. Owed(k)' = Owed(k)
    BY <1>1, <2>2 DEF Owed
  <2>5. live'[k] = live[k]
    BY <1>14, <2>1 DEF After
  <2> QED BY <2>3, <2>4, <2>5
<1>17. Tidy'
  BY <1>1 DEF Tidy
<1> QED BY <1>11, <1>12, <1>13, <1>15, <1>16, <1>17 DEF IInv
(* The memory, its segments and the end of a load.                         *)
LEMMA NewMemoryInv == IInv /\ NewMemory => IInv'
<1> SUFFICES ASSUME IInv, NewMemory PROVE IInv'
  OBVIOUS
<1>0. TypeOK /\ Held /\ Control /\ SoundInv /\ TidyInv
  BY DEF IInv
<1>1. /\ up /\ pc = "memory" /\ pc' = Wanted[1]
      /\ mapped' = TRUE /\ nseg' = 0 /\ up' = file.ehdr
      /\ UNCHANGED <<file, symtab, scntab, ret, ub, session, loaded>>
  BY DEF NewMemory, At
<1>a. /\ slots' = [i \in Slot |-> NULL]
      /\ live' = [live EXCEPT
           !["segment"] = @ - Segments,
           !["map"] = IF mapped THEN @ ELSE @ + 1,
           !["ehdr"] = IF HeaderAllocated(file) THEN @ + 1 ELSE @]
  BY DEF NewMemory, NewSlots
<1>b. /\ pc' \in Loading
      /\ pc' \notin {"idle", "section table", "symbol table", "memory", "stack"}
      /\ \A k \in 1..4 : pc' = Wanted[k] => k = 1
  <2>1. 1 \in 1..4
    OBVIOUS
  <2> QED BY <1>1, <2>1, Labels
<1>2. file \in Files
  BY <1>0, <1>1 DEF Control
<1>3. live \in [Kind -> Nat] /\ \A k \in Kind : live[k] \in Nat
  BY <1>0, Parts
<1>4. /\ "map" \in Kind /\ "segment" \in Kind /\ "content" \in Kind /\ "ehdr" \in Kind
      /\ "symtab" \in Kind /\ "scntab" \in Kind /\ "file" \in Kind
  BY DEF Kind, Temporary
<1>5. Segments <= live["segment"] /\ Segments \in Nat
  BY <1>0, SlotSets DEF Held, Segments
<1>6. /\ live' \in [Kind -> Nat]
      /\ live'["map"] = (IF mapped THEN live["map"] ELSE live["map"] + 1)
      /\ live'["segment"] = live["segment"] - Segments
      /\ live'["ehdr"] = (IF HeaderAllocated(file) THEN live["ehdr"] + 1 ELSE live["ehdr"])
      /\ \A k \in Kind \ {"map", "segment", "ehdr"} : live'[k] = live[k]
  <2> DEFINE s == live["segment"] - Segments
             m == IF mapped THEN live["map"] ELSE live["map"] + 1
             e == IF HeaderAllocated(file) THEN live["ehdr"] + 1 ELSE live["ehdr"]
  <2>1. s \in Nat /\ m \in Nat /\ e \in Nat
    BY <1>3, <1>4, <1>5
  <2>2. live' = [live EXCEPT !["segment"] = s, !["map"] = m, !["ehdr"] = e]
    BY <1>a, <1>3, <1>4
  <2> HIDE DEF s, m, e
  <2>3. /\ live' \in [Kind -> Nat]
        /\ live'["map"] = m /\ live'["segment"] = s /\ live'["ehdr"] = e
        /\ \A k \in Kind \ {"map", "segment", "ehdr"} : live'[k] = live[k]
    BY <1>3, <1>4, <2>1, <2>2
  <2> QED BY <2>3 DEF s, m, e
<1>7. DOMAIN slots' = Slot /\ \A i \in Slot : slots'[i] = NULL
  BY <1>a
<1>8. Segments' = 0 /\ Contents' = 0
  <2>1. /\ {i \in Slot : slots'[i] # NULL} = {}
        /\ {i \in Slot : HasContent(slots'[i])} = {}
    BY <1>7 DEF HasContent
  <2> QED BY <2>1, NoSlot DEF Segments, Contents
<1>9. IsFile(file)
  BY <1>2, FileType
<1>10. count' = count /\ before' = before
  BY <1>1 DEF session
<1>11. TypeOK'
  <2>1. nseg' \in Slot
    BY <1>1 DEF Slot
  <2>2. pc' \in {Wanted[k] : k \in 1..Len(Wanted)}
    <3>1. 1 \in 1..Len(Wanted)
      <4>1. Len(Wanted) = 4
        BY Labels
      <4> QED BY <4>1
    <3> QED BY <1>1, <3>1, Zenon
  <2>3. up' \in BOOLEAN
    BY <1>1, <1>9, Zenon DEF IsFile
  <2> QED BY <1>0, <1>1, <1>6, <1>7, <1>10, <2>1, <2>2, <2>3 DEF TypeOK
<1>12. Held'
  <2>1. /\ mapped => live["map"] >= 1
        /\ symtab = "live" => live["symtab"] >= 1
        /\ scntab = "live" => live["scntab"] >= 1
        /\ live["file"] >= 1
    BY <1>0, <1>1 DEF Held
  <2>2. live'["map"] >= 1
    BY <1>3, <1>4, <1>6, <2>1
  <2>3. /\ live'["symtab"] = live["symtab"] /\ live'["scntab"] = live["scntab"]
        /\ live'["file"] = live["file"]
    BY <1>4, <1>6
  <2>4. /\ symtab' = "live" => live'["symtab"] >= 1
        /\ scntab' = "live" => live'["scntab"] >= 1
        /\ live'["file"] >= 1
    BY <1>1, <2>1, <2>3
  <2>5. Segments' <= live'["segment"] /\ Contents' <= live'["content"]
    BY <1>4, <1>6, <1>8
  <2> QED BY <2>2, <2>4, <2>5 DEF Held, Contents
<1>13. Control'
  <2>1. up' => live'["ehdr"] >= 1
    <3>1. file.ehdr => HeaderAllocated(file)
      BY <1>9 DEF IsFile, HeaderAllocated
    <3> QED BY <1>1, <1>3, <1>4, <1>6, <3>1
  <2>2. \A k \in 1..4 : pc' = Wanted[k] => nseg' <= k - 1
    <3>1. nseg' = 0 /\ \A k \in 1..4 : pc' = Wanted[k] => k = 1
      BY <1>1, <1>b
    <3>2. \A k \in 1..4 : k = 1 => 0 <= k - 1
      OBVIOUS
    <3> QED BY <3>1, <3>2
  <2>3. file' = file
    BY <1>1
  <2> QED BY <1>2, <1>b, <2>1, <2>2, <2>3 DEF Control
<1>14. SoundInv'
  BY <1>0, <1>1, <1>b DEF SoundInv
<1>15. TidyInv'
  <2> SUFFICES ASSUME Sound(file), NEW k \in Temporary
               PROVE  live'[k] = before[k] + Owed(k)'
    <3>1. file' = file
      BY <1>1
    <3> QED BY <1>10, <3>1 DEF TidyInv
  <2>1. k \in Kind /\ live[k] \in Nat /\ before[k] \in Nat
    BY <1>0, Kinds, Parts
  <2>2. pc \notin Loading /\ pc # "section table"
    BY <1>1, Labels
  <2>3. live[k] = before[k] + Owed(k)
    BY <1>0, <1>1 DEF TidyInv
  <2>4. Owed(k)' = Owed(k) + IF k = "ehdr" THEN 1 ELSE 0
    <3>1. /\ Owed(k) = IF k \in {"file", "symtab", "scntab"} THEN 1 ELSE 0
          /\ Owed(k)' = IF k \in {"file", "symtab", "scntab", "ehdr"} THEN 1 ELSE 0
      BY <1>b, <2>2 DEF Owed, Temporary
    <3> QED BY <3>1
  <2>5. Owed(k) \in {0, 1}
    BY DEF Owed
  <2>6. HeaderAllocated(file)
    BY DEF Sound, HeaderAllocated
  <2>7. live'[k] = live[k] + IF k = "ehdr" THEN 1 ELSE 0
    BY <1>4, <1>6, <2>1, <2>6, Kinds
  <2> QED BY <2>1, <2>3, <2>4, <2>5, <2>7
<1>16. Tidy'
  BY <1>b DEF Tidy
<1> QED BY <1>11, <1>12, <1>13, <1>14, <1>15, <1>16 DEF IInv

(* A slot written holds at most one segment, and one content, more.        *)
LEMMA SlotWritten ==
  ASSUME DOMAIN slots = Slot, NEW n \in Slot, NEW seg, slots' = [slots EXCEPT ![n] = seg]
  PROVE  /\ DOMAIN slots' = Slot
         /\ Segments' <= Segments + 1
         /\ Contents' <= Contents + 1
         /\ ~HasContent(seg) => Contents' <= Contents
         /\ Segments \in Nat /\ Contents \in Nat /\ Segments' \in Nat /\ Contents' \in Nat
<1> DEFINE S == {i \in Slot : slots[i] # NULL}
           T == {i \in Slot : slots'[i] # NULL}
           C == {i \in Slot : HasContent(slots[i])}
           D == {i \in Slot : HasContent(slots'[i])}
<1>1. DOMAIN slots' = Slot /\ \A i \in Slot : slots'[i] = IF i = n THEN seg ELSE slots[i]
  OBVIOUS
<1>2. T \subseteq S \union {n} /\ D \subseteq C \union {n} /\ (~HasContent(seg) => D \subseteq C)
  BY <1>1
<1>3. /\ Segments = Cardinality(S) /\ Segments' = Cardinality(T)
      /\ Contents = Cardinality(C) /\ Contents' = Cardinality(D)
  BY DEF Segments, Contents
<1>4. S \in SUBSET Slot /\ T \in SUBSET Slot /\ C \in SUBSET Slot /\ D \in SUBSET Slot
  OBVIOUS
<1> HIDE DEF S, T, C, D
<1>5. Cardinality(T) <= Cardinality(S) + 1
  BY <1>2, <1>4, OneMore
<1>6. Cardinality(D) <= Cardinality(C) + 1
  BY <1>2, <1>4, OneMore
<1>7. D \subseteq C => Cardinality(D) <= Cardinality(C)
  BY <1>4, SlotSets, FS_Subset
<1> QED BY <1>1, <1>2, <1>3, <1>4, <1>5, <1>6, <1>7, SlotSets
LEMMA AtMost == \A a, b, c, d \in Nat : a <= b + 1 /\ b <= c /\ c + 1 <= d => a <= d
OBVIOUS

LEMMA AtMostSame == \A a, b, c, d \in Nat : a <= b /\ b <= c /\ c <= d => a <= d
OBVIOUS

LEMMA AtLeast == \A a, b \in Nat : a >= 1 /\ b >= a => b >= 1
OBVIOUS

LEMMA LoadSectionInv ==
  ASSUME IInv, NEW k \in 1..4, LoadSection(k)
  PROVE  IInv'
<1>0. TypeOK /\ Held /\ Control /\ SoundInv /\ TidyInv
  BY DEF IInv
<1>1. /\ up /\ pc = Wanted[k]
      /\ pc' = (IF k = Len(Wanted) THEN "stack" ELSE Wanted[k + 1])
      /\ UNCHANGED <<file, symtab, scntab, mapped, ret, up, ub, session, loaded>>
  BY DEF LoadSection, At
<1>2. /\ pc \in Loading
      /\ pc \notin {"idle", "section table", "symbol table", "memory", "stack"}
  BY <1>1, Labels
<1>3. /\ pc' \in Loading
      /\ pc' \notin {"idle", "section table", "symbol table", "memory"}
      /\ \A j \in 1..4 : pc' = Wanted[j] => j = k + 1
      /\ pc' \in {"stack"} \union {Wanted[j] : j \in 1..Len(Wanted)}
  <2>1. CASE k = 4
    <3>1. pc' = "stack"
      BY <1>1, <2>1, Labels
    <3> QED BY <3>1, Labels DEF Loading
  <2>2. CASE k # 4
    <3>1. k + 1 \in 1..4
      BY <2>2
    <3>2. pc' = Wanted[k + 1]
      BY <1>1, <2>2, Labels
    <3>3. \A j \in 1..4 : pc' = Wanted[j] => j = k + 1
      BY <3>1, <3>2, Labels
    <3>4. pc' \in {Wanted[j] : j \in 1..Len(Wanted)}
      BY <3>1, <3>2, Labels
    <3> QED BY <3>1, <3>2, <3>3, <3>4, Labels
  <2> QED BY <2>1, <2>2
<1>4. file \in Files /\ live["ehdr"] >= 1 /\ nseg <= k - 1
  BY <1>0, <1>1, <1>2 DEF Control
<1>5. /\ live \in [Kind -> Nat] /\ before \in [Kind -> Nat] /\ \A j \in Kind : live[j] \in Nat
      /\ nseg \in Slot
  BY <1>0, Parts
<1>6. PICK x \in Extract(file, Wanted[k]) :
        /\ nseg' = NextSlot(x.hdr # 0)
        /\ IF x.hdr = 0
           THEN /\ slots' = [slots EXCEPT ![nseg] = Segment(Wanted[k], NULL)]
                /\ live' = After(live, {"segment"} \union x.lost, {})
           ELSE /\ slots' = [slots EXCEPT ![nseg] =
                              Segment(Wanted[k], file.headers[x.hdr].name)]
                /\ live' = After(live, {"segment", "content"}, {})
  BY DEF LoadSection
<1>7. x.lost \subseteq {"ehdr", "sstab", "content"}
  BY <1>4, ExtractType
<1>b. PICK new \in SUBSET {"ehdr", "sstab", "segment", "content"} : \E seg :
        /\ live' = After(live, new, {}) /\ slots' = [slots EXCEPT ![nseg] = seg]
        /\ "segment" \in new
        /\ "content" \in new \/ ~HasContent(seg)
        /\ x.lost = {} => new \intersect Temporary = {}
  <2>1. CASE x.hdr = 0
    <3> DEFINE new == {"segment"} \union x.lost
    <3>1. new \in SUBSET {"ehdr", "sstab", "segment", "content"} /\ "segment" \in new
      BY <1>7
    <3>2. ~HasContent(Segment(Wanted[k], NULL))
      BY DEF HasContent, Segment
    <3>3. x.lost = {} => new \intersect Temporary = {}
      BY DEF Temporary
    <3>4. live' = After(live, new, {}) /\ slots' = [slots EXCEPT ![nseg] = Segment(Wanted[k], NULL)]
      BY <1>6, <2>1, Zenon
    <3> HIDE DEF new
    <3> QED BY <3>1, <3>2, <3>3, <3>4
  <2>2. CASE x.hdr # 0
    <3> DEFINE new == {"segment", "content"}
               seg == Segment(Wanted[k], file.headers[x.hdr].name)
    <3>1. new \in SUBSET {"ehdr", "sstab", "segment", "content"}
      OBVIOUS
    <3>2. "segment" \in new /\ "content" \in new /\ new \intersect Temporary = {}
      BY DEF Temporary
    <3>3. live' = After(live, new, {}) /\ slots' = [slots EXCEPT ![nseg] = seg]
      BY <1>6, <2>2, Zenon
    <3> HIDE DEF new, seg
    <3> QED BY <3>1, <3>2, <3>3
  <2> QED BY <2>1, <2>2
<1>8. PICK seg :
        /\ live' = After(live, new, {}) /\ slots' = [slots EXCEPT ![nseg] = seg]
        /\ "segment" \in new
        /\ "content" \in new \/ ~HasContent(seg)
        /\ x.lost = {} => new \intersect Temporary = {}
  BY <1>b
<1>9. /\ live' \in [Kind -> Nat]
      /\ \A j \in Kind : live'[j] = live[j] + (IF j \in new THEN 1 ELSE 0)
      /\ \A j \in Kind : live'[j] >= live[j]
  <2>1. /\ live' \in [Kind -> Nat]
        /\ \A j \in Kind : live'[j] =
             live[j] + (IF j \in new THEN 1 ELSE 0) - (IF j \in {} THEN 1 ELSE 0)
    BY <1>5, <1>8, AfterType
  <2> QED BY <1>5, <2>1
<1>10. /\ "map" \in Kind /\ "segment" \in Kind /\ "content" \in Kind /\ "ehdr" \in Kind
       /\ "symtab" \in Kind /\ "scntab" \in Kind /\ "file" \in Kind
  BY DEF Kind, Temporary
<1>11. DOMAIN slots = Slot
  BY <1>0, Zenon DEF TypeOK
<1>12. /\ DOMAIN slots' = Slot
       /\ Segments' <= Segments + 1
       /\ Contents' <= Contents + 1
       /\ ~HasContent(seg) => Contents' <= Contents
       /\ Segments \in Nat /\ Contents \in Nat /\ Segments' \in Nat /\ Contents' \in Nat
  BY <1>5, <1>8, <1>11, SlotWritten
<1>13. count' = count /\ before' = before
  BY <1>1 DEF session
<1>14. nseg' \in Slot /\ nseg' <= k
  <2>1. nseg' \in {nseg, nseg + 1}
    BY <1>6, Zenon DEF NextSlot
  <2> QED BY <1>4, <1>5, <2>1 DEF Slot
<1>15. TypeOK'
  <2>1. pc' \in {"stack"} \union {Wanted[j] : j \in 1..Len(Wanted)}
    BY <1>3
  <2> QED BY <1>0, <1>1, <1>9, <1>12, <1>13, <1>14, <2>1 DEF TypeOK
<1>16. Held'
  <2>1. /\ mapped => live["map"] >= 1
        /\ Segments <= live["segment"] /\ Contents <= live["content"]
        /\ symtab = "live" => live["symtab"] >= 1
        /\ scntab = "live" => live["scntab"] >= 1
        /\ live["file"] >= 1
    BY <1>0, <1>2 DEF Held, Contents
  <2>2. \A j \in Kind : live[j] \in Nat /\ live'[j] \in Nat
    BY <1>5, <1>9
  <2>3. /\ mapped => live'["map"] >= 1
        /\ symtab = "live" => live'["symtab"] >= 1
        /\ scntab = "live" => live'["scntab"] >= 1
        /\ live'["file"] >= 1
    BY <1>9, <1>10, <2>1, <2>2, AtLeast
  <2>4. Segments' <= live'["segment"]
    <3>1. live["segment"] + 1 <= live'["segment"]
      BY <1>5, <1>8, <1>9, <1>10
    <3> QED BY <1>10, <1>12, <2>1, <2>2, <3>1, AtMost
  <2>5. Contents' <= live'["content"]
    <3>1. CASE "content" \in new
      <4>1. live["content"] + 1 <= live'["content"]
        BY <1>5, <1>9, <1>10, <3>1
      <4> QED BY <1>10, <1>12, <2>1, <2>2, <4>1, AtMost
    <3>2. CASE ~HasContent(seg)
      <4>1. live["content"] <= live'["content"]
        BY <1>9, <1>10
      <4> QED BY <1>10, <1>12, <2>1, <2>2, <3>2, <4>1, AtMostSame
    <3> QED BY <1>8, <3>1, <3>2
  <2>6. mapped' = mapped /\ symtab' = symtab /\ scntab' = scntab
    BY <1>1
  <2> QED BY <2>3, <2>4, <2>5, <2>6 DEF Held, Contents
<1>17. Control'
  <2>1. live'["ehdr"] >= 1
    <3>1. live["ehdr"] \in Nat /\ live'["ehdr"] \in Nat /\ live'["ehdr"] >= live["ehdr"]
      BY <1>5, <1>9, <1>10
    <3> QED BY <1>4, <3>1, AtLeast
  <2>2. \A j \in 1..4 : pc' = Wanted[j] => nseg' <= j - 1
    <3> SUFFICES ASSUME NEW j \in 1..4, pc' = Wanted[j]
                 PROVE  nseg' <= j - 1
      OBVIOUS
    <3>1. j - 1 = k
      <4>1. j = k + 1
        BY <1>3
      <4> QED BY <4>1
    <3> QED BY <1>14, <3>1
  <2>3. file' = file
    BY <1>1
  <2> QED BY <1>3, <1>4, <2>1, <2>2, <2>3 DEF Control
<1>18. SoundInv'
  BY <1>0, <1>1, <1>2 DEF SoundInv
<1>19. TidyInv'
  <2> SUFFICES ASSUME Sound(file), NEW j \in Temporary
               PROVE  live'[j] = before[j] + Owed(j)'
    <3>1. file' = file
      BY <1>1
    <3> QED BY <1>13, <3>1 DEF TidyInv
  <2>1. j \in Kind
    BY Kinds
  <2>2. live[j] = before[j] + Owed(j)
    BY <1>0, <1>2 DEF TidyInv
  <2>3. Owed(j)' = Owed(j)
    BY <1>2, <1>3 DEF Owed
  <2>4. Wanted[k] \in Searched
    BY DEF Searched
  <2>5. x.lost = {}
    BY <1>4, <2>4, SoundExtract
  <2>6. j \notin new
    BY <1>8, <2>5
  <2>7. live'[j] = live[j]
    BY <1>5, <1>9, <2>1, <2>6
  <2> QED BY <2>2, <2>3, <2>7
<1>20. Tidy'
  BY <1>3 DEF Tidy
<1> QED BY <1>15, <1>16, <1>17, <1>18, <1>19, <1>20 DEF IInv
LEMMA FinishInv == IInv /\ Finish => IInv'
<1> SUFFICES ASSUME IInv, Finish PROVE IInv'
  OBVIOUS
<1>0. TypeOK /\ Held /\ Control /\ SoundInv /\ TidyInv
  BY DEF IInv
<1>1. /\ up /\ pc = "stack" /\ pc' = "idle"
      /\ up' = (nseg > 0) /\ symtab' = "unset" /\ scntab' = "unset"
      /\ ret' = OK /\ loaded' = Append(loaded, file)
      /\ UNCHANGED <<file, mapped, nseg, session>>
  BY DEF Finish, At
<1>2. ub' \in BOOLEAN
  <2>1. ub' = (ub \/ symtab = "dangling") \/ ub' = TRUE
    BY DEF Finish
  <2> QED BY <2>1
<1>3. /\ slots' = [slots EXCEPT ![PLACESTHEAP] = Segment("STACK/HEAP", "STACK/HEAP")]
      /\ live' = After(live, {"segment", "content"}, GivenBack)
  BY DEF Finish
<1>4. pc \in Loading
  BY <1>1 DEF Loading
<1>5. file \in Files /\ live["ehdr"] >= 1
  BY <1>0, <1>1, <1>4 DEF Control
<1>6. /\ live \in [Kind -> Nat] /\ before \in [Kind -> Nat]
      /\ \A k \in Kind : live[k] \in Nat /\ before[k] \in Nat
  BY <1>0, Parts
<1>7. /\ mapped => live["map"] >= 1
      /\ Segments <= live["segment"] /\ Contents <= live["content"]
      /\ symtab = "live" => live["symtab"] >= 1
      /\ scntab = "live" => live["scntab"] >= 1
      /\ live["file"] >= 1
  BY <1>0, <1>1 DEF Held, Contents
<1>8. /\ GivenBack \subseteq {"ehdr", "file", "symtab", "scntab"}
      /\ {"ehdr", "file"} \subseteq GivenBack
      /\ "symtab" \in GivenBack <=> symtab = "live"
      /\ "scntab" \in GivenBack <=> scntab = "live"
  BY DEF GivenBack
<1>9. /\ live' \in [Kind -> Nat]
      /\ \A k \in Kind : live'[k] = live[k] + (IF k \in {"segment", "content"} THEN 1 ELSE 0)
                                            - (IF k \in GivenBack THEN 1 ELSE 0)
  <2>1. \A k \in GivenBack \ {"segment", "content"} : live[k] >= 1
    BY <1>5, <1>7, <1>8
  <2> HIDE DEF GivenBack
  <2> QED BY <1>3, <1>6, <2>1, AfterType
<1>10. /\ "map" \in Kind /\ "segment" \in Kind /\ "content" \in Kind /\ "ehdr" \in Kind
       /\ "symtab" \in Kind /\ "scntab" \in Kind /\ "file" \in Kind
  BY DEF Kind, Temporary
<1>11. DOMAIN slots = Slot
  BY <1>0, Zenon DEF TypeOK
<1>12. PLACESTHEAP \in Slot
  BY DEF PLACESTHEAP, Slot
<1>13. /\ DOMAIN slots' = Slot
       /\ Segments' <= Segments + 1
       /\ Contents' <= Contents + 1
       /\ Segments \in Nat /\ Contents \in Nat /\ Segments' \in Nat /\ Contents' \in Nat
  BY <1>3, <1>11, <1>12, SlotWritten
<1>14. count' = count /\ before' = before
  BY <1>1 DEF session
<1>15. TypeOK'
  <2>1. loaded \in Seq(Files)
    BY <1>0, Zenon DEF TypeOK
  <2>2. loaded' \in Seq(Files)
    BY <1>1, <1>5, <2>1
  <2>3. up' \in BOOLEAN
    <3>1. up' = (nseg > 0)
      BY <1>1
    <3> QED BY <3>1
  <2> QED BY <1>0, <1>1, <1>2, <1>9, <1>13, <1>14, <2>2, <2>3 DEF TypeOK
<1>16. Held'
  <2>1. "map" \notin GivenBack /\ "segment" \notin GivenBack /\ "content" \notin GivenBack
    BY <1>8
  <2>2. /\ live'["map"] = live["map"]
        /\ live'["segment"] = live["segment"] + 1
        /\ live'["content"] = live["content"] + 1
    BY <1>6, <1>9, <1>10, <2>1
  <2>3. mapped' = mapped
    BY <1>1
  <2>4. Segments' <= live'["segment"] /\ Contents' <= live'["content"]
    <3>1. /\ live["segment"] \in Nat /\ live["content"] \in Nat
          /\ live'["segment"] \in Nat /\ live'["content"] \in Nat
      BY <1>6, <1>9, <1>10
    <3>2. live["segment"] + 1 <= live'["segment"] /\ live["content"] + 1 <= live'["content"]
      BY <2>2, <3>1
    <3> QED BY <1>7, <1>13, <3>1, <3>2, AtMost
  <2> QED BY <1>1, <1>7, <2>2, <2>3, <2>4 DEF Held, Contents
<1>17. Control'
  BY <1>1, Labels DEF Control
<1>18. SoundInv' /\ TidyInv'
  BY <1>1 DEF SoundInv, TidyInv
<1>19. Tidy'
  <2> SUFFICES ASSUME Sound(file), NEW k \in Temporary
               PROVE  live'[k] = before[k]
    <3>1. file' = file
      BY <1>1
    <3> QED BY <1>14, <3>1 DEF Tidy
  <2>1. k \in Kind /\ k \notin {"segment", "content"}
    BY Kinds
  <2>2. live[k] = before[k] + Owed(k)
    BY <1>0, <1>1 DEF TidyInv
  <2>3. symtab = "live" /\ scntab = "live"
    BY <1>0, <1>1 DEF SoundInv
  <2>4. Owed(k) = IF k \in GivenBack THEN 1 ELSE 0
    <3>1. k \in GivenBack <=> k \in {"ehdr", "file", "symtab", "scntab"}
      BY <1>8, <2>3
    <3>2. Owed(k) = IF k \in {"ehdr", "file", "symtab", "scntab"} THEN 1 ELSE 0
      BY <1>1, <1>4 DEF Owed, Temporary
    <3> QED BY <3>1, <3>2
  <2>5. live'[k] = live[k] - (IF k \in GivenBack THEN 1 ELSE 0)
    BY <1>6, <1>9, <2>1
  <2> HIDE DEF GivenBack
  <2> QED BY <1>6, <2>1, <2>2, <2>4, <2>5
<1> QED BY <1>15, <1>16, <1>17, <1>18, <1>19 DEF IInv

LEMMA QuitInv == IInv /\ Quit => IInv'
<1> SUFFICES ASSUME IInv, Quit PROVE IInv'
  OBVIOUS
<1>0. TypeOK /\ Held /\ Tidy
  BY DEF IInv
<1>1. /\ up /\ pc = "idle" /\ pc' = pc /\ mapped' = FALSE /\ up' = FALSE
      /\ UNCHANGED <<file, symtab, scntab, nseg, ret, ub, session, loaded>>
  BY DEF Quit, At
<1>2. /\ slots' = [i \in Slot |-> NULL]
      /\ live' = [live EXCEPT
           !["segment"] = @ - Segments,
           !["content"] = @ - Contents,
           !["map"] = IF mapped THEN @ - 1 ELSE @]
  BY DEF Quit
<1>3. live \in [Kind -> Nat] /\ \A k \in Kind : live[k] \in Nat
  BY <1>0, Parts
<1>4. "map" \in Kind /\ "segment" \in Kind /\ "content" \in Kind
  BY Kinds
<1>5. /\ Segments \in Nat /\ Segments <= live["segment"]
      /\ Contents \in Nat /\ Contents <= live["content"]
      /\ mapped => live["map"] >= 1
  BY <1>0, SlotSets DEF Held, Segments, Contents
<1>6. /\ live' \in [Kind -> Nat]
      /\ \A k \in Kind \ {"map", "segment", "content"} : live'[k] = live[k]
  <2> DEFINE s == live["segment"] - Segments
             c == live["content"] - Contents
             m == IF mapped THEN live["map"] - 1 ELSE live["map"]
  <2>1. s \in Nat /\ c \in Nat /\ m \in Nat
    BY <1>3, <1>4, <1>5
  <2>2. live' = [live EXCEPT !["segment"] = s, !["content"] = c, !["map"] = m]
    BY <1>2, <1>3, <1>4
  <2> HIDE DEF s, c, m
  <2> QED BY <1>3, <1>4, <2>1, <2>2
<1>7. DOMAIN slots' = Slot /\ \A i \in Slot : slots'[i] = NULL
  BY <1>2
<1>8. Segments' = 0 /\ Contents' = 0
  <2>1. /\ {i \in Slot : slots'[i] # NULL} = {}
        /\ {i \in Slot : HasContent(slots'[i])} = {}
    BY <1>7 DEF HasContent
  <2> QED BY <2>1, NoSlot DEF Segments, Contents
<1>9. count' = count /\ before' = before
  BY <1>1 DEF session
<1>10. TypeOK'
  BY <1>0, <1>1, <1>6, <1>7, <1>9 DEF TypeOK
<1>11. Held'
  <2>1. /\ symtab = "live" => live["symtab"] >= 1
        /\ scntab = "live" => live["scntab"] >= 1
    BY <1>0 DEF Held
  <2>2. /\ "symtab" \in Kind \ {"map", "segment", "content"}
        /\ "scntab" \in Kind \ {"map", "segment", "content"}
    BY DEF Kind, Temporary
  <2>3. live'["symtab"] = live["symtab"] /\ live'["scntab"] = live["scntab"]
    BY <1>6, <2>2
  <2>4. Segments' <= live'["segment"] /\ Contents' <= live'["content"]
    BY <1>4, <1>6, <1>8
  <2>5. symtab' = symtab /\ scntab' = scntab
    BY <1>1
  <2> QED BY <1>1, <2>1, <2>3, <2>4, <2>5 DEF Held, Contents
<1>12. Control'
  BY <1>1, Labels DEF Control
<1>13. SoundInv' /\ TidyInv'
  BY <1>1 DEF SoundInv, TidyInv
<1>14. Tidy'
  <2>1. \A k \in Temporary : live'[k] = live[k]
    BY <1>6, Kinds
  <2>2. UNCHANGED <<pc, file, ret>>
    BY <1>1
  <2> QED BY <1>0, <1>9, <2>1, <2>2 DEF Tidy
<1> QED BY <1>10, <1>11, <1>12, <1>13, <1>14 DEF IInv

(* The death of the emulator, and steps that change nothing.               *)
LEMMA StillInv ==
  ASSUME IInv, up' \in BOOLEAN, up' => up,
         UNCHANGED <<pc, file, live, symtab, scntab, memory, nseg, ret, ub, session, loaded>>
  PROVE  IInv'
<1>0. TypeOK /\ Held /\ Control /\ SoundInv /\ TidyInv /\ Tidy
  BY DEF IInv
<1>1. /\ UNCHANGED <<pc, file, live, symtab, scntab, nseg, ret, ub, loaded>>
      /\ mapped' = mapped /\ slots' = slots /\ count' = count /\ before' = before
  BY DEF memory, session
<1>2. TypeOK'
  BY <1>0, <1>1 DEF TypeOK
<1>3. Held'
  BY <1>0, <1>1 DEF Held, Segments
<1>4. Control'
  BY <1>0, <1>1 DEF Control
<1>5. SoundInv'
  BY <1>0, <1>1 DEF SoundInv
<1>6. TidyInv'
  BY <1>0, <1>1 DEF TidyInv, Owed
<1>7. Tidy'
  BY <1>0, <1>1 DEF Tidy
<1> QED BY <1>2, <1>3, <1>4, <1>5, <1>6, <1>7 DEF IInv

LEMMA NextInv == IInv /\ [Next]_vars => IInv'
<1> SUFFICES ASSUME IInv, [Next]_vars PROVE IInv'
  OBVIOUS
<1>1. CASE LoadMissing
  BY <1>1, GivenUp DEF LoadMissing
<1>2. CASE LoadRefused
  BY <1>2, GivenUp DEF LoadRefused
<1>3. CASE LoadAccepted
  BY <1>3, LoadAcceptedInv
<1>4. CASE LoadScnTab
  BY <1>4, LoadScnTabInv
<1>5. CASE LoadSymTab
  BY <1>5, LoadSymTabInv
<1>6. CASE NewMemory
  BY <1>6, NewMemoryInv
<1>7. ASSUME NEW k \in 1..Len(Wanted), LoadSection(k) PROVE IInv'
  <2>1. k \in 1..4
    BY Labels
  <2> QED BY <1>7, <2>1, LoadSectionInv
<1>8. CASE Finish
  BY <1>8, FinishInv
<1>9. CASE HeapBreaks
  BY <1>9, StillInv DEF HeapBreaks
<1>10. CASE Quit
  BY <1>10, QuitInv
<1>11. CASE Over \/ UNCHANGED vars
  <2>1. up' = up /\ UNCHANGED <<pc, file, live, symtab, scntab, memory, nseg, ret, ub, session, loaded>>
    BY <1>11 DEF Over, vars, memory, session
  <2>2. up \in BOOLEAN
    BY Zenon DEF IInv, TypeOK
  <2> QED BY <2>1, <2>2, StillInv
<1> QED BY <1>1, <1>2, <1>3, <1>4, <1>5, <1>6, <1>7, <1>8, <1>9, <1>10, <1>11 DEF Next

-----------------------------------------------------------------------------
(* The variables keep their types: no count of blocks goes below zero.     *)
THEOREM TypeCorrect == Spec => []TypeOK
<1>1. IInv => TypeOK
  BY DEF IInv
<1> QED BY <1>1, InitInv, NextInv, PTL DEF Spec

(* What the program points to is allocated, whatever files are loaded      *)
(* (the free calls of _loadcmd and elf_load_symtab).                       *)
THEOREM HeldCorrect == Spec => []Held
<1>1. IInv => Held
  BY DEF IInv
<1> QED BY <1>1, InitInv, NextInv, PTL DEF Spec

(* A complete file gives back all that its load took but its memory.       *)
THEOREM TidyCorrect == Spec => []Tidy
<1>1. IInv => Tidy
  BY DEF IInv
<1> QED BY <1>1, InitInv, NextInv, PTL DEF Spec

(* Loading a complete file releases nothing twice, and nothing unset, even *)
(* in a session where other files were loaded before.                      *)
THEOREM ReleaseSound == Spec => ReleaseOnce
<1>1. IInv /\ [Next]_vars => (~ub /\ ub' => ~Sound(file))
  <2> SUFFICES ASSUME IInv, [Next]_vars, ~ub, ub', Sound(file)
               PROVE  FALSE
    OBVIOUS
  <2>1. CASE Finish
    <3>1. pc = "stack" /\ (symtab = "dangling" \/ scntab = "unset")
      BY <2>1 DEF Finish, At
    <3>2. symtab = "live" /\ scntab = "live"
      BY <3>1 DEF IInv, SoundInv
    <3> QED BY <3>1, <3>2
  <2>2. CASE ~Finish
    <3>1. ub' = ub
      BY <2>2 DEF Next, LoadMissing, LoadRefused, LoadAccepted, Begin, LoadScnTab, LoadSymTab,
           NewMemory, LoadSection, HeapBreaks, Quit, Over, vars
    <3> QED BY <3>1
  <2> QED BY <2>1, <2>2
<1> QED BY <1>1, InitInv, NextInv, PTL DEF Spec, ReleaseOnce
=============================================================================
