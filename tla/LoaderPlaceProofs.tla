------------------------- MODULE LoaderPlaceProofs --------------------------
(***************************************************************************)
(* The segments that the load of a complete file leaves, for all files:    *)
(* the sections it has, packed in the order in which they are looked for,  *)
(* and nothing else that quitting would not release.                       *)
(***************************************************************************)
EXTENDS LoaderProofs

(* The slot of the section Wanted[k], which is nsegments when its turn     *)
(* comes: one for each section found before it.                            *)
Place(f, k) == Cardinality({j \in WantedIn(f) : j < k})

(* The sections before the one of the turn m are in place, and nothing is  *)
(* after them; the turn 5 is the one of the stack.                         *)
Packed(m) ==
  /\ nseg = Place(file, m)
  /\ \A k \in WantedIn(file) : k < m => slots[Place(file, k)] = Segment(Wanted[k], Wanted[k])
  /\ \A i \in nseg..3 : ~HasContent(slots[i])

Turn(m) == IF m = 5 THEN pc = "stack" ELSE pc = Wanted[m]

PackedInv == \A m \in 1..5 : Turn(m) /\ Sound(file) => Packed(m)

PlaceInv == IInv /\ PackedInv /\ LoadsWhatIsThere

-----------------------------------------------------------------------------
(* Places                                                                  *)

LEMMA WantedInType == ASSUME NEW f PROVE WantedIn(f) \subseteq 1..4
BY Labels DEF WantedIn

LEMMA Below ==
  ASSUME NEW f, NEW k \in 1..5
  PROVE  IsFiniteSet({j \in WantedIn(f) : j < k}) /\ Place(f, k) \in 0..k - 1
<1> DEFINE S == {j \in WantedIn(f) : j < k}
<1>1. S \subseteq 1..k - 1
  BY WantedInType
<1>2. IsFiniteSet(1..k - 1) /\ Cardinality(1..k - 1) = k - 1
  <2>1. 1 \in Int /\ k - 1 \in Int
    OBVIOUS
  <2>2. IsFiniteSet(1..k - 1) /\ Cardinality(1..k - 1) = IF 1 > k - 1 THEN 0 ELSE (k - 1) - 1 + 1
    BY <2>1, FS_Interval
  <2> QED BY <2>2
<1>3. IsFiniteSet(S) /\ Cardinality(S) <= k - 1
  BY <1>1, <1>2, FS_Subset
<1>4. Cardinality(S) \in Nat
  BY <1>3, FS_CardinalityType
<1>5. Place(f, k) = Cardinality(S)
  BY DEF Place
<1> QED BY <1>3, <1>4, <1>5

LEMMA PlaceFirst == ASSUME NEW f PROVE Place(f, 1) = 0
<1>1. 1 \in 1..5 /\ 0..1 - 1 = {0}
  OBVIOUS
<1>2. Place(f, 1) \in 0..1 - 1
  BY <1>1, Below
<1> QED BY <1>1, <1>2

LEMMA PlaceNext ==
  ASSUME NEW f, NEW k \in 1..4
  PROVE  Place(f, k + 1) = IF k \in WantedIn(f) THEN Place(f, k) + 1 ELSE Place(f, k)
<1> DEFINE S == {j \in WantedIn(f) : j < k}
           T == {j \in WantedIn(f) : j < k + 1}
<1>1. IsFiniteSet(S) /\ Place(f, k) = Cardinality(S) /\ Place(f, k + 1) = Cardinality(T)
  <2>1. k \in 1..5
    OBVIOUS
  <2> QED BY <2>1, Below DEF Place
<1>2. WantedIn(f) \subseteq 1..4
  BY WantedInType
<1>3. CASE k \in WantedIn(f)
  <2>1. T = S \union {k} /\ k \notin S
    BY <1>2, <1>3
  <2> HIDE DEF S, T
  <2>2. Cardinality(T) = Cardinality(S) + 1
    BY <1>1, <2>1, FS_AddElement
  <2> QED BY <1>1, <1>3, <2>2
<1>4. CASE k \notin WantedIn(f)
  <2>1. T = S
    BY <1>2, <1>4
  <2> QED BY <1>1, <1>4, <2>1
<1> QED BY <1>3, <1>4

LEMMA PlaceLast == ASSUME NEW f PROVE Place(f, 5) = Cardinality(WantedIn(f))
<1>1. {j \in WantedIn(f) : j < 5} = WantedIn(f)
  BY WantedInType
<1> QED BY <1>1 DEF Place

LEMMA PlaceBefore ==
  ASSUME NEW f, NEW k \in WantedIn(f), NEW m \in 1..5, k < m
  PROVE  Place(f, k) < Place(f, m) /\ Place(f, k) \in 0..3
<1>1. k \in 1..4
  BY WantedInType
<1> DEFINE S == {j \in WantedIn(f) : j < k + 1}
           T == {j \in WantedIn(f) : j < m}
<1>2. /\ Place(f, k + 1) = Cardinality(S) /\ Place(f, m) = Cardinality(T) /\ IsFiniteSet(T)
  BY Below DEF Place
<1>3. S \subseteq T
  BY <1>1, WantedInType
<1>4. Cardinality(S) <= Cardinality(T)
  BY <1>2, <1>3, FS_Subset
<1>5. Place(f, k + 1) = Place(f, k) + 1
  BY <1>1, PlaceNext
<1>6. k \in 1..5 /\ k + 1 \in 1..5
  BY <1>1
<1>7. Place(f, k) \in 0..k - 1 /\ Place(f, m) \in 0..m - 1
  BY <1>6, Below
<1> HIDE DEF S, T
<1>8. Place(f, k + 1) <= Place(f, m)
  BY <1>2, <1>4
<1> QED BY <1>1, <1>5, <1>7, <1>8
-----------------------------------------------------------------------------
(* Steps                                                                   *)

LEMMA Numbers == /\ \A m \in 1..5 : m # 5 => m \in 1..4
                 /\ \A m \in 1..4 : m # 4 => m + 1 \in 1..4
OBVIOUS

LEMMA TurnsDistinct ==
  ASSUME NEW m \in 1..5, Turn(m)
  PROVE  /\ pc # "idle"
         /\ pc = "stack" => m = 5
         /\ \A j \in 1..4 : pc = Wanted[j] => m = j
<1>1. CASE m = 5
  <2>1. pc = "stack"
    BY <1>1 DEF Turn
  <2>2. \A j \in 1..4 : Wanted[j] # "stack"
    BY Labels
  <2> QED BY <1>1, <2>1, <2>2
<1>2. CASE m # 5
  <2>1. m \in 1..4 /\ pc = Wanted[m]
    BY <1>2 DEF Turn
  <2> QED BY <2>1, Labels
<1> QED BY <1>1, <1>2

(* A step to a place that is not a turn, or one that keeps the memory.     *)
LEMMA NoTurn ==
  ASSUME pc' \in {"idle", "section table", "symbol table", "memory"}
  PROVE  PackedInv'
<1>1. \A m \in 1..5 : ~Turn(m)'
  <2> SUFFICES ASSUME NEW m \in 1..5
               PROVE  ~Turn(m)'
    OBVIOUS
  <2>1. CASE m = 5
    BY <2>1 DEF Turn
  <2>2. CASE m # 5
    <3>1. m \in 1..4
      BY <2>2, Numbers
    <3> QED BY <2>2, <3>1, Labels DEF Turn
  <2> QED BY <2>1, <2>2
<1> QED BY <1>1 DEF PackedInv

LEMMA LoadSectionPacked ==
  ASSUME IInv, PackedInv, NEW m \in 1..4, LoadSection(m)
  PROVE  PackedInv'
<1>1. /\ pc = Wanted[m]
      /\ pc' = (IF m = Len(Wanted) THEN "stack" ELSE Wanted[m + 1])
      /\ file' = file
  BY DEF LoadSection, At
<1>2. \A n \in 1..5 : Turn(n)' => n = m + 1
  <2>1. CASE m = 4
    <3>1. pc' = "stack"
      BY <1>1, <2>1, Labels
    <3>2. \A j \in 1..4 : Wanted[j] # "stack"
      BY Labels
    <3> QED BY <2>1, <3>1, <3>2 DEF Turn
  <2>2. CASE m # 4
    <3>1. m + 1 \in 1..4
      BY <2>2
    <3>2. pc' = Wanted[m + 1]
      BY <1>1, <2>2, Labels
    <3>3. Wanted[m + 1] # "stack" /\ \A j \in 1..4 : Wanted[j] = Wanted[m + 1] => j = m + 1
      BY <3>1, Labels
    <3>4. \A n \in 1..5 : n # 5 => n \in 1..4
      OBVIOUS
    <3> QED BY <3>2, <3>3, <3>4 DEF Turn
  <2> QED BY <2>1, <2>2
<1> SUFFICES ASSUME Sound(file)
             PROVE  Packed(m + 1)'
  BY <1>1, <1>2 DEF PackedInv
<1>3. file \in Files /\ DOMAIN slots = Slot /\ nseg \in Slot
  <2>1. pc # "idle"
    BY <1>1, Labels
  <2> QED BY <2>1, Zenon DEF IInv, TypeOK, Control
<1>4. Packed(m)
  <2>1. m \in 1..5 /\ m # 5
    OBVIOUS
  <2> QED BY <1>1, <2>1 DEF PackedInv, Turn
<1> DEFINE f == file
           in == WantedIn(file)
<1>5. nseg = Place(f, m) /\ Place(f, m) \in 0..m - 1
  <2>1. m \in 1..5
    OBVIOUS
  <2> QED BY <1>4, <2>1, Below DEF Packed
<1>6. PICK x \in Extract(file, Wanted[m]) :
        /\ nseg' = NextSlot(x.hdr # 0)
        /\ IF x.hdr = 0
           THEN slots' = [slots EXCEPT ![nseg] = Segment(Wanted[m], NULL)]
           ELSE slots' = [slots EXCEPT ![nseg] = Segment(Wanted[m], file.headers[x.hdr].name)]
  BY Zenon DEF LoadSection
<1>7. /\ x.hdr # 0 <=> m \in in
      /\ x.hdr # 0 => file.headers[x.hdr].name = Wanted[m]
  <2>1. Wanted[m] \in Searched
    BY DEF Searched
  <2>2. /\ x.hdr # 0 <=> HasSection(file, Wanted[m])
        /\ x.hdr # 0 => file.headers[x.hdr].name = Wanted[m]
    BY <1>3, <2>1, SoundExtract
  <2> QED BY <2>2, Labels DEF WantedIn
<1>8. PICK seg : /\ slots' = [slots EXCEPT ![nseg] = seg]
                 /\ m \in in => seg = Segment(Wanted[m], Wanted[m])
                 /\ m \notin in => ~HasContent(seg)
  <2>1. CASE x.hdr = 0
    <3>1. slots' = [slots EXCEPT ![nseg] = Segment(Wanted[m], NULL)]
      BY <1>6, <2>1, Zenon
    <3>2. ~HasContent(Segment(Wanted[m], NULL))
      BY DEF HasContent, Segment
    <3> HIDE DEF in
    <3> QED BY <1>7, <2>1, <3>1, <3>2
  <2>2. CASE x.hdr # 0
    <3>1. slots' = [slots EXCEPT ![nseg] = Segment(Wanted[m], Wanted[m])]
      BY <1>6, <1>7, <2>2, Zenon
    <3> HIDE DEF in
    <3> QED BY <1>7, <2>2, <3>1
  <2> QED BY <2>1, <2>2
<1>9. /\ DOMAIN slots' = Slot
      /\ \A i \in Slot : slots'[i] = IF i = nseg THEN seg ELSE slots[i]
  BY <1>3, <1>8
<1>10. nseg' = Place(f, m + 1)
  BY <1>5, <1>6, <1>7, PlaceNext, Zenon DEF NextSlot
<1>11. nseg' = IF m \in in THEN nseg + 1 ELSE nseg
  BY <1>6, <1>7, Zenon DEF NextSlot
<1>12. ASSUME NEW k \in in, k < m + 1
       PROVE  slots'[Place(f, k)] = Segment(Wanted[k], Wanted[k])
  <2>1. CASE k = m
    <3>1. slots'[nseg] = seg
      BY <1>3, <1>9
    <3> HIDE DEF in
    <3> QED BY <1>5, <1>8, <1>12, <2>1, <3>1
  <2>2. CASE k # m
    <3>1. k < m /\ m \in 1..5
      BY <1>12, <2>2, WantedInType
    <3>2. Place(f, k) < nseg /\ Place(f, k) \in 0..3
      BY <1>5, <3>1, PlaceBefore
    <3>3. Place(f, k) \in Slot /\ Place(f, k) # nseg
      BY <1>3, <3>2 DEF Slot
    <3>4. slots'[Place(f, k)] = slots[Place(f, k)]
      BY <1>9, <3>3
    <3> QED BY <1>4, <3>1, <3>4 DEF Packed
  <2> QED BY <2>1, <2>2
<1>13. ASSUME NEW i \in nseg'..3
       PROVE  ~HasContent(slots'[i])
  <2>1. i \in nseg..3 /\ i \in Slot /\ (m \in in => i # nseg)
    BY <1>3, <1>11 DEF Slot
  <2>2. CASE i = nseg
    <3>1. slots'[i] = seg
      BY <1>9, <2>1, <2>2
    <3> HIDE DEF in
    <3> QED BY <1>8, <2>1, <2>2, <3>1
  <2>3. CASE i # nseg
    <3>1. slots'[i] = slots[i]
      BY <1>9, <2>1, <2>3
    <3> QED BY <1>4, <2>1, <3>1 DEF Packed
  <2> QED BY <2>2, <2>3
<1> QED BY <1>1, <1>10, <1>12, <1>13 DEF Packed

LEMMA NewMemoryPacked == IInv /\ NewMemory => PackedInv'
<1> SUFFICES ASSUME IInv, NewMemory PROVE PackedInv'
  OBVIOUS
<1>1. pc' = Wanted[1] /\ nseg' = 0 /\ slots' = [i \in Slot |-> NULL] /\ file' = file
  BY DEF NewMemory, NewSlots
<1>2. \A m \in 1..5 : Turn(m)' => m = 1
  <2>1. 1 \in 1..4
    OBVIOUS
  <2>2. Wanted[1] # "stack" /\ \A j \in 1..4 : Wanted[j] = Wanted[1] => j = 1
    BY <2>1, Labels
  <2>3. \A m \in 1..5 : m # 5 => m \in 1..4
    OBVIOUS
  <2> QED BY <1>1, <2>2, <2>3 DEF Turn
<1>3. Packed(1)'
  <2>1. nseg' = Place(file', 1)
    BY <1>1, PlaceFirst
  <2>2. \A k \in WantedIn(file') : ~(k < 1)
    BY WantedInType
  <2>3. \A i \in 0..3 : slots'[i] = NULL
    BY <1>1 DEF Slot
  <2>4. \A i \in nseg'..3 : ~HasContent(slots'[i])
    BY <1>1, <2>3 DEF HasContent
  <2> QED BY <2>1, <2>2, <2>4 DEF Packed
<1> QED BY <1>2, <1>3 DEF PackedInv

LEMMA FinishLoads ==
  ASSUME IInv, PackedInv, Finish
  PROVE  LoadsWhatIsThere'
<1>1. /\ pc = "stack" /\ file' = file
      /\ loaded' = Append(loaded, file)
      /\ slots' = [slots EXCEPT ![PLACESTHEAP] = Segment("STACK/HEAP", "STACK/HEAP")]
  BY DEF Finish, At
<1>2. DOMAIN slots = Slot /\ loaded \in Seq(Files)
  BY Zenon DEF IInv, TypeOK
<1>3. loaded'[Len(loaded')] = file
  BY <1>1, <1>2
<1> SUFFICES ASSUME Sound(file)
             PROVE  /\ \A k \in WantedIn(file) :
                         slots'[Place(file, k)] = Segment(Wanted[k], Wanted[k])
                    /\ \A i \in Cardinality(WantedIn(file))..PLACESTHEAP - 1 :
                         ~HasContent(slots'[i])
  BY <1>3, Zenon DEF LoadsWhatIsThere, Place
<1>4. Packed(5)
  <2>1. 5 \in 1..5
    OBVIOUS
  <2> QED BY <1>1, <2>1 DEF PackedInv, Turn
<1>5. \A i \in 0..3 : slots'[i] = slots[i]
  BY <1>1, <1>2 DEF PLACESTHEAP, Slot
<1>6. ASSUME NEW k \in WantedIn(file)
      PROVE  slots'[Place(file, k)] = Segment(Wanted[k], Wanted[k])
  <2>1. k < 5 /\ 5 \in 1..5
    BY WantedInType
  <2>2. Place(file, k) \in 0..3
    BY <2>1, PlaceBefore
  <2> QED BY <1>4, <1>5, <2>1, <2>2 DEF Packed
<1>7. ASSUME NEW i \in Cardinality(WantedIn(file))..PLACESTHEAP - 1
      PROVE  ~HasContent(slots'[i])
  <2>1. nseg = Cardinality(WantedIn(file))
    BY <1>4, PlaceLast DEF Packed
  <2>2. 5 \in 1..5
    OBVIOUS
  <2>3. nseg \in Slot
    BY Zenon DEF IInv, TypeOK
  <2>4. i \in nseg..3 /\ i \in 0..3
    BY <2>1, <2>3 DEF Slot, PLACESTHEAP
  <2> QED BY <1>4, <1>5, <2>4 DEF Packed
<1> QED BY <1>6, <1>7

(* Every other step that ends idle keeps the segments and the last file    *)
(* loaded, or ends the emulator.                                           *)
LEMMA IdleKeeps ==
  ASSUME LoadsWhatIsThere,
         (pc' = "idle" /\ up') => pc = "idle" /\ up /\ loaded' = loaded /\ slots' = slots
  PROVE  LoadsWhatIsThere'
BY DEF LoadsWhatIsThere

LEMMA NextPlace == PlaceInv /\ [Next]_vars => PlaceInv'
<1> SUFFICES ASSUME PlaceInv, [Next]_vars PROVE PlaceInv'
  OBVIOUS
<1>1. IInv /\ PackedInv /\ LoadsWhatIsThere
  BY DEF PlaceInv
<1>2. IInv'
  BY <1>1, NextInv
<1>3. CASE LoadMissing \/ LoadRefused \/ LoadAccepted
  <2>1. /\ pc' \in {"idle", "section table"}
        /\ pc = "idle" /\ up /\ loaded' = loaded /\ slots' = slots
    BY <1>3 DEF LoadMissing, LoadRefused, LoadAccepted, Begin, memory
  <2> QED BY <1>1, <1>2, <2>1, NoTurn, IdleKeeps DEF PlaceInv
<1>4. CASE LoadScnTab \/ LoadSymTab
  <2>1. pc' \in {"symbol table", "memory"}
    BY <1>4 DEF LoadScnTab, LoadSymTab
  <2> QED BY <1>1, <1>2, <2>1, NoTurn, IdleKeeps DEF PlaceInv
<1>5. CASE NewMemory
  <2>1. pc' # "idle"
    <3>1. pc' = Wanted[1] /\ 1 \in 1..4
      BY <1>5 DEF NewMemory
    <3> QED BY <3>1, Labels
  <2> QED BY <1>1, <1>2, <1>5, <2>1, NewMemoryPacked, IdleKeeps DEF PlaceInv
<1>6. ASSUME NEW k \in 1..Len(Wanted), LoadSection(k)
      PROVE  PlaceInv'
  <2>1. k \in 1..4
    BY Labels
  <2>2. pc' # "idle"
    <3>1. pc' = IF k = Len(Wanted) THEN "stack" ELSE Wanted[k + 1]
      BY <1>6 DEF LoadSection
    <3>2. k # Len(Wanted) => k + 1 \in 1..4
      <4>1. Len(Wanted) = 4
        BY Labels
      <4> QED BY <2>1, <4>1, Numbers
    <3> QED BY <3>1, <3>2, Labels
  <2>3. PackedInv'
    BY <1>1, <1>6, <2>1, LoadSectionPacked
  <2> QED BY <1>1, <1>2, <2>2, <2>3, IdleKeeps DEF PlaceInv
<1>7. CASE Finish
  <2>1. pc' = "idle"
    BY <1>7 DEF Finish
  <2> QED BY <1>1, <1>2, <1>7, <2>1, NoTurn, FinishLoads DEF PlaceInv
<1>8. CASE HeapBreaks
  <2>1. UNCHANGED <<pc, file, nseg, slots>> /\ ~up'
    BY <1>8 DEF HeapBreaks, memory
  <2>2. PackedInv'
    BY <1>1, <2>1 DEF PackedInv, Turn, Packed
  <2> QED BY <1>1, <1>2, <2>1, <2>2, IdleKeeps DEF PlaceInv
<1>9. CASE Quit
  <2>1. pc' = "idle" /\ ~up'
    BY <1>9 DEF Quit, At
  <2> QED BY <1>1, <1>2, <2>1, NoTurn, IdleKeeps DEF PlaceInv
<1>10. CASE Over \/ UNCHANGED vars
  <2>1. UNCHANGED <<pc, file, nseg, slots, loaded, up>>
    BY <1>10 DEF Over, vars, memory
  <2>2. PackedInv'
    BY <1>1, <2>1 DEF PackedInv, Turn, Packed
  <2> QED BY <1>1, <1>2, <2>1, <2>2, IdleKeeps DEF PlaceInv
<1> QED BY <1>3, <1>4, <1>5, <1>6, <1>7, <1>8, <1>9, <1>10 DEF Next

LEMMA InitPlace == Init => PlaceInv
<1> SUFFICES ASSUME Init PROVE PlaceInv
  OBVIOUS
<1>1. pc = "idle" /\ loaded = <<>>
  BY DEF Init
<1>2. \A m \in 1..5 : ~Turn(m)
  BY <1>1, TurnsDistinct
<1> QED BY <1>1, <1>2, InitInv DEF PlaceInv, PackedInv, LoadsWhatIsThere

-----------------------------------------------------------------------------
(* After a complete file is loaded, each section that it has is in its     *)
(* place, and no slot between the last one and the stack has a content     *)
(* (the loop of _loadcmd that leaves nsegments alone when a search fails). *)
THEOREM LoadsCorrect == Spec => []LoadsWhatIsThere
<1>1. PlaceInv => LoadsWhatIsThere
  BY DEF PlaceInv
<1> QED BY <1>1, InitPlace, NextPlace, PTL DEF Spec

-----------------------------------------------------------------------------
(* The first load of a session, and its end                                *)

(* A first load of a complete file, of which only .bss may be absent.      *)
FirstLoad == count = 1 /\ Sound(file) /\ 1..3 \subseteq WantedIn(file)

(* No block of the memory is out of reach, and none is counted twice.      *)
Exact ==
  /\ live["map"] = IF mapped THEN 1 ELSE 0
  /\ live["segment"] = Segments /\ live["content"] = Contents

(* The slots that the turns to come will write are still empty.            *)
Room ==
  /\ \A m \in 1..4 : pc = Wanted[m] => nseg = m - 1 /\ \A i \in m - 1..4 : slots[i] = NULL
  /\ pc = "stack" => slots[PLACESTHEAP] = NULL

BeforeMemory == {"section table", "symbol table", "memory"}

FirstInv ==
  /\ count = 0 => pc = "idle" /\ ~mapped /\ \A k \in Kind : live[k] = 0
  /\ count = 1 => \A k \in Kind : before[k] = 0
  /\ ~mapped => \A i \in Slot : slots[i] = NULL
  /\ pc \in Loading => mapped
  /\ count = 1 /\ pc \in BeforeMemory => ~mapped
  /\ pc = "idle" /\ count > 0 /\ Sound(file) => ret = OK
  /\ FirstLoad => Exact /\ Room

LEMMA EmptySlots ==
  ASSUME \A i \in Slot : slots[i] = NULL
  PROVE  Segments = 0 /\ Contents = 0
<1>1. {i \in Slot : slots[i] # NULL} = {} /\ {i \in Slot : HasContent(slots[i])} = {}
  BY DEF HasContent
<1> QED BY <1>1, NoSlot DEF Segments, Contents

(* A segment put in an empty slot is one more, and so is its content.      *)
LEMMA SlotFilled ==
  ASSUME DOMAIN slots = Slot, NEW n \in Slot, slots[n] = NULL,
         NEW seg, seg # NULL, slots' = [slots EXCEPT ![n] = seg]
  PROVE  /\ Segments' = Segments + 1
         /\ HasContent(seg) => Contents' = Contents + 1
         /\ ~HasContent(seg) => Contents' = Contents
<1> DEFINE S == {i \in Slot : slots[i] # NULL}
           T == {i \in Slot : slots'[i] # NULL}
           C == {i \in Slot : HasContent(slots[i])}
           D == {i \in Slot : HasContent(slots'[i])}
<1>1. \A i \in Slot : slots'[i] = IF i = n THEN seg ELSE slots[i]
  OBVIOUS
<1>2. ~HasContent(slots[n])
  BY DEF HasContent
<1>3. T = S \union {n} /\ n \notin S
  BY <1>1
<1>4. /\ n \notin C
      /\ HasContent(seg) => D = C \union {n}
      /\ ~HasContent(seg) => D = C
  BY <1>1, <1>2
<1>5. /\ Segments = Cardinality(S) /\ Segments' = Cardinality(T)
      /\ Contents = Cardinality(C) /\ Contents' = Cardinality(D)
  BY DEF Segments, Contents
<1>6. IsFiniteSet(S) /\ IsFiniteSet(C)
  <2>1. S \in SUBSET Slot /\ C \in SUBSET Slot
    OBVIOUS
  <2> QED BY <2>1, SlotSets
<1> HIDE DEF S, T, C, D
<1>7. Cardinality(T) = Cardinality(S) + 1
  BY <1>3, <1>6, FS_AddElement
<1>8. HasContent(seg) => Cardinality(D) = Cardinality(C) + 1
  BY <1>4, <1>6, FS_AddElement
<1> QED BY <1>4, <1>5, <1>7, <1>8

LEMMA InitFirst == Init => FirstInv
<1> SUFFICES ASSUME Init PROVE FirstInv
  OBVIOUS
<1>1. /\ count = 0 /\ pc = "idle" /\ mapped = FALSE
      /\ \A k \in Kind : live[k] = 0
      /\ \A i \in Slot : slots[i] = NULL
  BY DEF Init
<1>2. pc \notin Loading
  BY <1>1, Labels
<1> QED BY <1>1, <1>2 DEF FirstInv, FirstLoad

(* Exact and Room look only at the memory, at its counts and at the place  *)
(* in _loadcmd.                                                            *)
LEMMA ExactKept ==
  ASSUME UNCHANGED memory, \A k \in {"map", "segment", "content"} : live'[k] = live[k], Exact
  PROVE  Exact'
<1>1. Segments' = Segments /\ Contents' = Contents
  BY DEF memory, Segments, Contents
<1> QED BY <1>1 DEF Exact, memory

LEMMA BeginCount ==
  ASSUME TypeOK, NEW f \in Files, Begin(f)
  PROVE  count' # 0 /\ (count' = 1 => count = 0)
<1>1. count \in 0..MaxLoads /\ MaxLoads \in Nat
  BY Parts, FilesAssumption
<1>2. count' = count + 1
  BY DEF Begin
<1> QED BY <1>1, <1>2

LEMMA MemoryUncounted ==
  ASSUME TypeOK, NEW new \in SUBSET {"symtab", "file"}, live' = After(live, new, {})
  PROVE  \A k \in {"map", "segment", "content"} : live'[k] = live[k]
<1> SUFFICES ASSUME NEW k \in {"map", "segment", "content"}
             PROVE  live'[k] = live[k]
  OBVIOUS
<1>1. k \in Kind /\ k \notin new
  BY Kinds
<1>2. live'[k] = live[k] + 0
  BY <1>1, BeginLive
<1>3. live[k] \in Nat
  BY <1>1, Parts
<1> QED BY <1>2, <1>3

LEMMA BeginFirst ==
  ASSUME IInv, FirstInv, NEW f \in Files, Begin(f),
         NEW new \in SUBSET {"symtab", "file"}, live' = After(live, new, {}),
         pc' \in {"idle", "section table"}, pc' = "idle" => ~Sound(f)
  PROVE  FirstInv'
<1>0. TypeOK
  BY DEF IInv
<1>1. /\ pc = "idle" /\ file' = f /\ before' = live /\ count' = count + 1
      /\ mapped' = mapped /\ slots' = slots
  BY DEF Begin, memory
<1>2. count' # 0 /\ (count' = 1 => count = 0)
  BY <1>0, BeginCount
<1>3. \A k \in {"map", "segment", "content"} : live'[k] = live[k]
  BY <1>0, MemoryUncounted
<1>4. ~mapped => \A i \in Slot : slots[i] = NULL
  BY DEF FirstInv
<1>5. ASSUME count' = 1
      PROVE  ~mapped /\ (\A k \in Kind : live[k] = 0) /\ Exact' /\ Room'
  <2>1. ~mapped /\ \A k \in Kind : live[k] = 0
    BY <1>2, <1>5 DEF FirstInv
  <2>2. Segments = 0 /\ Contents = 0
    BY <1>4, <2>1, EmptySlots
  <2>3. Exact
    BY <2>1, <2>2, Kinds DEF Exact
  <2>4. Exact'
    BY <1>1, <1>3, <2>3, ExactKept DEF memory
  <2>5. Room'
    BY Labels DEF Room
  <2> QED BY <2>1, <2>4, <2>5
<1>6. (pc' = "idle" => ~Sound(file')) /\ pc' \notin Loading
  BY <1>1, Labels
<1> QED BY <1>1, <1>2, <1>4, <1>5, <1>6 DEF FirstInv, FirstLoad

(* The tables of a complete file are read without a loss, and the memory   *)
(* is not concerned.                                                       *)
LEMMA TablesKeepMemory ==
  ASSUME IInv, Sound(file), LoadScnTab \/ LoadSymTab
  PROVE  \A k \in {"map", "segment", "content"} : live'[k] = live[k]
<1>1. /\ TypeOK /\ file \in Files
      /\ live \in [Kind -> Nat]
  <2>1. pc # "idle"
    BY DEF LoadScnTab, LoadSymTab, At
  <2> QED BY <2>1, Parts DEF IInv, Control
<1>2. \/ live' = live \/ live' = After(live, {"scntab"}, {}) \/ live' = After(live, {}, {})
  <2>1. CASE LoadScnTab
    <3>1. PICK x \in Extract(file, ".shstrtab") :
            live' = live \/ live' = After(live, x.lost, {}) \/ live' = After(live, {"scntab"}, {})
      BY <2>1, Zenon DEF LoadScnTab
    <3>2. ".shstrtab" \in Searched
      BY DEF Searched, Tables
    <3>3. x.lost = {}
      BY <1>1, <3>2, SoundExtract
    <3> QED BY <3>1, <3>3
  <2>2. CASE LoadSymTab
    BY <1>1, <2>2, SoundSymbols DEF SymTabKept
  <2> QED BY <2>1, <2>2
<1> SUFFICES ASSUME NEW k \in {"map", "segment", "content"}
             PROVE  live'[k] = live[k]
  OBVIOUS
<1>3. k \in Kind /\ k \notin {"scntab"} /\ k \notin {}
  BY Kinds
<1>4. live[k] \in Nat
  BY <1>1, <1>3
<1>5. CASE live' = live
  BY <1>5
<1>6. CASE live' = After(live, {"scntab"}, {})
  <2>1. live'[k] = live[k] + 0 - 0
    BY <1>3, <1>6 DEF After
  <2> QED BY <1>4, <2>1
<1>7. CASE live' = After(live, {}, {})
  <2>1. live'[k] = live[k] + 0 - 0
    BY <1>3, <1>7 DEF After
  <2> QED BY <1>4, <2>1
<1> QED BY <1>2, <1>5, <1>6, <1>7

LEMMA TablesFirst == IInv /\ FirstInv /\ (LoadScnTab \/ LoadSymTab) => FirstInv'
<1> SUFFICES ASSUME IInv, FirstInv, LoadScnTab \/ LoadSymTab
             PROVE  FirstInv'
  OBVIOUS
<1>1. /\ pc \in {"section table", "symbol table"} /\ pc' \in {"symbol table", "memory"}
      /\ file' = file /\ mapped' = mapped /\ slots' = slots
      /\ count' = count /\ before' = before
  BY DEF LoadScnTab, LoadSymTab, At, memory, session
<1>2. pc \in BeforeMemory /\ pc' \in BeforeMemory /\ pc' # "idle"
  BY <1>1 DEF BeforeMemory
<1>3. FirstLoad' => FirstLoad
  BY <1>1 DEF FirstLoad
<1>4. FirstLoad => Exact'
  <2> SUFFICES ASSUME FirstLoad
               PROVE  Exact'
    OBVIOUS
  <2>1. \A k \in {"map", "segment", "content"} : live'[k] = live[k]
    BY TablesKeepMemory DEF FirstLoad
  <2>2. Exact
    BY DEF FirstInv
  <2> QED BY <1>1, <2>1, <2>2, ExactKept DEF memory
<1>5. Room'
  BY <1>1, Labels DEF Room
<1>6. count' # 0
  BY <1>1, <1>2 DEF FirstInv
<1>7. pc' \notin Loading
  BY <1>1, Labels
<1> QED BY <1>1, <1>2, <1>3, <1>4, <1>5, <1>6, <1>7 DEF FirstInv

LEMMA NewMemoryFirst == IInv /\ FirstInv /\ NewMemory => FirstInv'
<1> SUFFICES ASSUME IInv, FirstInv, NewMemory
             PROVE  FirstInv'
  OBVIOUS
<1>1. /\ pc = "memory" /\ pc' = Wanted[1] /\ mapped' = TRUE /\ nseg' = 0
      /\ file' = file /\ count' = count /\ before' = before
      /\ slots' = [i \in Slot |-> NULL]
      /\ live' = [live EXCEPT
           !["segment"] = @ - Segments,
           !["map"] = IF mapped THEN @ ELSE @ + 1,
           !["ehdr"] = IF HeaderAllocated(file) THEN @ + 1 ELSE @]
  BY DEF NewMemory, At, NewSlots, session
<1>2. 1 \in 1..4 /\ pc \in BeforeMemory
  BY <1>1 DEF BeforeMemory
<1>3. /\ pc' \notin {"idle", "stack"} /\ pc' \notin BeforeMemory
      /\ \A m \in 1..4 : pc' = Wanted[m] => m = 1
  BY <1>1, <1>2, Labels DEF BeforeMemory
<1>4. \A i \in Slot : slots'[i] = NULL
  BY <1>1
<1>5. Segments' = 0 /\ Contents' = 0
  <2>1. /\ {i \in Slot : slots'[i] # NULL} = {}
        /\ {i \in Slot : HasContent(slots'[i])} = {}
    BY <1>4 DEF HasContent
  <2> QED BY <2>1, NoSlot DEF Segments, Contents
<1>6. Room'
  BY <1>1, <1>3, <1>4 DEF Room, Slot
<1>7. FirstLoad' => Exact'
  <2> SUFFICES ASSUME FirstLoad
               PROVE  Exact'
    BY <1>1 DEF FirstLoad
  <2>1. ~mapped /\ (\A i \in Slot : slots[i] = NULL) /\ Exact
    BY <1>2 DEF FirstInv, FirstLoad
  <2>2. Segments = 0 /\ Contents = 0
    BY <2>1, EmptySlots
  <2>3. /\ live["map"] = 0 /\ live["segment"] = 0 /\ live["content"] = 0
    BY <2>1, <2>2 DEF Exact
  <2>4. live \in [Kind -> Nat] /\ {"map", "segment", "content", "ehdr"} \subseteq Kind
    BY Parts DEF IInv, Kind, Temporary
  <2>5. /\ live'["map"] = live["map"] + 1
        /\ live'["segment"] = live["segment"] - Segments
        /\ live'["content"] = live["content"]
    BY <1>1, <2>1, <2>4
  <2> QED BY <1>1, <1>5, <2>2, <2>3, <2>5 DEF Exact
<1>8. count' # 0
  BY <1>1, <1>2 DEF FirstInv, BeforeMemory
<1> QED BY <1>1, <1>3, <1>6, <1>7, <1>8 DEF FirstInv

(* What a turn writes into its slot: a section that is there comes with    *)
(* its content, and only the last one may be absent.                       *)
LEMMA TurnWrites ==
  ASSUME IInv, FirstLoad, NEW m \in 1..4, LoadSection(m)
  PROVE  \E seg, new :
           /\ slots' = [slots EXCEPT ![nseg] = seg] /\ seg # NULL
           /\ live' = After(live, new, {})
           /\ "map" \notin new /\ "segment" \in new
           /\ "content" \in new <=> HasContent(seg)
           /\ m # 4 => nseg' = nseg + 1
<1>1. /\ Sound(file) /\ 1..3 \subseteq WantedIn(file) /\ pc = Wanted[m]
  BY DEF FirstLoad, LoadSection, At
<1>2. file \in Files
  <2>1. pc # "idle"
    BY <1>1, Labels
  <2> QED BY <2>1 DEF IInv, Control
<1>3. Wanted[m] \in SegmentNames /\ Wanted[m] # NULL
      /\ Segment(Wanted[m], NULL) # NULL /\ Segment(Wanted[m], Wanted[m]) # NULL
  <2>1. Wanted[m] \in SegmentNames
    BY Labels DEF SegmentNames
  <2> QED BY <2>1, NullAssumption
<1>4. PICK x \in Extract(file, Wanted[m]) :
        /\ nseg' = NextSlot(x.hdr # 0)
        /\ IF x.hdr = 0
           THEN /\ slots' = [slots EXCEPT ![nseg] = Segment(Wanted[m], NULL)]
                /\ live' = After(live, {"segment"} \union x.lost, {})
           ELSE /\ slots' = [slots EXCEPT ![nseg] = Segment(Wanted[m], file.headers[x.hdr].name)]
                /\ live' = After(live, {"segment", "content"}, {})
  BY Zenon DEF LoadSection
<1>5. /\ x.lost = {}
      /\ x.hdr # 0 <=> m \in WantedIn(file)
      /\ x.hdr # 0 => file.headers[x.hdr].name = Wanted[m]
  <2>1. Wanted[m] \in Searched
    BY DEF Searched
  <2>2. /\ x.lost = {}
        /\ x.hdr # 0 <=> HasSection(file, Wanted[m])
        /\ x.hdr # 0 => file.headers[x.hdr].name = Wanted[m]
    BY <1>1, <1>2, <2>1, SoundExtract
  <2> QED BY <2>2, Labels DEF WantedIn
<1>6. m # 4 => nseg' = nseg + 1
  <2>1. m # 4 => m \in 1..3
    OBVIOUS
  <2> QED BY <1>1, <1>4, <1>5, <2>1, Zenon DEF NextSlot
<1>7. CASE x.hdr = 0
  <2> DEFINE seg == Segment(Wanted[m], NULL)
             new == {"segment"} \union x.lost
  <2>1. slots' = [slots EXCEPT ![nseg] = seg] /\ live' = After(live, new, {})
    BY <1>4, <1>7, Zenon
  <2>2. ~HasContent(seg)
    BY DEF HasContent, Segment
  <2>3. "map" \notin new /\ "segment" \in new /\ "content" \notin new
    BY <1>5
  <2>4. seg # NULL
    BY <1>3
  <2> HIDE DEF seg, new
  <2> QED BY <1>6, <2>1, <2>2, <2>3, <2>4
<1>8. CASE x.hdr # 0
  <2> DEFINE seg == Segment(Wanted[m], Wanted[m])
             new == {"segment", "content"}
  <2>1. slots' = [slots EXCEPT ![nseg] = seg] /\ live' = After(live, new, {})
    BY <1>4, <1>5, <1>8, Zenon
  <2>2. HasContent(seg) /\ seg # NULL
    <3>1. seg.from = Wanted[m]
      BY DEF Segment
    <3> QED BY <1>3, <3>1 DEF HasContent
  <2>3. "map" \notin new /\ "segment" \in new /\ "content" \in new
    OBVIOUS
  <2> HIDE DEF seg, new
  <2> QED BY <1>6, <2>1, <2>2, <2>3
<1> QED BY <1>7, <1>8

(* The counts follow a segment written into an empty slot.                 *)
LEMMA ExactFilled ==
  ASSUME TypeOK, Exact, NEW n \in Slot, slots[n] = NULL,
         NEW seg, seg # NULL, slots' = [slots EXCEPT ![n] = seg],
         mapped' = mapped, live'["map"] = live["map"],
         live'["segment"] = live["segment"] + 1,
         live'["content"] = live["content"] + (IF HasContent(seg) THEN 1 ELSE 0)
  PROVE  Exact'
<1>1. DOMAIN slots = Slot
  BY Zenon DEF TypeOK
<1>2. /\ Segments' = Segments + 1
      /\ HasContent(seg) => Contents' = Contents + 1
      /\ ~HasContent(seg) => Contents' = Contents
  BY <1>1, SlotFilled
<1>3. Contents \in Nat
  BY SlotSets DEF Contents
<1>4. live'["content"] = Contents'
  BY <1>2, <1>3 DEF Exact
<1>5. live'["segment"] = Segments'
  BY <1>2 DEF Exact
<1> QED BY <1>4, <1>5 DEF Exact

LEMMA LoadSectionFirst ==
  ASSUME IInv, FirstInv, NEW m \in 1..4, LoadSection(m)
  PROVE  FirstInv'
<1>1. /\ pc = Wanted[m]
      /\ pc' = (IF m = Len(Wanted) THEN "stack" ELSE Wanted[m + 1])
      /\ file' = file /\ mapped' = mapped /\ count' = count /\ before' = before
  BY DEF LoadSection, At, session
<1>2. pc \notin {"idle", "stack"} /\ pc \notin BeforeMemory
  BY <1>1, Labels DEF BeforeMemory
<1>3. /\ pc' # "idle" /\ pc' \notin BeforeMemory
      /\ pc' = "stack" => m = 4
      /\ \A n \in 1..4 : pc' = Wanted[n] => n = m + 1
  <2>1. CASE m = 4
    <3>1. pc' = "stack"
      BY <1>1, <2>1, Labels
    <3>2. \A n \in 1..4 : Wanted[n] # "stack"
      BY Labels
    <3> QED BY <2>1, <3>1, <3>2 DEF BeforeMemory
  <2>2. CASE m # 4
    <3>1. m + 1 \in 1..4
      BY <2>2
    <3>2. pc' = Wanted[m + 1]
      BY <1>1, <2>2, Labels
    <3> QED BY <3>1, <3>2, Labels DEF BeforeMemory
  <2> QED BY <2>1, <2>2
<1>4. FirstLoad' = FirstLoad
  BY <1>1 DEF FirstLoad
<1>5. ASSUME FirstLoad
      PROVE  Exact' /\ Room'
  <2>1. /\ nseg = m - 1 /\ \A i \in m - 1..4 : slots[i] = NULL
        /\ Exact /\ TypeOK
    BY <1>1, <1>5 DEF FirstInv, Room, IInv
  <2>2. nseg \in Slot /\ slots[nseg] = NULL
    BY <2>1 DEF Slot
  <2>3. PICK seg, new :
           /\ slots' = [slots EXCEPT ![nseg] = seg] /\ seg # NULL
           /\ live' = After(live, new, {})
           /\ "map" \notin new /\ "segment" \in new
           /\ "content" \in new <=> HasContent(seg)
           /\ m # 4 => nseg' = nseg + 1
    BY <1>5, TurnWrites
  <2>4. \A k \in {"map", "segment", "content"} : k \in Kind /\ live[k] \in Nat
    BY <2>1, Kinds, Parts
  <2>5. \A k \in {"map", "segment", "content"} :
          live'[k] = live[k] + (IF k \in new THEN 1 ELSE 0)
    BY <2>3, <2>4 DEF After
  <2>6. /\ live'["map"] = live["map"]
        /\ live'["segment"] = live["segment"] + 1
        /\ live'["content"] = live["content"] + (IF HasContent(seg) THEN 1 ELSE 0)
    BY <2>3, <2>4, <2>5
  <2>7. Exact'
    BY <1>1, <2>1, <2>2, <2>3, <2>6, ExactFilled
  <2>8. DOMAIN slots = Slot
    BY <2>1, Zenon DEF TypeOK
  <2>9. \A i \in m..4 : slots'[i] = NULL
    <3> SUFFICES ASSUME NEW i \in m..4
                 PROVE  slots'[i] = NULL
      OBVIOUS
    <3>1. i \in m - 1..4 /\ i # nseg /\ i \in Slot
      BY <2>1 DEF Slot
    <3> QED BY <2>1, <2>3, <2>8, <3>1
  <2>10. Room'
    <3>1. ASSUME NEW n \in 1..4, pc' = Wanted[n]
          PROVE  nseg' = n - 1 /\ \A i \in n - 1..4 : slots'[i] = NULL
      <4>1. n = m + 1 /\ m # 4 /\ n - 1 = m
        BY <1>3, <3>1
      <4>2. nseg' = m
        BY <2>1, <2>3, <4>1
      <4> QED BY <2>9, <4>1, <4>2
    <3>2. pc' = "stack" => slots'[PLACESTHEAP] = NULL
      BY <1>3, <2>9 DEF PLACESTHEAP
    <3> QED BY <3>1, <3>2 DEF Room
  <2> QED BY <2>7, <2>10
<1>6. mapped /\ count' # 0
  <2>1. pc \in Loading
    BY <1>1, Labels
  <2> QED BY <1>1, <1>2, <2>1 DEF FirstInv
<1> QED BY <1>1, <1>3, <1>4, <1>5, <1>6 DEF FirstInv

LEMMA FinishFirst ==
  ASSUME IInv, FirstInv, Finish
  PROVE  FirstInv'
<1>1. /\ pc = "stack" /\ pc' = "idle" /\ ret' = OK
      /\ file' = file /\ mapped' = mapped /\ count' = count /\ before' = before
      /\ slots' = [slots EXCEPT ![PLACESTHEAP] = Segment("STACK/HEAP", "STACK/HEAP")]
      /\ live' = After(live, {"segment", "content"}, GivenBack)
  BY DEF Finish, At, session
<1>2. pc' \notin Loading /\ pc' \notin BeforeMemory /\ pc \in Loading
  BY <1>1, Labels DEF BeforeMemory, Loading
<1>3. mapped /\ count' # 0
  BY <1>1, <1>2 DEF FirstInv
<1>4. FirstLoad' = FirstLoad
  BY <1>1 DEF FirstLoad
<1>5. Room'
  BY <1>1, Labels DEF Room
<1>6. ASSUME FirstLoad
      PROVE  Exact'
  <2>1. Exact /\ TypeOK /\ slots[PLACESTHEAP] = NULL /\ PLACESTHEAP \in Slot
    BY <1>1, <1>6 DEF FirstInv, Room, IInv, PLACESTHEAP, Slot
  <2> DEFINE seg == Segment("STACK/HEAP", "STACK/HEAP")
  <2>2. HasContent(seg) /\ seg # NULL
    <3>1. "STACK/HEAP" # NULL /\ seg # NULL
      BY NullAssumption DEF SegmentNames
    <3>2. seg.from = "STACK/HEAP"
      BY DEF Segment
    <3> QED BY <3>1, <3>2 DEF HasContent
  <2>3. \A k \in {"map", "segment", "content"} :
          k \in Kind /\ live[k] \in Nat /\ k \notin GivenBack
    BY <2>1, Kinds, Parts DEF GivenBack
  <2>4. /\ live'["map"] = live["map"] + 0 - 0
        /\ live'["segment"] = live["segment"] + 1 - 0
        /\ live'["content"] = live["content"] + 1 - 0
    <3> HIDE DEF GivenBack
    <3> QED BY <1>1, <2>3 DEF After
  <2>5. /\ live'["map"] = live["map"]
        /\ live'["segment"] = live["segment"] + 1
        /\ live'["content"] = live["content"] + (IF HasContent(seg) THEN 1 ELSE 0)
    BY <2>2, <2>3, <2>4
  <2>6. slots' = [slots EXCEPT ![PLACESTHEAP] = seg]
    BY <1>1
  <2> HIDE DEF seg
  <2> QED BY <1>1, <2>1, <2>2, <2>5, <2>6, ExactFilled
<1> QED BY <1>1, <1>2, <1>3, <1>4, <1>5, <1>6 DEF FirstInv

LEMMA QuitFirst ==
  ASSUME IInv, FirstInv, Quit
  PROVE  FirstInv'
<1>1. /\ pc = "idle" /\ pc' = pc /\ mapped' = FALSE /\ ret' = ret
      /\ file' = file /\ count' = count /\ before' = before
      /\ slots' = [i \in Slot |-> NULL]
      /\ live' = [live EXCEPT
           !["segment"] = @ - Segments,
           !["content"] = @ - Contents,
           !["map"] = IF mapped THEN @ - 1 ELSE @]
  BY DEF Quit, At, session
<1>2. TypeOK /\ live \in [Kind -> Nat] /\ {"map", "segment", "content"} \subseteq Kind
  BY Parts, Kinds DEF IInv
<1>3. \A i \in Slot : slots'[i] = NULL
  BY <1>1
<1>4. Segments' = 0 /\ Contents' = 0
  <2>1. /\ {i \in Slot : slots'[i] # NULL} = {}
        /\ {i \in Slot : HasContent(slots'[i])} = {}
    BY <1>3 DEF HasContent
  <2> QED BY <2>1, NoSlot DEF Segments, Contents
<1>5. /\ live'["map"] = (IF mapped THEN live["map"] - 1 ELSE live["map"])
      /\ live'["segment"] = live["segment"] - Segments
      /\ live'["content"] = live["content"] - Contents
      /\ \A k \in Kind \ {"map", "segment", "content"} : live'[k] = live[k]
  BY <1>1, <1>2
<1>6. FirstLoad' => Exact'
  <2> SUFFICES ASSUME FirstLoad
               PROVE  Exact'
    BY <1>1 DEF FirstLoad
  <2>1. Exact
    BY DEF FirstInv
  <2>2. live["map"] \in Nat /\ live["segment"] \in Nat /\ live["content"] \in Nat
    BY <1>2
  <2>3. live'["map"] = 0
    BY <1>5, <2>1 DEF Exact
  <2>4. live'["segment"] = 0 /\ live'["content"] = 0
    BY <1>5, <2>1, <2>2 DEF Exact
  <2> QED BY <1>1, <1>4, <2>3, <2>4 DEF Exact
<1>7. Room'
  BY <1>1, Labels DEF Room
<1>8. count' = 0 => \A k \in Kind : live'[k] = 0
  <2> SUFFICES ASSUME count = 0
               PROVE  \A k \in Kind : live'[k] = 0
    BY <1>1
  <2>1. ~mapped /\ \A k \in Kind : live[k] = 0
    BY DEF FirstInv
  <2>2. \A i \in Slot : slots[i] = NULL
    BY <2>1 DEF FirstInv
  <2>3. Segments = 0 /\ Contents = 0
    BY <2>2, EmptySlots
  <2>4. live'["map"] = 0 /\ live'["segment"] = 0 /\ live'["content"] = 0
    BY <1>2, <1>5, <2>1, <2>3
  <2> QED BY <1>5, <2>1, <2>4
<1>9. pc' \notin Loading /\ pc' \notin BeforeMemory
  BY <1>1, Labels DEF BeforeMemory
<1> QED BY <1>1, <1>3, <1>6, <1>7, <1>8, <1>9 DEF FirstInv

LEMMA StillFirst ==
  ASSUME FirstInv, UNCHANGED <<pc, file, live, memory, nseg, ret, session>>
  PROVE  FirstInv'
<1>1. /\ pc' = pc /\ file' = file /\ live' = live /\ nseg' = nseg /\ ret' = ret
      /\ mapped' = mapped /\ slots' = slots /\ count' = count /\ before' = before
  BY DEF memory, session
<1>2. Exact' = Exact
  BY <1>1 DEF Exact, Segments, Contents
<1>3. Room' = Room /\ FirstLoad' = FirstLoad
  BY <1>1 DEF Room, FirstLoad
<1> QED BY <1>1, <1>2, <1>3 DEF FirstInv

LEMMA NextFirst == IInv /\ FirstInv /\ [Next]_vars => FirstInv'
<1> SUFFICES ASSUME IInv, FirstInv, [Next]_vars PROVE FirstInv'
  OBVIOUS
<1>1. CASE LoadMissing
  <2>1. PICK f \in Files :
          f.kind = "missing" /\ Begin(f) /\ live' = After(live, {"symtab"}, {}) /\ pc' = pc
    BY <1>1 DEF LoadMissing
  <2>2. pc' = "idle" /\ ~Sound(f)
    BY <2>1 DEF Begin, Sound
  <2> QED BY <2>1, <2>2, BeginFirst
<1>2. CASE LoadRefused
  <2>1. PICK f \in Files :
          /\ f.kind \in {"short", "alien"} /\ Begin(f)
          /\ live' = After(live, {"symtab", "file"}, {}) /\ pc' = pc
    BY <1>2 DEF LoadRefused
  <2>2. pc' = "idle" /\ ~Sound(f)
    BY <2>1 DEF Begin, Sound
  <2> QED BY <2>1, <2>2, BeginFirst
<1>3. CASE LoadAccepted
  <2>1. PICK f \in Files :
          /\ Begin(f) /\ live' = After(live, {"symtab", "file"}, {})
          /\ pc' = "section table"
    BY <1>3 DEF LoadAccepted
  <2> QED BY <2>1, BeginFirst
<1>4. CASE LoadScnTab \/ LoadSymTab
  BY <1>4, TablesFirst
<1>5. CASE NewMemory
  BY <1>5, NewMemoryFirst
<1>6. ASSUME NEW k \in 1..Len(Wanted), LoadSection(k) PROVE FirstInv'
  <2>1. k \in 1..4
    BY Labels
  <2> QED BY <1>6, <2>1, LoadSectionFirst
<1>7. CASE Finish
  BY <1>7, FinishFirst
<1>8. CASE HeapBreaks \/ Over \/ UNCHANGED vars
  <2>1. UNCHANGED <<pc, file, live, memory, nseg, ret, session>>
    BY <1>8 DEF HeapBreaks, Over, vars, memory, session
  <2> QED BY <2>1, StillFirst
<1>9. CASE Quit
  BY <1>9, QuitFirst
<1> QED BY <1>1, <1>2, <1>3, <1>4, <1>5, <1>6, <1>7, <1>8, <1>9 DEF Next

(* A session that loads one complete file and quits gives everything back, *)
(* when only .bss may be absent (del_inter against the mallocs of          *)
(* _loadcmd): the segments that quitting releases are all there ever were. *)
THEOREM ExitClean == Spec => []CleanExit
<1>1. IInv /\ FirstInv => CleanExit
  <2> SUFFICES ASSUME IInv, FirstInv, pc = "idle", ~mapped, FirstLoad,
                      NEW k \in Kind
               PROVE  live[k] = 0
    BY DEF CleanExit, FirstLoad
  <2>1. Exact /\ Segments = 0 /\ Contents = 0 /\ before[k] = 0 /\ count = 1
    BY EmptySlots DEF FirstInv, FirstLoad
  <2>2. CASE k \in Temporary
    <3>1. ret = OK /\ Sound(file) /\ count > 0
      BY <2>1 DEF FirstInv, FirstLoad
    <3>2. live[k] = before[k]
      BY <2>2, <3>1 DEF IInv, Tidy
    <3> QED BY <2>1, <3>2
  <2>3. CASE k \in {"map", "segment", "content"}
    BY <2>1, <2>3 DEF Exact
  <2> QED BY <2>2, <2>3 DEF Kind
<1>2. Init => IInv /\ FirstInv
  BY InitInv, InitFirst
<1>3. IInv /\ FirstInv /\ [Next]_vars => (IInv /\ FirstInv)'
  BY NextInv, NextFirst
<1> QED BY <1>1, <1>2, <1>3, PTL DEF Spec
=============================================================================
