----------------------------- MODULE StoreProofs -----------------------------
(***************************************************************************)
(* The segments of Memory implement the map from addresses to bytes of     *)
(* ByteStore, for every width, layout, file and command.                   *)
(***************************************************************************)
EXTENDS MemoryProofs

USE WidthAssumption, LayoutAssumption, InputAssumption, NullAssumption DEF OK, ERR

ByteOf(s, b) == s.contenu[b - s.base + 1]

(* What an access does to the bytes of a segment: none is lost, those of   *)
(* new are written, and those gained are zero.                             *)
Evolves(s, t, new) ==
  \A b \in Adr :
    /\ InBounds(s, b) => InBounds(t, b)
    /\ InBounds(t, b) =>
         ByteOf(t, b) = IF b \in DOMAIN new THEN new[b]
                        ELSE IF InBounds(s, b) THEN ByteOf(s, b) ELSE 0

-----------------------------------------------------------------------------
(* One segment                                                             *)

LEMMA Fields ==
  ASSUME NEW s, Below(s), ~Ghost(s)
  PROVE  /\ s.base \in Nat /\ s.max \in Nat /\ s.max >= 1
         /\ s.contenu \in Seq(Byte) /\ Len(s.contenu) \in Nat
         /\ Beyond(s) \in Nat /\ s.base + s.max <= Beyond(s) /\ Beyond(s) <= StackBase
<1>1. /\ s.base \in Nat /\ s.max \in Nat /\ s.contenu \in Seq(Byte)
      /\ s.max >= 1 /\ Beyond(s) <= StackBase
  BY DEF Below, Segment, Ghost, Adr
<1>2. Len(s.contenu) \in Nat
  BY <1>1
<1>3. LargerOf(s.max, Len(s.contenu)) \in Nat /\ s.max <= LargerOf(s.max, Len(s.contenu))
  BY <1>1, <1>2, LargerBounds
<1> QED BY <1>1, <1>2, <1>3 DEF Beyond

LEMMA Window ==
  ASSUME NEW s, Below(s), ~Ghost(s), NEW b \in Adr
  PROVE  /\ Hit(s, b) <=> s.base <= b /\ b < s.base + s.max
         /\ Hit(s, b) => b < Beyond(s)
<1>1. /\ s.base \in Nat /\ s.max \in Nat /\ s.max >= 1 /\ b \in Nat
      /\ Beyond(s) \in Nat /\ s.base + s.max <= Beyond(s) /\ Beyond(s) <= StackBase
  BY Fields DEF Adr
<1> DEFINE e == s.base + s.max - 1
<1>2. e \in Nat /\ e < W /\ W \in Nat /\ W > 0
  BY <1>1
<1>3. e % W = e
  <2> HIDE DEF e
  <2> QED BY <1>2
<1>4. Hit(s, b) <=> s.base <= b /\ b <= e
  BY <1>3 DEF Hit
<1> QED BY <1>1, <1>4

LEMMA Inside ==
  ASSUME NEW s, Below(s), NEW b \in Adr
  PROVE  InBounds(s, b) <=> /\ ~Ghost(s) /\ s.base <= b
                            /\ b < s.base + s.max /\ b < s.base + Len(s.contenu)
BY Window DEF InBounds

(* get_byte_seg: the address asked for is not among the bytes gained, nor  *)
(* is any after it.                                                        *)
LEMMA GrownBytes ==
  ASSUME NEW s, Below(s), NEW a \in Adr, NEW b \in Adr
  PROVE  LET g == Grown(s, a) IN
         /\ InBounds(s, b) => InBounds(g, b)
         /\ InBounds(g, b) => ByteOf(g, b) = IF InBounds(s, b) THEN ByteOf(s, b) ELSE 0
         /\ InBounds(g, b) /\ b >= a => InBounds(s, b)
<1> DEFINE g == Grown(s, a)
           n == Len(s.contenu)
<1>1. CASE Hit(s, a) /\ ~Ghost(s) /\ a > s.base + n
  <2> DEFINE c == [k \in 1..(a - s.base) |-> IF k <= n THEN s.contenu[k] ELSE 0]
  <2>1. Extends(s, g) /\ Below(g) /\ ~Ghost(g)
    BY <1>1, GrownExtends, ExtendsBelow DEF Extends
  <2>2. s.base \in Nat /\ s.max \in Nat /\ n \in Nat /\ a \in Nat /\ b \in Nat
    BY <1>1, Fields DEF Adr
  <2>3. g = [s EXCEPT !.contenu = c]
    BY <1>1, Zenon DEF Grown
  <2>4. g.base = s.base /\ g.max = s.max /\ g.contenu = c
    BY <2>3 DEF Below, Segment
  <2>5. Len(c) = a - s.base
    <3>1. g.contenu \in Seq(Byte)
      BY <2>1, Fields
    <3>2. c \in Seq(Byte) /\ DOMAIN c = 1..(a - s.base) /\ a - s.base \in Nat
      BY <1>1, <2>2, <2>4, <3>1
    <3> QED BY <3>2
  <2>6. InBounds(s, b) <=> s.base <= b /\ b < s.base + s.max /\ b < s.base + n
    BY <1>1, Inside
  <2>7. InBounds(g, b) <=> s.base <= b /\ b < s.base + s.max /\ b < a
    BY <2>1, <2>2, <2>4, <2>5, Inside
  <2>8. InBounds(s, b) => InBounds(g, b)
    BY <1>1, <2>2, <2>6, <2>7
  <2>9. InBounds(g, b) /\ b >= a => InBounds(s, b)
    BY <2>2, <2>7
  <2>10. ASSUME InBounds(g, b)
         PROVE  ByteOf(g, b) = IF InBounds(s, b) THEN ByteOf(s, b) ELSE 0
    <3> DEFINE k == b - s.base + 1
    <3>1. k \in 1..(a - s.base) /\ (k <= n <=> InBounds(s, b))
      BY <2>2, <2>6, <2>7, <2>10
    <3>2. ByteOf(g, b) = c[k]
      BY <2>4 DEF ByteOf
    <3> QED BY <3>1, <3>2 DEF ByteOf
  <2> QED BY <2>8, <2>9, <2>10
<1>2. CASE ~(Hit(s, a) /\ ~Ghost(s) /\ a > s.base + n)
  <2>1. g = s
    BY <1>2 DEF Grown
  <2> QED BY <2>1
<1> QED BY <1>1, <1>2

(* change_val_seg                                                          *)
LEMMA PutBytes ==
  ASSUME NEW s, Below(s), NEW a \in Adr, NEW v \in Byte, NEW b \in Adr
  PROVE  LET t == Put(s, a, v) IN
         /\ InBounds(s, b) => InBounds(t, b)
         /\ InBounds(t, b) => ByteOf(t, b) = IF b = a THEN v
                                             ELSE IF InBounds(s, b) THEN ByteOf(s, b) ELSE 0
         /\ InBounds(t, b) /\ b >= a => InBounds(s, b)
<1> DEFINE g == Grown(s, a)
           t == Put(s, a, v)
<1>1. Extends(s, g) /\ Below(g)
  BY GrownExtends, ExtendsBelow
<1>2. /\ InBounds(s, b) => InBounds(g, b)
      /\ InBounds(g, b) => ByteOf(g, b) = IF InBounds(s, b) THEN ByteOf(s, b) ELSE 0
      /\ InBounds(g, b) /\ b >= a => InBounds(s, b)
  BY GrownBytes
<1>3. CASE InBounds(g, a)
  <2> HIDE DEF g
  <2> DEFINE k == a - g.base + 1
             c == [g.contenu EXCEPT ![k] = v]
  <2>1. ~Ghost(g) /\ g.base \in Nat /\ g.max \in Nat /\ g.contenu \in Seq(Byte)
        /\ Len(g.contenu) \in Nat /\ a \in Nat /\ b \in Nat
    BY <1>1, <1>3, Fields DEF InBounds, Adr
  <2>2. k \in 1..Len(g.contenu)
    BY <1>1, <1>3, <2>1, Inside
  <2>3. c \in Seq(Byte) /\ Len(c) = Len(g.contenu)
    BY <2>1, <2>2
  <2>4. t = [g EXCEPT !.contenu = c]
    BY <1>1, <1>3 DEF Put, Below, Segment, g
  <2>5. t.base = g.base /\ t.max = g.max /\ t.contenu = c
    BY <1>1, <2>4 DEF Below, Segment
  <2>6. Below(t) /\ ~Ghost(t)
    <3>1. Extends(s, t) /\ Below(t)
      BY PutExtends, ExtendsBelow
    <3> QED BY <2>3, <2>5, <3>1 DEF Ghost
  <2> HIDE DEF t
  <2>7. InBounds(t, b) <=> InBounds(g, b)
    BY <1>1, <2>1, <2>3, <2>5, <2>6, Inside
  <2>8. ASSUME InBounds(t, b) PROVE ByteOf(t, b) = IF b = a THEN v ELSE ByteOf(g, b)
    <3>1. b - g.base + 1 \in 1..Len(g.contenu)
      BY <1>1, <2>1, <2>7, <2>8, Inside
    <3>2. b # a => b - g.base + 1 # k
      BY <2>1
    <3> QED BY <2>1, <2>2, <2>5, <3>1, <3>2 DEF ByteOf
  <2> QED BY <1>2, <2>7, <2>8 DEF t
<1>4. CASE ~InBounds(g, a)
  <2>1. t = g
    BY <1>4 DEF Put
  <2>2. b = a => ~InBounds(t, b)
    BY <1>4, <2>1
  <2> QED BY <1>2, <2>1, <2>2
<1> QED BY <1>3, <1>4

-----------------------------------------------------------------------------
(* The two accesses of a word                                              *)

LEMMA GrownTwiceBytes ==
  ASSUME NEW s, Below(s), NEW a \in Adr
  PROVE  Evolves(s, GrownTwice(s, a), Abs!Empty)
<1> DEFINE g == Grown(s, a)
           t == Grown(g, After(a))
<1>1. Below(g)
  BY GrownExtends, ExtendsBelow
<1>2. \A b \in Adr : /\ InBounds(s, b) => InBounds(g, b)
                     /\ InBounds(g, b) => ByteOf(g, b) = IF InBounds(s, b) THEN ByteOf(s, b) ELSE 0
  BY GrownBytes
<1> HIDE DEF g
<1>3. \A b \in Adr : /\ InBounds(g, b) => InBounds(t, b)
                     /\ InBounds(t, b) => ByteOf(t, b) = IF InBounds(g, b) THEN ByteOf(g, b) ELSE 0
  BY <1>1, GrownBytes, AfterType
<1> HIDE DEF t
<1>4. DOMAIN Abs!Empty = {}
  BY DEF Abs!Empty
<1>5. Evolves(s, t, Abs!Empty)
  BY <1>2, <1>3, <1>4 DEF Evolves
<1> QED BY <1>5 DEF GrownTwice, g, t

(* The high byte is written where it is stored already, so that it does    *)
(* not matter that the low byte follows.                                   *)
LEMMA PutWordBytes ==
  ASSUME NEW s, Below(s), NEW a \in Adr, NEW v \in Nat, NEW b \in Adr
  PROVE  LET t == PutWord(s, a, v) IN
         /\ InBounds(s, b) => InBounds(t, b)
         /\ InBounds(t, b) => ByteOf(t, b) =
              IF b = a THEN Lo(v)
              ELSE IF b = After(a) THEN Hi(v)
              ELSE IF InBounds(s, b) THEN ByteOf(s, b) ELSE 0
         /\ InBounds(t, b) /\ b = After(a) /\ b # a => InBounds(s, b)
<1> DEFINE h == Put(s, After(a), Hi(v))
           t == Put(h, a, Lo(v))
<1>1. After(a) \in Adr /\ Lo(v) \in Byte /\ Hi(v) \in Byte
  BY AfterType, HalvesType
<1>2. Below(h)
  BY <1>1, PutExtends, ExtendsBelow
<1>3. /\ InBounds(s, b) => InBounds(h, b)
      /\ InBounds(h, b) => ByteOf(h, b) = IF b = After(a) THEN Hi(v)
                                          ELSE IF InBounds(s, b) THEN ByteOf(s, b) ELSE 0
      /\ InBounds(h, b) /\ b >= After(a) => InBounds(s, b)
  BY <1>1, PutBytes
<1> HIDE DEF h
<1>4. /\ InBounds(h, b) => InBounds(t, b)
      /\ InBounds(t, b) => ByteOf(t, b) = IF b = a THEN Lo(v)
                                          ELSE IF InBounds(h, b) THEN ByteOf(h, b) ELSE 0
      /\ InBounds(t, b) /\ b >= a => InBounds(h, b)
  BY <1>1, <1>2, PutBytes
<1>5. ASSUME InBounds(t, b), b = After(a), b # a
      PROVE  InBounds(h, b) /\ InBounds(s, b)
  <2>1. a \in Nat /\ b \in Nat /\ W \in Nat /\ StackBase < W /\ StackBase \in Nat
    BY DEF Adr
  <2>2. CASE a + 1 < W
    <3>1. b = a + 1
      BY <1>5, <2>1, <2>2 DEF After
    <3> QED BY <1>3, <1>4, <1>5, <2>1, <3>1
  <2>3. CASE ~(a + 1 < W)
    <3>1. ~Hit(h, a) \/ Ghost(h)
      <4>1. SUFFICES ASSUME Hit(h, a), ~Ghost(h) PROVE FALSE
        OBVIOUS
      <4>2. a < Beyond(h) /\ Beyond(h) <= StackBase /\ Beyond(h) \in Nat
        BY <1>2, <4>1, Window, Fields
      <4> QED BY <2>1, <2>3, <4>2
    <3>2. t = h
      BY <3>1 DEF Put, Grown, InBounds
    <3> QED BY <1>3, <1>5, <2>1, <3>2
  <2> QED BY <2>2, <2>3
<1>6. InBounds(t, b) => ByteOf(t, b) =
              IF b = a THEN Lo(v)
              ELSE IF b = After(a) THEN Hi(v)
              ELSE IF InBounds(s, b) THEN ByteOf(s, b) ELSE 0
  <2>1. CASE b = a
    BY <1>4, <2>1
  <2>2. CASE b # a /\ b = After(a)
    BY <1>3, <1>4, <1>5, <2>2
  <2>3. CASE b # a /\ b # After(a)
    BY <1>3, <1>4, <2>3
  <2> QED BY <2>1, <2>2, <2>3
<1> HIDE DEF t
<1> QED BY <1>3, <1>4, <1>5, <1>6 DEF PutWord, h, t

-----------------------------------------------------------------------------
(* All the segments                                                        *)

CellOf(m, a) == {i \in Visited : m[i] # NULL /\ InBounds(m[i], a)}
StoreOf(m) == [a \in {b \in Adr : CellOf(m, b) # {}} |->
                 ByteOf(m[CHOOSE i \in CellOf(m, a) : TRUE], a)]

LEMMA StoreIs == Store = StoreOf(mem)
BY DEF Store, StoreOf, Cell, CellOf, ByteOf

LEMMA StoreIsNext == Store' = StoreOf(mem')
BY DEF Store, StoreOf, Cell, CellOf, ByteOf, InBounds, Hit, Ghost

Apart(m) ==
  /\ \A i \in Visited : m[i] # NULL => Below(m[i])
  /\ \A i, j \in Visited : i < j /\ m[i] # NULL /\ m[j] # NULL /\ ~Ghost(m[i]) /\ ~Ghost(m[j])
       => Beyond(m[i]) <= m[j].base

LEMMA InvApart == IInv => Apart(mem)
BY DEF IInv, LayoutInv, SegmentsApart, Loaded, Apart, Visited, Sections, Slot

LEMMA OneHit ==
  ASSUME NEW m, Apart(m), NEW i \in Visited, NEW j \in Visited, NEW a \in Adr,
         m[i] # NULL, m[j] # NULL, ~Ghost(m[i]), ~Ghost(m[j]), Hit(m[i], a), Hit(m[j], a)
  PROVE  i = j
<1>1. Below(m[i]) /\ Below(m[j]) /\ a \in Nat
  BY DEF Apart, Adr
<1>2. /\ m[i].base \in Nat /\ Beyond(m[i]) \in Nat /\ m[i].base <= a /\ a < Beyond(m[i])
      /\ m[j].base \in Nat /\ Beyond(m[j]) \in Nat /\ m[j].base <= a /\ a < Beyond(m[j])
  BY <1>1, Window, Fields
<1>3. ~(i < j) /\ ~(j < i)
  BY <1>1, <1>2 DEF Apart
<1> QED BY <1>3 DEF Visited

LEMMA CellByte ==
  ASSUME NEW m, Apart(m), NEW i \in Visited, NEW a \in Adr, m[i] # NULL, InBounds(m[i], a)
  PROVE  a \in DOMAIN StoreOf(m) /\ StoreOf(m)[a] = ByteOf(m[i], a)
<1>1. i \in CellOf(m, a)
  BY DEF CellOf
<1>2. \A j \in CellOf(m, a) : j = i
  BY OneHit DEF CellOf, InBounds
<1>3. (CHOOSE k \in CellOf(m, a) : TRUE) = i
  BY <1>1, <1>2
<1> QED BY <1>1, <1>3 DEF StoreOf

LEMMA ByteCell ==
  ASSUME NEW m, NEW a \in DOMAIN StoreOf(m)
  PROVE  a \in Adr /\ \E i \in Visited : m[i] # NULL /\ InBounds(m[i], a)
BY DEF StoreOf, CellOf

(* When every segment evolves, so does the map.                            *)
LEMMA Together ==
  ASSUME NEW m, NEW n, NEW new, Apart(m), Apart(n),
         \A i \in Visited : /\ m[i] = NULL <=> n[i] = NULL
                            /\ m[i] # NULL => Evolves(m[i], n[i], new)
  PROVE  /\ DOMAIN StoreOf(m) \subseteq DOMAIN StoreOf(n)
         /\ StoreOf(n) = [b \in DOMAIN StoreOf(n) |->
                            IF b \in DOMAIN new THEN new[b]
                            ELSE IF b \in DOMAIN StoreOf(m) THEN StoreOf(m)[b] ELSE 0]
<1>1. ASSUME NEW b \in DOMAIN StoreOf(m)
      PROVE  b \in DOMAIN StoreOf(n)
  <2>1. PICK i \in Visited : m[i] # NULL /\ InBounds(m[i], b)
    BY ByteCell
  <2>2. b \in Adr /\ n[i] # NULL /\ InBounds(n[i], b)
    BY <2>1, ByteCell DEF Evolves
  <2> QED BY <2>2, CellByte
<1>2. ASSUME NEW b \in DOMAIN StoreOf(n)
      PROVE  StoreOf(n)[b] = IF b \in DOMAIN new THEN new[b]
                             ELSE IF b \in DOMAIN StoreOf(m) THEN StoreOf(m)[b] ELSE 0
  <2>1. PICK i \in Visited : n[i] # NULL /\ InBounds(n[i], b)
    BY ByteCell
  <2>2. b \in Adr /\ StoreOf(n)[b] = ByteOf(n[i], b) /\ m[i] # NULL
    BY <2>1, ByteCell, CellByte
  <2>3. ByteOf(n[i], b) = IF b \in DOMAIN new THEN new[b]
                          ELSE IF InBounds(m[i], b) THEN ByteOf(m[i], b) ELSE 0
    BY <2>1, <2>2 DEF Evolves
  <2>4. InBounds(m[i], b) => b \in DOMAIN StoreOf(m) /\ StoreOf(m)[b] = ByteOf(m[i], b)
    BY <2>2, CellByte
  <2>5. b \in DOMAIN StoreOf(m) => InBounds(m[i], b)
    <3>1. SUFFICES ASSUME b \in DOMAIN StoreOf(m) PROVE InBounds(m[i], b)
      OBVIOUS
    <3>2. PICK j \in Visited : m[j] # NULL /\ InBounds(m[j], b)
      BY <3>1, ByteCell
    <3>3. n[j] # NULL /\ InBounds(n[j], b)
      BY <2>2, <3>2 DEF Evolves
    <3>4. i = j
      BY <2>1, <2>2, <3>3, OneHit DEF InBounds
    <3> QED BY <3>2, <3>4
  <2> QED BY <2>2, <2>3, <2>4, <2>5
<1>3. StoreOf(n) = [b \in DOMAIN StoreOf(n) |-> StoreOf(n)[b]]
  BY DEF StoreOf
<1> QED BY <1>1, <1>2, <1>3

-----------------------------------------------------------------------------
(* The four commands, one segment at a time                                *)

Kept == \A i \in Slot : \/ mem'[i] = mem[i]
                        \/ i \in Visited /\ mem[i] # NULL /\ Extends(mem[i], mem'[i])

Moves(new) ==
  /\ DOMAIN StoreOf(mem) \subseteq DOMAIN StoreOf(mem')
  /\ StoreOf(mem') = [b \in DOMAIN StoreOf(mem') |->
                        IF b \in DOMAIN new THEN new[b]
                        ELSE IF b \in DOMAIN StoreOf(mem) THEN StoreOf(mem)[b] ELSE 0]

LEMMA Moved ==
  ASSUME IInv, IInv', NEW new, Kept,
         \A i \in Visited : mem[i] # NULL => Evolves(mem[i], mem'[i], new)
  PROVE  Moves(new)
<1>1. \A i \in Visited : mem[i] = NULL <=> mem'[i] = NULL
  BY DEF Kept, Extends, Visited, Slot
<1>2. Apart(mem) /\ Apart(mem')
  <2>1. Apart(mem')
    BY DEF IInv, LayoutInv, SegmentsApart, Loaded, Apart, Visited, Sections, Slot
  <2> QED BY <2>1, InvApart
<1> QED BY <1>1, <1>2, Together DEF Moves

LEMMA EvolvesSame ==
  ASSUME NEW s
  PROVE  Evolves(s, s, Abs!Empty)
<1>1. DOMAIN Abs!Empty = {}
  BY DEF Abs!Empty
<1> QED BY <1>1 DEF Evolves

LEMMA SameMoves ==
  ASSUME IInv, IInv', UNCHANGED mem
  PROVE  Kept /\ Moves(Abs!Empty)
<1>1. Kept
  BY DEF Kept
<1>2. \A i \in Visited : Evolves(mem[i], mem'[i], Abs!Empty)
  BY EvolvesSame
<1> QED BY <1>1, <1>2, Moved

ByteWritten(a, v) == [b \in {a} \intersect DOMAIN StoreOf(mem) |-> v]

LEMMA SetByteMoves ==
  ASSUME IInv, IInv', NEW a \in Targets, NEW v \in Byte, SetByte(a, v)
  PROVE  Kept /\ (up' => Moves(ByteWritten(a, v)) /\ ret' = OK)
<1>1. CASE Dies
  BY <1>1 DEF Dies, Kept
<1>2. CASE /\ \A i \in Visited : mem[i] # NULL
           /\ mem' = [i \in Slot |-> IF i \in Visited THEN Put(mem[i], a, v) ELSE mem[i]]
           /\ ret' = OK
  <2>1. a \in Adr /\ Apart(mem)
    BY InvApart
  <2>2. \A i \in Visited : Below(mem[i]) /\ mem'[i] = Put(mem[i], a, v)
    BY <1>2, <2>1 DEF Apart, Visited, Slot
  <2>3. Kept
    BY <1>2, <2>1, <2>2, PutExtends DEF Kept
  <2>4. ASSUME NEW i \in Visited
        PROVE  Evolves(mem[i], mem'[i], ByteWritten(a, v))
    <3> DEFINE s == mem[i]
               t == mem'[i]
    <3>1. DOMAIN ByteWritten(a, v) = {a} \intersect DOMAIN StoreOf(mem)
          /\ \A b \in DOMAIN ByteWritten(a, v) : b = a /\ ByteWritten(a, v)[b] = v
      BY DEF ByteWritten
    <3>2. ASSUME NEW b \in Adr
          PROVE  /\ InBounds(s, b) => InBounds(t, b)
                 /\ InBounds(t, b) => ByteOf(t, b) = IF b = a THEN v
                                                     ELSE IF InBounds(s, b) THEN ByteOf(s, b) ELSE 0
                 /\ InBounds(t, b) /\ b >= a => InBounds(s, b)
      BY <2>1, <2>2, PutBytes
    <3>3. InBounds(t, a) => a \in DOMAIN StoreOf(mem)
      <4>1. InBounds(t, a) => InBounds(s, a)
        BY <2>1, <3>2 DEF Adr
      <4> QED BY <1>2, <2>1, <4>1, CellByte
    <3> HIDE DEF s, t
    <3>4. Evolves(s, t, ByteWritten(a, v))
      BY <3>1, <3>2, <3>3 DEF Evolves
    <3> QED BY <3>4 DEF s, t
  <2> QED BY <1>2, <2>3, <2>4, Moved
<1> QED BY <1>1, <1>2 DEF SetByte

WordWritten(a, v) ==
  LET new == [b \in {a, After(a)} |-> IF b = a THEN Lo(v) ELSE Hi(v)] IN
  [b \in {a} \union ({After(a)} \intersect DOMAIN StoreOf(mem)) |-> new[b]]

LEMMA SetWordMoves ==
  ASSUME IInv, IInv', NEW a \in Targets, NEW v \in Words, SetWord(a, v)
  PROVE  Kept /\ (up' => Moves(WordWritten(a, v)) /\ ret' = OK)
<1>1. CASE Dies
  BY <1>1 DEF Dies, Kept
<1>2. CASE /\ \A i \in Visited : mem[i] # NULL
           /\ mem' = [i \in Slot |-> IF i \in Visited THEN PutWord(mem[i], a, v) ELSE mem[i]]
           /\ ret' = OK
  <2>1. a \in Adr /\ v \in Nat /\ Apart(mem)
    BY InvApart
  <2>2. \A i \in Visited : Below(mem[i]) /\ mem'[i] = PutWord(mem[i], a, v)
    BY <1>2, <2>1 DEF Apart, Visited, Slot
  <2>3. Kept
    BY <1>2, <2>1, <2>2, PutWordExtends DEF Kept
  <2>4. ASSUME NEW i \in Visited
        PROVE  Evolves(mem[i], mem'[i], WordWritten(a, v))
    <3> DEFINE s == mem[i]
               t == mem'[i]
               new == WordWritten(a, v)
    <3>1. /\ DOMAIN new = {a} \union ({After(a)} \intersect DOMAIN StoreOf(mem))
          /\ \A b \in DOMAIN new : new[b] = IF b = a THEN Lo(v) ELSE Hi(v)
      BY DEF WordWritten
    <3>2. ASSUME NEW b \in Adr
          PROVE  /\ InBounds(s, b) => InBounds(t, b)
                 /\ InBounds(t, b) => ByteOf(t, b) =
                      IF b = a THEN Lo(v)
                      ELSE IF b = After(a) THEN Hi(v)
                      ELSE IF InBounds(s, b) THEN ByteOf(s, b) ELSE 0
                 /\ InBounds(t, b) /\ b = After(a) /\ b # a => InBounds(s, b)
      BY <2>1, <2>2, PutWordBytes
    <3>3. ASSUME NEW b \in Adr, InBounds(t, b), b = After(a), b # a
          PROVE  b \in DOMAIN StoreOf(mem)
      <4>1. InBounds(s, b)
        BY <3>2, <3>3
      <4> QED BY <1>2, <2>1, <4>1, CellByte
    <3> HIDE DEF s, t, new
    <3>4. Evolves(s, t, new)
      BY <3>1, <3>2, <3>3 DEF Evolves
    <3> QED BY <3>4 DEF s, t, new
  <2> QED BY <1>2, <2>3, <2>4, Moved
<1> QED BY <1>1, <1>2 DEF SetWord

LEMMA Least ==
  ASSUME NEW S, S \subseteq Visited, S # {}
  PROVE  LET k == CHOOSE k \in S : \A m \in S : k <= m
         IN k \in S /\ \A m \in S : k <= m
<1>1. \A m \in S : m \in {0, 1, 2}
  BY DEF Visited
<1>2. \E k \in S : \A m \in S : k <= m
  <2>1. CASE 0 \in S
    BY <1>1, <2>1
  <2>2. CASE 0 \notin S /\ 1 \in S
    BY <1>1, <2>2
  <2>3. CASE 0 \notin S /\ 1 \notin S
    BY <1>1, <2>3
  <2> QED BY <2>1, <2>2, <2>3
<1> QED BY <1>2

LEMMA NoMap ==
  ASSUME Survival, ~mapped
  PROVE  DOMAIN StoreOf(mem) = {}
<1>1. \A i \in Visited : mem[i] = NULL
  BY DEF Survival, Visited, Slot
<1>2. ASSUME NEW a \in DOMAIN StoreOf(mem) PROVE FALSE
  BY <1>1, <1>2, ByteCell
<1> QED BY <1>2

(* No other segment can answer before the one that holds the byte.         *)
LEMMA AssertByteMoves ==
  ASSUME IInv, IInv', Survival, NEW a \in Targets, NEW v \in Byte, AssertByte(a, v)
  PROVE  /\ Kept
         /\ up' => /\ Moves(Abs!Empty)
                   /\ a \in DOMAIN StoreOf(mem) =>
                        (ret' = OK <=> StoreOf(mem)[a] = v /\ v < B \div 2)
<1> DEFINE stops == {k \in Visited : mem[k] = NULL \/ Wild(mem[k], a) \/ Gives(mem[k], a)}
           i == CHOOSE k \in stops : \A m \in stops : k <= m
<1>1. a \in Adr /\ Apart(mem)
  BY InvApart
<1>2. ASSUME a \in DOMAIN StoreOf(mem)
      PROVE  \E j \in stops : mem[j] # NULL /\ InBounds(mem[j], a)
  <2>1. PICK j \in Visited : mem[j] # NULL /\ InBounds(mem[j], a)
    BY <1>2, ByteCell
  <2> QED BY <2>1 DEF InBounds, Gives
<1>3. CASE ~mapped \/ stops = {}
  <2>1. UNCHANGED mem
    BY <1>3 DEF AssertByte
  <2>2. a \notin DOMAIN StoreOf(mem)
    BY <1>2, <1>3, NoMap
  <2> QED BY <2>1, <2>2, SameMoves
<1>4. CASE ~(~mapped \/ stops = {}) /\ (mem[i] = NULL \/ Ghost(mem[i]))
  <2>1. Dies
    BY <1>4 DEF AssertByte
  <2> QED BY <2>1 DEF Dies, Kept
<1>5. CASE ~(~mapped \/ stops = {}) /\ ~(mem[i] = NULL \/ Ghost(mem[i]))
  <2>1. /\ mem' = [mem EXCEPT ![i] = Grown(@, a)]
        /\ \E b \in Read(mem'[i], a) : Answer(SameByte(b, v))
    BY <1>5 DEF AssertByte
  <2>2. i \in stops
    BY <1>5, Least
  <2> HIDE DEF i
  <2>3. i \in Visited /\ i \in Slot /\ Gives(mem[i], a) /\ mem[i] # NULL /\ Below(mem[i])
    BY <1>1, <1>5, <2>2 DEF Wild, Apart, Visited, Slot
  <2>4. mem' = [mem EXCEPT ![i] = Grown(mem[i], a)] /\ DOMAIN mem = Slot
    BY <2>1 DEF IInv, TypeOK
  <2>5. Kept
    BY <1>1, <2>3, <2>4, GrownExtends DEF Kept
  <2>6. Evolves(mem[i], Grown(mem[i], a), Abs!Empty)
    <3>1. DOMAIN Abs!Empty = {}
      BY DEF Abs!Empty
    <3> QED BY <1>1, <2>3, <3>1, GrownBytes DEF Evolves
  <2>7. Moves(Abs!Empty)
    <3>1. \A k \in Visited : Evolves(mem[k], mem'[k], Abs!Empty)
      BY <2>3, <2>4, <2>6, EvolvesSame DEF Visited, Slot
    <3> QED BY <2>5, <3>1, Moved
  <2>8. ASSUME a \in DOMAIN StoreOf(mem)
        PROVE  ret' = OK <=> StoreOf(mem)[a] = v /\ v < B \div 2
    <3>1. PICK j \in stops : mem[j] # NULL /\ InBounds(mem[j], a)
      BY <1>2, <2>8
    <3>2. j = i
      BY <1>1, <2>3, <3>1, OneHit DEF InBounds, Gives
    <3>3. StoreOf(mem)[a] = ByteOf(mem[i], a)
      BY <1>1, <2>3, <3>1, <3>2, CellByte
    <3>4. mem'[i] = mem[i]
      <4>1. ~(a > mem[i].base + Len(mem[i].contenu))
        <5>1. a \in Nat /\ mem[i].base \in Nat /\ Len(mem[i].contenu) \in Nat
          BY <1>1, <2>3, Fields DEF Gives, Adr
        <5> QED BY <3>1, <3>2, <5>1 DEF InBounds
      <4>2. Grown(mem[i], a) = mem[i]
        BY <4>1 DEF Grown
      <4> QED BY <2>3, <2>4, <4>2
    <3>5. Read(mem'[i], a) = {ByteOf(mem[i], a)}
      BY <3>1, <3>2, <3>4 DEF Read, ByteOf
    <3>6. Answer(SameByte(StoreOf(mem)[a], v))
      BY <2>1, <3>3, <3>5
    <3> QED BY <3>6 DEF Answer, SameByte
  <2> QED BY <2>5, <2>7, <2>8
<1> QED BY <1>3, <1>4, <1>5

-----------------------------------------------------------------------------
(* The segments begin at even addresses, so that a word at an even address *)
(* lies in one of them or in none.                                         *)

Even(n) == n % 2 = 0

EvenInv ==
  /\ Even(start)
  /\ \A i \in Sections : mem[i] # NULL => Even(mem[i].base)

LEMMA EvenSum ==
  ASSUME NEW m \in Nat, NEW n \in Nat, Even(m), Even(n)
  PROVE  Even(m + n)
BY DEF Even

LEMMA EvenSpan ==
  ASSUME NEW n \in Nat
  PROVE  Even(Span(n))
<1>1. PICK p \in Nat : Page = 2 * p
  <2>1. Page \div 2 \in Nat /\ Page = 2 * (Page \div 2)
    OBVIOUS
  <2> QED BY <2>1
<1>2. (n + Page) \div Page \in Nat
  OBVIOUS
<1> DEFINE q == (n + Page) \div Page
<1> HIDE DEF q
<1>3. q * Page = 2 * (q * p) /\ q * p \in Nat
  BY <1>1, <1>2 DEF q
<1> DEFINE r == q * p
<1> HIDE DEF r
<1>4. (2 * r) % 2 = 0
  BY <1>3 DEF r
<1> QED BY <1>3, <1>4 DEF Even, Span, q, r

LEMMA SameWord ==
  ASSUME IInv, EvenInv, NEW a \in Adr, Even(a), NEW i \in Visited, NEW j \in Visited,
         mem[i] # NULL, mem[j] # NULL, InBounds(mem[i], a), InBounds(mem[j], After(a))
  PROVE  i = j /\ After(a) = a + 1
<1>1. Apart(mem) /\ Below(mem[i]) /\ Below(mem[j]) /\ After(a) \in Adr
  BY InvApart, AfterType DEF Apart
<1>2. /\ mem[i].base \in Nat /\ Beyond(mem[i]) \in Nat /\ mem[i].base <= a /\ a < Beyond(mem[i])
      /\ Beyond(mem[i]) <= StackBase /\ ~Ghost(mem[i])
      /\ mem[j].base \in Nat /\ Beyond(mem[j]) \in Nat
      /\ mem[j].base <= After(a) /\ After(a) < Beyond(mem[j]) /\ ~Ghost(mem[j])
  BY <1>1, Window, Fields DEF InBounds
<1>3. a \in Nat /\ W \in Nat /\ StackBase \in Nat /\ StackBase < W
  BY DEF Adr
<1>4. After(a) = a + 1
  <2>1. a + 1 \in Nat /\ a + 1 < W
    BY <1>2, <1>3
  <2>2. (a + 1) % W = a + 1
    BY <1>3, <2>1
  <2> QED BY <2>2 DEF After
<1>5. ~(j < i)
  <2>1. j < i => Beyond(mem[j]) <= mem[i].base
    BY <1>1, <1>2 DEF Apart
  <2> QED BY <1>2, <1>3, <1>4, <2>1
<1>6. ~(i < j)
  <2>1. SUFFICES ASSUME i < j PROVE FALSE
    OBVIOUS
  <2>2. Beyond(mem[i]) <= mem[j].base
    BY <1>1, <1>2, <2>1 DEF Apart
  <2>3. mem[j].base = a + 1
    BY <1>2, <1>3, <1>4, <2>2
  <2>4. Even(mem[j].base)
    BY DEF EvenInv, Visited, Sections
  <2> QED BY <1>3, <2>3, <2>4 DEF Even
<1> QED BY <1>4, <1>5, <1>6 DEF Visited

LEMMA AssertWordMoves ==
  ASSUME IInv, IInv', Survival, EvenInv, NEW a \in Targets, NEW v \in Words, AssertWord(a, v)
  PROVE  /\ Kept
         /\ up' => /\ Moves(Abs!Empty)
                   /\ a % 2 = 1 => ret' = ERR /\ mem' = mem
                   /\ a % 2 = 0 /\ a \in DOMAIN StoreOf(mem) /\ After(a) \in DOMAIN StoreOf(mem) =>
                        (ret' = OK <=> /\ StoreOf(mem)[a] = Lo(v)
                                       /\ StoreOf(mem)[After(a)] = Hi(v))
<1> DEFINE stops == {k \in Visited : \/ mem[k] = NULL
                                     \/ Fault(mem[k], a) \/ Fault(mem[k], After(a))
                                     \/ Gives(mem[k], a) /\ Gives(mem[k], After(a))}
           last == IF stops = {} THEN 2 ELSE CHOOSE k \in stops : \A m \in stops : k <= m
           s == mem[last]
<1>1. a \in Adr /\ After(a) \in Adr /\ Apart(mem) /\ a \in Nat
  BY InvApart, AfterType DEF Adr
<1>2. CASE ~mapped \/ a % 2 = 1
  <2>1. UNCHANGED mem /\ ret' = ERR
    BY <1>2 DEF AssertWord
  <2>2. ~mapped => a \notin DOMAIN StoreOf(mem)
    BY NoMap
  <2> QED BY <1>1, <1>2, <2>1, <2>2, SameMoves
<1>3. CASE ~(~mapped \/ a % 2 = 1) /\ stops # {} /\ (s = NULL \/ Ghost(s))
  <2>1. Dies
    BY <1>3 DEF AssertWord
  <2> QED BY <2>1 DEF Dies, Kept
<1>4. CASE ~(~mapped \/ a % 2 = 1) /\ ~(stops # {} /\ (s = NULL \/ Ghost(s)))
  <2>1. /\ mem' = [i \in Slot |-> IF i <= last THEN GrownTwice(mem[i], a) ELSE mem[i]]
        /\ stops # {} => \E lo \in ReadFirst(s, a), hi \in Read(mem'[last], After(a)) :
                           Answer(lo = Lo(v) /\ hi = Hi(v))
    BY <1>4 DEF AssertWord
  <2>2. last \in Visited /\ \A m \in stops : last <= m
    <3>1. CASE stops # {}
      BY <3>1, Least
    <3>2. CASE stops = {}
      BY <3>2 DEF Visited
    <3> QED BY <3>1, <3>2
  <2>3. stops # {} => last \in stops
    BY Least
  <2>4. \A i \in Visited : i <= last => mem[i] # NULL
    <3> SUFFICES ASSUME NEW i \in Visited, i <= last, mem[i] = NULL PROVE FALSE
      OBVIOUS
    <3> HIDE DEF last
    <3>1. i \in stops
      OBVIOUS
    <3>2. i = last
      BY <2>2, <3>1 DEF Visited
    <3> QED BY <1>4, <3>1, <3>2
  <2>5. ~Even(a) => FALSE
    BY <1>1, <1>4 DEF Even
  <2> HIDE DEF last
  <2>6. \A i \in Visited : i <= last => /\ mem'[i] = GrownTwice(mem[i], a)
                                        /\ Extends(mem[i], mem'[i])
                                        /\ Evolves(mem[i], mem'[i], Abs!Empty)
    <3> SUFFICES ASSUME NEW i \in Visited, i <= last
                 PROVE  /\ mem'[i] = GrownTwice(mem[i], a)
                        /\ Extends(mem[i], mem'[i])
                        /\ Evolves(mem[i], mem'[i], Abs!Empty)
      OBVIOUS
    <3>1. Below(mem[i])
      BY <1>1, <2>4 DEF Apart
    <3>2. mem'[i] = GrownTwice(mem[i], a)
      BY <2>1 DEF Visited, Slot
    <3> QED BY <1>1, <3>1, <3>2, GrownTwiceExtends, GrownTwiceBytes
  <2>7. \A i \in Slot : ~(i \in Visited /\ i <= last) => mem'[i] = mem[i]
    BY <2>1, <2>2 DEF Visited, Slot
  <2>8. Kept
    BY <2>4, <2>6, <2>7 DEF Kept
  <2>9. Moves(Abs!Empty)
    <3>1. \A i \in Visited : Evolves(mem[i], mem'[i], Abs!Empty)
      BY <2>6, <2>7, EvolvesSame DEF Visited, Slot
    <3> QED BY <2>8, <3>1, Moved
  <2>10. ASSUME a \in DOMAIN StoreOf(mem), After(a) \in DOMAIN StoreOf(mem)
         PROVE  ret' = OK <=> StoreOf(mem)[a] = Lo(v) /\ StoreOf(mem)[After(a)] = Hi(v)
    <3>1. PICK i \in Visited : mem[i] # NULL /\ InBounds(mem[i], a)
      BY <2>10, ByteCell
    <3>2. PICK j \in Visited : mem[j] # NULL /\ InBounds(mem[j], After(a))
      BY <2>10, ByteCell
    <3>3. i = j /\ After(a) = a + 1
      BY <1>1, <2>5, <3>1, <3>2, SameWord
    <3>4. i \in stops
      BY <3>1, <3>2, <3>3 DEF InBounds, Gives
    <3>5. last \in stops /\ ~(s = NULL \/ Ghost(s))
      BY <1>4, <2>3, <3>4
    <3>6. Hit(mem[last], a)
      BY <3>5 DEF Fault, Gives
    <3>7. last = i
      BY <1>1, <2>2, <3>1, <3>5, <3>6, OneHit DEF InBounds
    <3>8. /\ InBounds(s, a) /\ InBounds(s, After(a))
          /\ StoreOf(mem)[a] = ByteOf(s, a) /\ StoreOf(mem)[After(a)] = ByteOf(s, After(a))
      BY <1>1, <3>1, <3>2, <3>3, <3>7, CellByte
    <3>9. s.base \in Nat /\ Len(s.contenu) \in Nat /\ After(a) \in Nat
      <4>1. Below(s) /\ ~Ghost(s)
        BY <1>1, <3>1, <3>5, <3>7 DEF Apart
      <4> QED BY <1>1, <4>1, Fields DEF Adr
    <3> HIDE DEF s
    <3>10. Grown(s, a) = s /\ Grown(s, After(a)) = s
      <4>1. ~(a > s.base + Len(s.contenu)) /\ ~(After(a) > s.base + Len(s.contenu))
        BY <1>1, <3>8, <3>9 DEF InBounds
      <4> QED BY <4>1 DEF Grown
    <3>11. GrownTwice(s, a) = s
      BY <3>10 DEF GrownTwice
    <3>12. mem'[last] = s
      BY <2>2, <2>6, <3>11 DEF s, Visited
    <3>13. ReadFirst(s, a) = {ByteOf(s, a)}
      BY <3>8, <3>10, <3>11 DEF ReadFirst, Read, ByteOf
    <3>14. Read(mem'[last], After(a)) = {ByteOf(s, After(a))}
      BY <3>8, <3>12 DEF Read, ByteOf
    <3>15. Answer(ByteOf(s, a) = Lo(v) /\ ByteOf(s, After(a)) = Hi(v))
      BY <2>1, <3>4, <3>13, <3>14
    <3> QED BY <3>8, <3>15 DEF Answer
  <2> QED BY <1>1, <1>4, <2>8, <2>9, <2>10
<1> QED BY <1>2, <1>3, <1>4

-----------------------------------------------------------------------------
LEMMA EvenKept == IInv /\ IInv' /\ Survival /\ EvenInv /\ [Next]_vars => EvenInv'
<1> SUFFICES ASSUME IInv, IInv', Survival, EvenInv, [Next]_vars PROVE EvenInv'
  OBVIOUS
<1> USE DEF Slot, Sections
<1>1. ASSUME Kept, UNCHANGED start PROVE EvenInv'
  BY <1>1 DEF Kept, Extends, EvenInv
<1>2. ASSUME UNCHANGED <<mem, start>> PROVE EvenInv'
  BY <1>2 DEF EvenInv
<1>3. CASE LoadRefused \/ LoadAborts \/ HeapBreaks
  <2>1. UNCHANGED <<mem, start>>
    BY <1>3 DEF LoadRefused, LoadAborts, HeapBreaks, load
  <2> QED BY <1>2, <2>1
<1>4. CASE LoadBegin
  BY <1>4 DEF LoadBegin, EvenInv, Even
<1>5. CASE LoadSection
  <2>1. PICK c \in Contents :
          /\ mem' = [mem EXCEPT ![nseg] = [base |-> start, max |-> Page, contenu |-> c]]
          /\ start' = start + Span(Len(c))
    BY <1>5 DEF LoadSection
  <2>2. Len(c) \in Nat /\ Span(Len(c)) \in Nat /\ start \in Nat
    <3>1. Len(c) \in Nat
      OBVIOUS
    <3> QED BY <3>1, SpanBounds DEF IInv, TypeOK, Adr
  <2>3. Even(start')
    BY <2>1, <2>2, EvenSpan, EvenSum DEF EvenInv
  <2>4. \A i \in Sections : mem'[i] = mem[i] \/ mem'[i].base = start
    BY <2>1 DEF IInv, TypeOK
  <2> QED BY <2>3, <2>4 DEF EvenInv
<1>6. CASE LoadSkipped
  <2>1. PICK n : mem' = [mem EXCEPT ![nseg] = [base |-> start, max |-> n, contenu |-> NULL]]
    BY <1>6 DEF LoadSkipped
  <2>2. \A i \in Sections : mem'[i] = mem[i] \/ mem'[i].base = start
    BY <2>1 DEF IInv, TypeOK
  <2>3. UNCHANGED start
    BY <1>6 DEF LoadSkipped
  <2> QED BY <2>2, <2>3 DEF EvenInv
<1>7. CASE LoadEnd
  <2>1. start' = 0 /\ sect = 4
    BY <1>7 DEF LoadEnd
  <2>2. CASE nseg = 0
    BY <1>7, <2>1, <2>2 DEF LoadEnd, EvenInv, Even
  <2>3. CASE nseg # 0
    <3>1. mem' = [mem EXCEPT ![PLACESTHEAP] = Stack, ![nseg - 1].max = LastMax]
      BY <1>7, <2>3 DEF LoadEnd
    <3>2. nseg - 1 \in Sections /\ mem \in [Slot -> Segment \union {NULL}]
      BY <2>3 DEF IInv, TypeOK
    <3>3. mem[nseg - 1] \in Segment
      <4>1. Loaded(nseg - 1)
        BY <2>1, <3>2 DEF IInv, FilledFirst
      <4> QED BY <3>2, <4>1 DEF Loaded
    <3> DEFINE k == nseg - 1
               m == [mem EXCEPT ![PLACESTHEAP] = Stack]
    <3>4. mem' = [m EXCEPT ![k] = [m[k] EXCEPT !.max = LastMax]]
      BY <3>1
    <3>5. m = [i \in Slot |-> IF i = PLACESTHEAP THEN Stack ELSE mem[i]]
      BY <3>2
    <3> HIDE DEF m, k
    <3>6. m[k] = mem[k]
      BY <3>2, <3>5 DEF k, PLACESTHEAP
    <3>7. mem'[k].base = mem[k].base /\ mem[k] # NULL
      BY <3>2, <3>3, <3>4, <3>5, <3>6 DEF k, Segment
    <3>8. \A i \in Sections : i # k => mem'[i] = mem[i]
      BY <3>4, <3>5 DEF PLACESTHEAP
    <3>9. \A i \in Sections : mem'[i] # NULL => mem[i] # NULL /\ mem'[i].base = mem[i].base
      BY <3>7, <3>8
    <3>10. Even(start')
      BY <2>1 DEF Even
    <3> QED BY <3>9, <3>10 DEF EvenInv
  <2> QED BY <2>2, <2>3
<1>8. ASSUME NEW a \in Targets, NEW v \in Byte, SetByte(a, v) \/ AssertByte(a, v)
      PROVE  EvenInv'
  <2>1. UNCHANGED start
    BY <1>8, Zenon DEF SetByte, AssertByte, Dies, load
  <2>2. Kept
    BY <1>8, SetByteMoves, AssertByteMoves
  <2> QED BY <1>1, <2>1, <2>2
<1>9. ASSUME NEW a \in Targets, NEW v \in Words, SetWord(a, v) \/ AssertWord(a, v)
      PROVE  EvenInv'
  <2>1. UNCHANGED start
    BY <1>9, Zenon DEF SetWord, AssertWord, Dies, load
  <2>2. Kept
    BY <1>9, SetWordMoves, AssertWordMoves
  <2> QED BY <1>1, <2>1, <2>2
<1>10. CASE UNCHANGED vars
  BY <1>2, <1>10 DEF vars
<1>11. CASE Over
  BY <1>10, <1>11 DEF Over
<1> QED BY <1>3, <1>4, <1>5, <1>6, <1>7, <1>8, <1>9, <1>10, <1>11 DEF Next

-----------------------------------------------------------------------------
(* Each step of the segments is a step of the map.                         *)
LEMMA InitStore == Init => Abs!Init
<1> SUFFICES ASSUME Init PROVE Abs!Init
  OBVIOUS
<1>1. DOMAIN StoreOf(mem) = {}
  <2>1. \A i \in Visited : mem[i] = NULL
    BY DEF Init, Visited, Slot
  <2>2. ASSUME NEW a \in DOMAIN StoreOf(mem) PROVE FALSE
    BY <2>1, <2>2, ByteCell
  <2> QED BY <2>2
<1>2. Store = Abs!Empty
  BY <1>1, StoreIs DEF StoreOf, Abs!Empty
<1> QED BY <1>2 DEF Init, Abs!Init, Abs!OK

LEMMA MovesBecomes ==
  ASSUME NEW new, Moves(new)
  PROVE  Abs!Becomes(new)
BY StoreIs, StoreIsNext DEF Moves, Abs!Becomes

LEMMA SetByteMaps ==
  ASSUME IInv, IInv', NEW a \in Targets, NEW v \in Byte, SetByte(a, v), up'
  PROVE  Abs!SetByte
<1>1. sect = NULL /\ sect' = NULL /\ up /\ cmd' = [op |-> "set byte", adr |-> a, val |-> v]
  BY DEF SetByte, Begin, Idle, Dies, load
<1>2. Moves(ByteWritten(a, v)) /\ ret' = OK /\ up' = up
  BY <1>1, SetByteMoves DEF IInv, TypeOK
<1>3. Abs!Becomes([b \in {a} \intersect DOMAIN Store |-> v])
  BY <1>2, MovesBecomes, StoreIs DEF ByteWritten
<1> QED BY <1>1, <1>2, <1>3 DEF Abs!SetByte, Abs!OK

LEMMA SetWordMaps ==
  ASSUME IInv, IInv', NEW a \in Targets, NEW v \in Words, SetWord(a, v), up'
  PROVE  Abs!SetWord
<1>1. sect = NULL /\ sect' = NULL /\ up /\ cmd' = [op |-> "set word", adr |-> a, val |-> v]
  BY DEF SetWord, Begin, Idle, Dies, load
<1>2. Moves(WordWritten(a, v)) /\ ret' = OK /\ up' = up
  BY <1>1, SetWordMoves DEF IInv, TypeOK
<1>3. Abs!Becomes(WordWritten(a, v))
  BY <1>2, MovesBecomes
<1> QED BY <1>1, <1>2, <1>3, StoreIs
        DEF Abs!SetWord, Abs!OK, WordWritten, Lo, Hi, After, Abs!Lo, Abs!Hi, Abs!After

LEMMA AssertByteMaps ==
  ASSUME IInv, IInv', Survival, NEW a \in Targets, NEW v \in Byte, AssertByte(a, v), up'
  PROVE  Abs!AssertByte
<1>1. sect = NULL /\ sect' = NULL /\ up /\ cmd' = [op |-> "assert byte", adr |-> a, val |-> v]
  BY Zenon DEF AssertByte, Begin, Idle, Dies, load
<1>2. /\ Abs!Becomes(Abs!Empty) /\ up' = up
      /\ a \in DOMAIN Store => (ret' = OK <=> Store[a] = v /\ v < B \div 2)
  BY <1>1, AssertByteMoves, MovesBecomes, StoreIs DEF IInv, TypeOK
<1> QED BY <1>1, <1>2 DEF Abs!AssertByte, Abs!Holds, Abs!OK

LEMMA AssertWordMaps ==
  ASSUME IInv, IInv', Survival, EvenInv, NEW a \in Targets, NEW v \in Words,
         AssertWord(a, v), up'
  PROVE  Abs!AssertWord
<1>1. sect = NULL /\ sect' = NULL /\ up /\ cmd' = [op |-> "assert word", adr |-> a, val |-> v]
  BY Zenon DEF AssertWord, Begin, Idle, Dies, load
<1>2. /\ Abs!Becomes(Abs!Empty) /\ up' = up
      /\ a % 2 = 1 => ret' = ERR /\ Store' = Store
      /\ a % 2 = 0 /\ a \in DOMAIN Store /\ After(a) \in DOMAIN Store =>
           (ret' = OK <=> Store[a] = Lo(v) /\ Store[After(a)] = Hi(v))
  BY <1>1, AssertWordMoves, MovesBecomes, StoreIs, StoreIsNext DEF IInv, TypeOK
<1> QED BY <1>1, <1>2
        DEF Abs!AssertWord, Abs!Holds, Abs!OK, Abs!ERR, Lo, Hi, After, Abs!Lo, Abs!Hi, Abs!After

LEMMA StepMaps ==
  ASSUME IInv, IInv', Survival, EvenInv, [Next]_vars
  PROVE  [Abs!Next]_Abs!vars
<1>1. UNCHANGED mem => Store' = Store
  BY StoreIs, StoreIsNext
<1>2. ASSUME up, ~up' PROVE Abs!Next
  BY <1>2 DEF Abs!Next, Abs!Die, IInv, TypeOK
<1>3. CASE LoadRefused
  BY <1>1, <1>3 DEF LoadRefused, Begin, Idle, load, Abs!Next, Abs!Refuse, Abs!ERR
<1>4. CASE LoadAborts \/ HeapBreaks
  BY <1>2, <1>4 DEF LoadAborts, HeapBreaks, Begin, Idle
<1>5. CASE LoadBegin
  BY <1>5 DEF LoadBegin, Begin, Idle, Abs!Next, Abs!BeginLoad
<1>6. CASE LoadSection \/ LoadSkipped
  <2>1. up /\ sect \in 0..3 /\ sect' = sect + 1 /\ UNCHANGED <<cmd, ret, up>>
    BY <1>6 DEF LoadSection, LoadSkipped, Sections
  <2>2. sect # NULL /\ sect' # NULL
    BY <2>1
  <2> QED BY <2>1, <2>2 DEF Abs!Next, Abs!Install
<1>7. CASE LoadEnd
  <2>1. up /\ sect = 4 /\ sect # NULL /\ sect' = NULL /\ UNCHANGED cmd
    BY <1>7 DEF LoadEnd
  <2>2. CASE nseg = 0
    BY <1>2, <1>7, <2>1, <2>2 DEF LoadEnd
  <2>3. CASE nseg # 0
    <3>1. ret' = OK /\ up' = up
      BY <1>7, <2>3 DEF LoadEnd
    <3> QED BY <2>1, <3>1 DEF Abs!Next, Abs!Install, Abs!OK
  <2> QED BY <2>2, <2>3
<1>8. ASSUME NEW a \in Targets, NEW v \in Byte, SetByte(a, v) \/ AssertByte(a, v)
      PROVE  Abs!Next
  <2>1. up
    BY <1>8, Zenon DEF SetByte, AssertByte, Begin, Idle
  <2>2. up' => Abs!SetByte \/ Abs!AssertByte
    BY <1>8, SetByteMaps, AssertByteMaps
  <2> QED BY <1>2, <2>1, <2>2 DEF Abs!Next
<1>9. ASSUME NEW a \in Targets, NEW v \in Words, SetWord(a, v) \/ AssertWord(a, v)
      PROVE  Abs!Next
  <2>1. up
    BY <1>9, Zenon DEF SetWord, AssertWord, Begin, Idle
  <2>2. up' => Abs!SetWord \/ Abs!AssertWord
    BY <1>9, SetWordMaps, AssertWordMaps
  <2> QED BY <1>2, <2>1, <2>2 DEF Abs!Next
<1>10. CASE UNCHANGED vars
  BY <1>1, <1>10 DEF vars, Abs!vars
<1>11. CASE Over
  BY <1>10, <1>11 DEF Over
<1> QED BY <1>3, <1>4, <1>5, <1>6, <1>7, <1>8, <1>9, <1>10, <1>11 DEF Next

LEMMA InitEven == Init => Survival /\ EvenInv
BY DEF Init, Survival, FullLayoutSurvives, EvenInv, Even, Slot, Sections

(* For every width, layout, file and session the memory is a map from      *)
(* addresses to bytes: "set mem" changes the addressed bytes and no other, *)
(* growing (inc_segment) loses none, and "assert byte" and "assert word"   *)
(* answer from the bytes stored.                                           *)
THEOREM StoreImplemented == Spec => ImplementsByteStore
<1> DEFINE Known == Survival /\ EvenInv
<1>1. Init => Known
  BY InitEven
<1>2. IInv /\ IInv' /\ Known /\ [Next]_vars => Known'
  BY SurvivalKept, EvenKept
<1>3. IInv /\ IInv' /\ Known /\ [Next]_vars => [Abs!Next]_Abs!vars
  BY StepMaps
<1> HIDE DEF Known
<1> QED BY <1>1, <1>2, <1>3, AlwaysIInv, InitStore, PTL DEF Spec, ImplementsByteStore, Abs!Spec
=============================================================================
