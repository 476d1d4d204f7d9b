---------------------------- MODULE MemoryProofs ----------------------------
(***************************************************************************)
(* The layout of the emulated memory, for every width, page size, file and *)
(* command: the variables keep their types, the loaded segments never      *)
(* overlap, and they fill the first slots.                                 *)
(***************************************************************************)
EXTENDS Memory, FiniteSetTheorems, TLAPS

USE WidthAssumption, LayoutAssumption, InputAssumption, NullAssumption
    DEF OK, ERR, PLACESTHEAP

(* The rounded size of a section covers the section and one page, and      *)
(* exceeds the section by one page at most.                                *)
LEMMA SpanBounds ==
  ASSUME NEW n \in Nat
  PROVE  /\ Span(n) \in Nat
         /\ n <= Span(n) /\ Page <= Span(n) /\ Span(n) <= n + Page
<1> DEFINE q == (n + Page) \div Page
<1>1. q \in Nat /\ Page * q <= n + Page /\ n + Page < Page * q + Page
  OBVIOUS
<1>2. q >= 1
  <2>1. CASE q = 0
    BY <1>1, <2>1
  <2> QED BY <1>1, <2>1
<1>3. Page * q >= Page
  BY <1>1, <1>2
<1> QED BY <1>1, <1>2, <1>3 DEF Span

LEMMA LargerBounds ==
  ASSUME NEW m \in Nat, NEW n \in Nat
  PROVE  /\ LargerOf(m, n) \in Nat /\ m <= LargerOf(m, n) /\ n <= LargerOf(m, n)
         /\ LargerOf(m, n) \in {m, n}
BY DEF LargerOf

-----------------------------------------------------------------------------
(* What an access may do to a segment that ends below the stack: it gains  *)
(* bytes inside its window.                                                *)

Below(s) == s \in Segment /\ (~Ghost(s) => s.max >= 1 /\ Beyond(s) <= StackBase)

Extends(s, t) ==
  /\ t \in Segment /\ t.base = s.base /\ t.max = s.max
  /\ Ghost(t) <=> Ghost(s)
  /\ ~Ghost(s) => Len(s.contenu) <= Len(t.contenu) /\ Beyond(t) = Beyond(s)

LEMMA ExtendsTrans ==
  ASSUME NEW s, NEW t, NEW u, Extends(s, t), Extends(t, u), s \in Segment
  PROVE  Extends(s, u)
<1>1. ~Ghost(s) => s.contenu \in Seq(Byte) /\ t.contenu \in Seq(Byte) /\ u.contenu \in Seq(Byte)
  BY DEF Extends, Segment, Ghost
<1>2. ~Ghost(s) => Len(s.contenu) \in Nat /\ Len(t.contenu) \in Nat /\ Len(u.contenu) \in Nat
  BY <1>1
<1> QED BY <1>2 DEF Extends

LEMMA ExtendsBelow ==
  ASSUME NEW s, NEW t, Below(s), Extends(s, t)
  PROVE  Below(t)
BY DEF Below, Extends

LEMMA GrownExtends ==
  ASSUME NEW s, Below(s), NEW a \in Adr
  PROVE  Extends(s, Grown(s, a))
<1> DEFINE g == Grown(s, a)
<1>1. CASE Hit(s, a) /\ ~Ghost(s) /\ a > s.base + Len(s.contenu)
  <2> DEFINE n == Len(s.contenu)
             c == [k \in 1..(a - s.base) |-> IF k <= n THEN s.contenu[k] ELSE 0]
  <2>1. s.base \in Nat /\ s.max \in Nat /\ s.contenu \in Seq(Byte) /\ a \in Nat
    BY <1>1 DEF Below, Segment, Ghost, Adr
  <2>2. n \in Nat /\ s.base + n < a
    BY <1>1, <2>1
  <2>3. LargerOf(s.max, n) \in Nat /\ s.max <= LargerOf(s.max, n)
    BY <2>1, <2>2, LargerBounds
  <2>4. s.base + s.max <= StackBase
    <3>1. s.base + LargerOf(s.max, n) <= StackBase
      BY <1>1 DEF Below, Beyond
    <3> QED BY <2>1, <2>3, <3>1
  <2>5. a - s.base \in Nat /\ n < a - s.base /\ a - s.base <= s.max - 1
    <3>1. s.max >= 1
      BY <1>1 DEF Below
    <3>2. s.base + s.max - 1 \in 0..(W - 1)
      BY <2>1, <2>4, <3>1
    <3>3. (s.base + s.max - 1) % W = s.base + s.max - 1
      BY <3>2
    <3> QED BY <1>1, <2>1, <2>2, <3>1, <3>3 DEF Hit
  <2>6. c \in Seq(Byte) /\ Len(c) = a - s.base
    <3>1. \A k \in 1..n : s.contenu[k] \in Byte
      BY <2>1
    <3>2. 0 \in Byte
      BY DEF Byte
    <3>3. c \in [1..(a - s.base) -> Byte]
      BY <2>2, <2>5, <3>1, <3>2
    <3> QED BY <2>5, <3>3
  <2>7. g = [s EXCEPT !.contenu = c]
    BY <1>1, Zenon DEF Grown
  <2> HIDE DEF c, g
  <2>8. g \in Segment /\ g.base = s.base /\ g.max = s.max /\ g.contenu = c
    BY <2>1, <2>6, <2>7 DEF Segment, Below
  <2>9. c # NULL
    BY <2>6
  <2>10. LargerOf(s.max, Len(c)) = s.max /\ LargerOf(s.max, n) = s.max
    BY <2>1, <2>2, <2>5, <2>6 DEF LargerOf
  <2> QED BY <1>1, <2>5, <2>6, <2>8, <2>9, <2>10 DEF Extends, Ghost, Beyond, g
<1>2. CASE ~(Hit(s, a) /\ ~Ghost(s) /\ a > s.base + Len(s.contenu))
  <2>1. g = s
    BY <1>2 DEF Grown
  <2>2. ~Ghost(s) => s.contenu \in Seq(Byte)
    BY DEF Below, Segment, Ghost
  <2>3. ~Ghost(s) => Len(s.contenu) \in Nat
    BY <2>2
  <2> QED BY <2>1, <2>3 DEF Extends, Below
<1> QED BY <1>1, <1>2

LEMMA PutExtends ==
  ASSUME NEW s, Below(s), NEW a \in Adr, NEW v \in Byte
  PROVE  Extends(s, Put(s, a, v))
<1> DEFINE g == Grown(s, a)
           t == [g EXCEPT !.contenu[a - g.base + 1] = v]
<1>1. Extends(s, g) /\ Below(g)
  BY GrownExtends, ExtendsBelow
<1>2. CASE InBounds(g, a)
  <2>1. g.base \in Nat /\ g.max \in Nat /\ g.contenu \in Seq(Byte) /\ a \in Nat
    BY <1>1, <1>2 DEF Below, Segment, InBounds, Ghost, Adr
  <2> DEFINE k == a - g.base + 1
             c == [g.contenu EXCEPT ![k] = v]
  <2>2. k \in 1..Len(g.contenu)
    BY <1>2, <2>1 DEF InBounds, Hit
  <2>3. c \in Seq(Byte) /\ Len(c) = Len(g.contenu)
    BY <2>1, <2>2
  <2>4. t = [g EXCEPT !.contenu = c]
    BY <1>1, <2>1 DEF Below, Segment
  <2>5. t \in Segment /\ t.base = g.base /\ t.max = g.max /\ t.contenu = c
    BY <1>1, <2>3, <2>4 DEF Below, Segment
  <2>6. ~Ghost(g) /\ ~Ghost(t)
    BY <1>2, <2>3, <2>5 DEF InBounds, Ghost
  <2>7. Len(g.contenu) \in Nat
    BY <2>1
  <2>8. Extends(g, t)
    BY <2>3, <2>5, <2>6, <2>7 DEF Extends, Beyond
  <2>9. s \in Segment
    BY DEF Below
  <2>10. Extends(s, t)
    BY <1>1, <2>8, <2>9, ExtendsTrans
  <2> QED BY <1>2, <2>10 DEF Put
<1>3. CASE ~InBounds(g, a)
  BY <1>1, <1>3 DEF Put
<1> QED BY <1>2, <1>3

LEMMA AfterType ==
  ASSUME NEW a \in Adr
  PROVE  After(a) \in Adr
<1>1. a \in Nat /\ W \in Nat /\ W > 0
  BY DEF Adr
<1> QED BY <1>1 DEF After, Adr

LEMMA HalvesType ==
  ASSUME NEW v \in Nat
  PROVE  Lo(v) \in Byte /\ Hi(v) \in Byte
<1>1. v \div B \in Nat
  OBVIOUS
<1> QED BY <1>1 DEF Lo, Hi, Byte

LEMMA PutWordExtends ==
  ASSUME NEW s, Below(s), NEW a \in Adr, NEW v \in Nat
  PROVE  Extends(s, PutWord(s, a, v))
<1> DEFINE t == Put(s, After(a), Hi(v))
<1>1. Extends(s, t)
  BY PutExtends, AfterType, HalvesType
<1>2. Below(t)
  BY <1>1, ExtendsBelow
<1> HIDE DEF t
<1>3. Extends(t, Put(t, a, Lo(v)))
  BY <1>2, PutExtends, HalvesType
<1>4. s \in Segment
  BY DEF Below
<1> QED BY <1>1, <1>3, <1>4, ExtendsTrans DEF PutWord, t

LEMMA GrownTwiceExtends ==
  ASSUME NEW s, Below(s), NEW a \in Adr
  PROVE  Extends(s, GrownTwice(s, a))
<1> DEFINE t == Grown(s, a)
<1>1. Extends(s, t)
  BY GrownExtends
<1>2. Below(t)
  BY <1>1, ExtendsBelow
<1> HIDE DEF t
<1>3. Extends(t, Grown(t, After(a)))
  BY <1>2, GrownExtends, AfterType
<1>4. s \in Segment
  BY DEF Below
<1> QED BY <1>1, <1>3, <1>4, ExtendsTrans DEF GrownTwice, t

-----------------------------------------------------------------------------
(* The inductive invariant: while a file is being loaded, everything lies  *)
(* below next_segment_start, which leaves room for the sections to come.   *)

LoadingInv ==
  /\ sect \in Nat /\ nseg <= sect
  /\ mem[PLACESTHEAP] = NULL
  /\ start <= START_MEM + nseg * (MaxSize + Page)
  /\ \A i \in Sections : Loaded(i) =>
       /\ i < nseg
       /\ mem[i].base <= start /\ Beyond(mem[i]) <= start
       /\ Len(mem[i].contenu) <= MaxSize

LayoutInv ==
  /\ \A i \in Sections : mem[i] # NULL => Below(mem[i])
  /\ mem[PLACESTHEAP] # NULL =>
       mem[PLACESTHEAP].base = StackBase /\ ~Ghost(mem[PLACESTHEAP])
  /\ sect # NULL => LoadingInv

IInv == TypeOK /\ SegmentsApart /\ FilledFirst /\ LayoutInv

(* No command changes where a segment is, how far it may go, or whether it *)
(* has content.                                                            *)
LEMMA AccessKeepsLayout ==
  ASSUME IInv, sect = NULL, sect' = NULL, DOMAIN mem' = Slot, mem' = [i \in Slot |-> mem'[i]],
         \A i \in Slot : \/ mem'[i] = mem[i]
                         \/ i \in Visited /\ mem[i] # NULL /\ Extends(mem[i], mem'[i])
  PROVE  /\ mem' \in [Slot -> Segment \union {NULL}]
         /\ SegmentsApart' /\ FilledFirst' /\ LayoutInv'
<1> USE DEF Slot, Sections, Visited
<1>1. \A i \in Slot : \/ mem'[i] = mem[i]
                      \/ /\ i \in Sections /\ mem[i] # NULL /\ mem'[i] # NULL
                         /\ Extends(mem[i], mem'[i]) /\ Below(mem'[i])
  <2> SUFFICES ASSUME NEW i \in Slot, i \in Visited, mem[i] # NULL, Extends(mem[i], mem'[i])
               PROVE  mem'[i] # NULL /\ Below(mem'[i])
    OBVIOUS
  <2>1. Below(mem[i])
    BY DEF IInv, LayoutInv
  <2> QED BY <2>1, ExtendsBelow DEF Extends
<1>2. \A i \in Slot : (mem'[i] = NULL <=> mem[i] = NULL) /\ (Loaded(i)' <=> Loaded(i))
  BY <1>1 DEF Loaded, Extends
<1>3. \A i \in Slot : mem[i] # NULL => mem'[i].base = mem[i].base
  BY <1>1 DEF Extends
<1>4. \A i \in Slot : Loaded(i) => Beyond(mem'[i]) = Beyond(mem[i])
  BY <1>1 DEF Extends, Loaded
<1>5. mem' \in [Slot -> Segment \union {NULL}]
  BY <1>1 DEF IInv, TypeOK, Extends
<1>6. SegmentsApart'
  BY <1>2, <1>3, <1>4 DEF IInv, SegmentsApart, Loaded
<1>7. FilledFirst'
  BY <1>2 DEF IInv, FilledFirst
<1>8. LayoutInv'
  BY <1>1 DEF IInv, LayoutInv
<1> QED BY <1>5, <1>6, <1>7, <1>8

(* A command that leaves the memory alone keeps the layout.                *)
LEMMA SameMemory ==
  ASSUME IInv, UNCHANGED <<mem, sect, nseg, start>>
  PROVE  SegmentsApart' /\ FilledFirst' /\ LayoutInv'
<1>1. UNCHANGED mem /\ UNCHANGED sect /\ UNCHANGED nseg /\ UNCHANGED start
  OBVIOUS
<1> QED
  BY <1>1 DEF IInv, SegmentsApart, FilledFirst, LayoutInv, LoadingInv, Loaded

-----------------------------------------------------------------------------
(* The four commands                                                       *)

LEMMA CountBound ==
  ASSUME NEW m \in 0..MaxCmds, NEW n, m < MaxCmds, n = m + 1
  PROVE  n \in 0..MaxCmds
OBVIOUS

LEMMA BeginType ==
  ASSUME TypeOK, NEW a \in Adr, NEW v \in Nat,
         NEW op \in {"none", "load", "set byte", "set word", "assert byte", "assert word"},
         Begin(op, a, v)
  PROVE  up /\ sect = NULL /\ count' \in 0..MaxCmds /\ cmd' \in Command
<1>1. count < MaxCmds /\ count' = count + 1
  BY Zenon DEF Begin, Idle
<1>2. count \in 0..MaxCmds
  BY Zenon DEF TypeOK
<1>3. count' \in 0..MaxCmds
  BY <1>1, <1>2, CountBound
<1>4. cmd' \in Command
  BY DEF Begin, Command
<1>5. up /\ sect = NULL
  BY Zenon DEF Begin, Idle
<1> QED BY <1>3, <1>4, <1>5, Zenon

LEMMA SetByteStep ==
  ASSUME IInv, NEW a \in Targets, NEW v \in Byte, SetByte(a, v)
  PROVE  IInv'
<1> USE DEF Slot, Visited, Sections
<1>1. a \in Adr /\ v \in Nat /\ sect = NULL /\ count' \in 0..MaxCmds /\ cmd' \in Command
  <2>1. a \in Adr /\ v \in Nat
    BY DEF Byte
  <2>2. Begin("set byte", a, v)
    BY DEF SetByte
  <2> QED BY <2>1, <2>2, BeginType DEF IInv
<1>2. CASE Dies
  <2>1. SegmentsApart' /\ FilledFirst' /\ LayoutInv'
    BY <1>2, SameMemory DEF Dies, load
  <2> QED BY <1>1, <1>2, <2>1 DEF Dies, load, IInv, TypeOK
<1>3. CASE /\ ~ \E i \in Visited : mem[i] = NULL \/ Wild(mem[i], a)
           /\ mem' = [i \in Slot |-> IF i \in Visited THEN Put(mem[i], a, v) ELSE mem[i]]
           /\ ub' = (ub \/ \E i \in Visited : PastEnd(mem[i], a))
           /\ ret' = OK
           /\ UNCHANGED <<mapped, load, up>>
  <2>1. \A i \in Visited : mem[i] # NULL /\ Extends(mem[i], mem'[i])
    BY <1>1, <1>3, PutExtends DEF IInv, LayoutInv
  <2>2. \A i \in Slot : mem'[i] = mem[i] \/ i \in Visited
    BY <1>3
  <2>3. sect' = NULL
    BY <1>1, <1>3 DEF load
  <2>4. DOMAIN mem' = Slot /\ mem' = [i \in Slot |-> mem'[i]]
    BY <1>3
  <2>5. mem' \in [Slot -> Segment \union {NULL}] /\ SegmentsApart' /\ FilledFirst' /\ LayoutInv'
    BY <1>1, <2>1, <2>2, <2>3, <2>4, AccessKeepsLayout
  <2>6. ub' \in BOOLEAN
    BY <1>3
  <2> QED BY <1>1, <1>3, <2>5, <2>6 DEF load, IInv, TypeOK
<1> QED BY <1>2, <1>3 DEF SetByte

LEMMA SetWordStep ==
  ASSUME IInv, NEW a \in Targets, NEW v \in Words, SetWord(a, v)
  PROVE  IInv'
<1> USE DEF Slot, Visited, Sections
<1>1. a \in Adr /\ v \in Nat /\ sect = NULL /\ count' \in 0..MaxCmds /\ cmd' \in Command
  <2>1. a \in Adr /\ v \in Nat
    BY InputAssumption
  <2>2. Begin("set word", a, v)
    BY DEF SetWord
  <2> QED BY <2>1, <2>2, BeginType DEF IInv
<1>2. CASE Dies
  <2>1. SegmentsApart' /\ FilledFirst' /\ LayoutInv'
    BY <1>2, SameMemory DEF Dies, load
  <2> QED BY <1>1, <1>2, <2>1 DEF Dies, load, IInv, TypeOK
<1>3. CASE /\ \A i \in Visited : mem[i] # NULL
           /\ mem' = [i \in Slot |-> IF i \in Visited THEN PutWord(mem[i], a, v) ELSE mem[i]]
           /\ ub' \in BOOLEAN
           /\ ret' = OK
           /\ UNCHANGED <<mapped, load, up>>
  <2>1. \A i \in Visited : mem[i] # NULL /\ Extends(mem[i], mem'[i])
    BY <1>1, <1>3, PutWordExtends DEF IInv, LayoutInv
  <2>2. \A i \in Slot : mem'[i] = mem[i] \/ i \in Visited
    BY <1>3
  <2>3. sect' = NULL
    BY <1>1, <1>3 DEF load
  <2>4. DOMAIN mem' = Slot /\ mem' = [i \in Slot |-> mem'[i]]
    BY <1>3
  <2>5. mem' \in [Slot -> Segment \union {NULL}] /\ SegmentsApart' /\ FilledFirst' /\ LayoutInv'
    BY <1>1, <2>1, <2>2, <2>3, <2>4, AccessKeepsLayout
  <2> QED BY <1>1, <1>3, <2>5 DEF load, IInv, TypeOK
<1>4. (\E i \in Visited : mem[i] = NULL) => Dies
  BY DEF SetWord
<1> QED BY <1>2, <1>3, <1>4 DEF SetWord

LEMMA AssertByteStep ==
  ASSUME IInv, NEW a \in Targets, NEW v \in Byte, AssertByte(a, v)
  PROVE  IInv'
<1> USE DEF Slot, Visited, Sections
<1>1. a \in Adr /\ v \in Nat /\ sect = NULL /\ count' \in 0..MaxCmds /\ cmd' \in Command
  <2>1. a \in Adr /\ v \in Nat
    BY DEF Byte
  <2>2. Begin("assert byte", a, v)
    BY DEF AssertByte
  <2> QED BY <2>1, <2>2, BeginType DEF IInv
<1> DEFINE stops == {i \in Visited : mem[i] = NULL \/ Wild(mem[i], a) \/ Gives(mem[i], a)}
           i == CHOOSE k \in stops : \A m \in stops : k <= m
<1>2. CASE Dies
  <2>1. SegmentsApart' /\ FilledFirst' /\ LayoutInv'
    BY <1>2, SameMemory DEF Dies, load
  <2> QED BY <1>1, <1>2, <2>1 DEF Dies, load, IInv, TypeOK
<1>3. CASE ret' = ERR /\ UNCHANGED <<mapped, mem, load, up, ub>>
  <2>1. SegmentsApart' /\ FilledFirst' /\ LayoutInv'
    BY <1>3, SameMemory DEF load
  <2> QED BY <1>1, <1>3, <2>1 DEF load, IInv, TypeOK
<1>4. CASE /\ stops # {} /\ mem[i] # NULL
           /\ mem' = [mem EXCEPT ![i] = Grown(@, a)]
           /\ \E b \in Read(mem'[i], a) : Answer(SameByte(b, v))
           /\ ub' = (ub \/ PastEnd(mem[i], a))
           /\ UNCHANGED <<mapped, load, up>>
  <2>1. i \in stops
    <3>1. \E k \in stops : \A m \in stops : k <= m
      BY <1>4
    <3> QED BY <3>1
  <2>2. i \in Visited
    BY <2>1
  <2> HIDE DEF i
  <2>3. Extends(mem[i], Grown(mem[i], a))
    BY <1>1, <1>4, <2>2, GrownExtends DEF IInv, LayoutInv
  <2>4. mem' = [mem EXCEPT ![i] = Grown(mem[i], a)] /\ DOMAIN mem = Slot
    BY <1>4 DEF IInv, TypeOK
  <2>5. \A j \in Slot : mem'[j] = mem[j] \/ (j \in Visited /\ mem[j] # NULL /\ Extends(mem[j], mem'[j]))
    BY <1>4, <2>2, <2>3, <2>4
  <2>6. DOMAIN mem' = Slot /\ mem' = [j \in Slot |-> mem'[j]]
    BY <2>4
  <2>7. sect' = NULL
    BY <1>1, <1>4 DEF load
  <2>8. mem' \in [Slot -> Segment \union {NULL}] /\ SegmentsApart' /\ FilledFirst' /\ LayoutInv'
    BY <1>1, <2>5, <2>6, <2>7, AccessKeepsLayout
  <2>9. ret' \in {OK, ERR}
    BY <1>4 DEF Answer
  <2>10. ub' \in BOOLEAN
    BY <1>4
  <2> QED BY <1>1, <1>4, <2>8, <2>9, <2>10 DEF load, IInv, TypeOK
<1>5. CASE ~mapped \/ stops = {}
  BY <1>3, <1>5 DEF AssertByte
<1>6. CASE ~(~mapped \/ stops = {}) /\ (mem[i] = NULL \/ Ghost(mem[i]))
  BY <1>2, <1>6 DEF AssertByte
<1>7. CASE ~(~mapped \/ stops = {}) /\ ~(mem[i] = NULL \/ Ghost(mem[i]))
  BY <1>4, <1>7 DEF AssertByte
<1> QED BY <1>5, <1>6, <1>7

LEMMA AssertWordStep ==
  ASSUME IInv, NEW a \in Targets, NEW v \in Words, AssertWord(a, v)
  PROVE  IInv'
<1> USE DEF Slot, Visited, Sections
<1>1. a \in Adr /\ v \in Nat /\ sect = NULL /\ count' \in 0..MaxCmds /\ cmd' \in Command
  <2>1. a \in Adr /\ v \in Nat
    BY InputAssumption
  <2>2. Begin("assert word", a, v)
    BY DEF AssertWord
  <2> QED BY <2>1, <2>2, BeginType DEF IInv
<1> DEFINE stops == {i \in Visited : \/ mem[i] = NULL
                                     \/ Fault(mem[i], a) \/ Fault(mem[i], After(a))
                                     \/ Gives(mem[i], a) /\ Gives(mem[i], After(a))}
           last == IF stops = {} THEN 2 ELSE CHOOSE k \in stops : \A m \in stops : k <= m
           s == mem[last]
<1>2. CASE Dies
  <2>1. SegmentsApart' /\ FilledFirst' /\ LayoutInv'
    BY <1>2, SameMemory DEF Dies, load
  <2> QED BY <1>1, <1>2, <2>1 DEF Dies, load, IInv, TypeOK
<1>3. CASE ret' = ERR /\ UNCHANGED <<mapped, mem, load, up, ub>>
  <2>1. SegmentsApart' /\ FilledFirst' /\ LayoutInv'
    BY <1>3, SameMemory DEF load
  <2> QED BY <1>1, <1>3, <2>1 DEF load, IInv, TypeOK
<1>4. CASE /\ ~(stops # {} /\ (s = NULL \/ Ghost(s)))
           /\ mem' = [i \in Slot |-> IF i <= last THEN GrownTwice(mem[i], a) ELSE mem[i]]
           /\ IF stops = {}
              THEN ret' = ERR /\ ub' = ub
              ELSE /\ \E lo \in ReadFirst(s, a), hi \in Read(mem'[last], After(a)) :
                        Answer(lo = Lo(v) /\ hi = Hi(v))
                   /\ ub' = (ub \/ PastEnd(s, a) \/ PastEnd(Grown(s, a), After(a)))
           /\ UNCHANGED <<mapped, load, up>>
  <2>1. last \in Visited /\ \A m \in stops : last <= m
    <3>1. CASE stops # {}
      <4>1. \E k \in stops : \A m \in stops : k <= m
        BY <3>1
      <4> QED BY <3>1, <4>1
    <3> QED BY <3>1
  <2>2. \A i \in Visited : i <= last => mem[i] # NULL
    <3> SUFFICES ASSUME NEW i \in Visited, i <= last, mem[i] = NULL PROVE FALSE
      OBVIOUS
    <3> HIDE DEF last
    <3>1. i \in stops
      OBVIOUS
    <3>2. i = last
      BY <2>1, <3>1
    <3> QED BY <1>4, <3>1, <3>2
  <2>3. \A i \in Visited : i <= last => Extends(mem[i], GrownTwice(mem[i], a))
    BY <1>1, <2>2, GrownTwiceExtends DEF IInv, LayoutInv
  <2>4. ret' \in {OK, ERR} /\ ub' \in BOOLEAN
    <3> HIDE DEF last, stops
    <3>1. CASE stops = {}
      BY <1>4, <3>1 DEF IInv, TypeOK
    <3>2. CASE stops # {}
      BY <1>4, <3>2 DEF Answer
    <3> QED BY <3>1, <3>2
  <2> HIDE DEF stops, last
  <2>5. \A i \in Slot : \/ mem'[i] = mem[i]
                        \/ i \in Visited /\ mem[i] # NULL /\ Extends(mem[i], mem'[i])
    BY <1>4, <2>1, <2>2, <2>3
  <2>6. DOMAIN mem' = Slot /\ mem' = [j \in Slot |-> mem'[j]]
    BY <1>4
  <2>7. sect' = NULL
    BY <1>1, <1>4 DEF load
  <2>8. mem' \in [Slot -> Segment \union {NULL}] /\ SegmentsApart' /\ FilledFirst' /\ LayoutInv'
    BY <1>1, <2>5, <2>6, <2>7, AccessKeepsLayout
  <2> QED BY <1>1, <1>4, <2>4, <2>8 DEF load, IInv, TypeOK
<1>5. CASE ~mapped \/ a % 2 = 1
  BY <1>3, <1>5 DEF AssertWord
<1>6. CASE ~(~mapped \/ a % 2 = 1) /\ stops # {} /\ (s = NULL \/ Ghost(s))
  BY <1>2, <1>6 DEF AssertWord
<1>7. CASE ~(~mapped \/ a % 2 = 1) /\ ~(stops # {} /\ (s = NULL \/ Ghost(s)))
  BY <1>4, <1>7 DEF AssertWord
<1> QED BY <1>5, <1>6, <1>7

-----------------------------------------------------------------------------
(* Loading a file                                                          *)

LEMMA ZeroType == 0 \in Adr /\ 0 \in Nat /\ Page \in Adr /\ LastMax \in Adr /\ START_MEM \in Adr
<1>1. LargerOf(LastMax, MaxSize) \in Nat /\ LastMax <= LargerOf(LastMax, MaxSize)
  BY LargerBounds
<1> QED BY <1>1 DEF Adr

LEMMA MaxSizeFits == MaxSize < W
<1>1. LargerOf(LastMax, MaxSize) \in Nat /\ MaxSize <= LargerOf(LastMax, MaxSize)
  BY LargerBounds
<1> QED BY <1>1

LEMMA LoadBeginStep ==
  ASSUME IInv, LoadBegin
  PROVE  IInv'
<1> USE DEF Slot, Sections
<1>1. count' \in 0..MaxCmds /\ cmd' \in Command
  <2>1. Begin("load", 0, 0)
    BY DEF LoadBegin
  <2> QED BY <2>1, ZeroType, BeginType DEF IInv
<1>2. mem' = [i \in Slot |-> NULL]
  BY DEF LoadBegin
<1>3. sect' = 0 /\ nseg' = 0 /\ start' = START_MEM /\ taille' \in Adr
  BY DEF LoadBegin
<1>4. SegmentsApart'
  BY <1>2 DEF SegmentsApart, Loaded
<1>5. FilledFirst'
  BY <1>2, <1>3 DEF FilledFirst, Loaded
<1>6. LayoutInv'
  BY <1>2, <1>3, ZeroType DEF LayoutInv, LoadingInv, Loaded, Adr
<1> QED BY <1>1, <1>2, <1>3, <1>4, <1>5, <1>6, ZeroType DEF LoadBegin, IInv, TypeOK

(* A slot that is given a segment without content after the loaded ones.   *)
LEMMA LoadSkippedStep ==
  ASSUME IInv, LoadSkipped
  PROVE  IInv'
<1> USE DEF Slot, Sections
<1>1. PICK n \in {taille} \union {Len(c) : c \in Contents} :
        /\ mem' = [mem EXCEPT ![nseg] = [base |-> start, max |-> n, contenu |-> NULL]]
        /\ taille' = n
  BY DEF LoadSkipped
<1> DEFINE s == [base |-> start, max |-> n, contenu |-> NULL]
<1>2. sect \in 0..3 /\ sect' = sect + 1 /\ UNCHANGED <<mapped, nseg, start, cmd, ret, up, ub, count>>
  BY DEF LoadSkipped
<1>3. sect # NULL /\ LoadingInv /\ nseg \in 0..3
  BY <1>2 DEF IInv, LayoutInv, LoadingInv, TypeOK
<1>4. n \in Adr
  <2>1. \A c \in Contents : Len(c) \in Nat /\ Len(c) <= MaxSize
    OBVIOUS
  <2>2. MaxSize < W
    BY MaxSizeFits
  <2> QED BY <1>1, <2>1, <2>2 DEF IInv, TypeOK, Adr
<1>5. s \in Segment /\ Ghost(s) /\ s # NULL
  BY <1>4 DEF Segment, Ghost, IInv, TypeOK
<1>6. mem' = [mem EXCEPT ![nseg] = s] /\ mem \in [Slot -> Segment \union {NULL}]
  BY <1>1 DEF IInv, TypeOK
<1> HIDE DEF s
<1>7. mem' \in [Slot -> Segment \union {NULL}]
  BY <1>3, <1>5, <1>6
<1>8. /\ mem'[nseg] = s
      /\ \A i \in Slot : i # nseg => mem'[i] = mem[i]
  BY <1>3, <1>6
<1>9. \A i \in Sections : Loaded(i) <=> i < nseg
  BY <1>3 DEF IInv, FilledFirst
<1>10. \A i \in Slot : Loaded(i)' <=> Loaded(i)
  <2>1. \A i \in Slot : i = nseg => ~Loaded(i) /\ ~Loaded(i)'
    BY <1>3, <1>5, <1>8, <1>9 DEF Loaded
  <2> QED BY <1>8, <2>1 DEF Loaded
<1>11. \A i \in Slot : Loaded(i)' => mem'[i] = mem[i]
  <2>1. \A i \in Slot : i = nseg => ~Loaded(i)'
    BY <1>3, <1>5, <1>8 DEF Loaded
  <2> QED BY <1>8, <2>1
<1>12. SegmentsApart'
  BY <1>10, <1>11 DEF IInv, SegmentsApart
<1>13. FilledFirst'
  <2>1. \A i \in Sections : i > nseg => mem'[i] = NULL
    BY <1>3, <1>8 DEF IInv, FilledFirst
  <2>2. \A i \in Sections : Loaded(i)' <=> i < nseg
    BY <1>9, <1>10
  <2>3. nseg' = nseg /\ nseg <= sect' /\ nseg \in 0..4
    BY <1>2, <1>3 DEF LoadingInv
  <2> QED BY <2>1, <2>2, <2>3 DEF FilledFirst
<1>14. LayoutInv'
  <2>1. \A i \in Sections : mem'[i] # NULL => Below(mem'[i])
    BY <1>5, <1>8 DEF Below, IInv, LayoutInv
  <2>2. mem'[PLACESTHEAP] = NULL
    BY <1>3, <1>8 DEF LoadingInv
  <2>3. LoadingInv'
    BY <1>2, <1>3, <1>10, <1>11, <2>2 DEF LoadingInv
  <2> QED BY <2>1, <2>2, <2>3 DEF LayoutInv
<1>15. sect' \in Sections \union {4, NULL} /\ taille' \in Adr
  BY <1>1, <1>2, <1>4
<1> QED BY <1>2, <1>7, <1>12, <1>13, <1>14, <1>15 DEF IInv, TypeOK

(* The section goes to the slot nsegments, after everything loaded so far. *)
LEMMA LoadSectionStep ==
  ASSUME IInv, LoadSection
  PROVE  IInv'
<1> USE DEF Slot, Sections
<1>1. PICK c \in Contents :
        /\ mem' = [mem EXCEPT ![nseg] = [base |-> start, max |-> Page, contenu |-> c]]
        /\ start' = start + Span(Len(c))
        /\ taille' = Len(c)
  BY DEF LoadSection
<1> DEFINE s == [base |-> start, max |-> Page, contenu |-> c]
<1>2. sect \in 0..3 /\ sect' = sect + 1 /\ nseg' = nseg + 1 /\ UNCHANGED <<mapped, cmd, ret, up, ub, count>>
  BY DEF LoadSection
<1>3. sect # NULL /\ LoadingInv /\ nseg \in 0..3
  BY <1>2 DEF IInv, LayoutInv, LoadingInv, TypeOK
<1>4. c \in Seq(Byte) /\ Len(c) \in Nat /\ Len(c) <= MaxSize
  OBVIOUS
<1>5. /\ Span(Len(c)) \in Nat /\ Len(c) <= Span(Len(c)) /\ Page <= Span(Len(c))
      /\ Span(Len(c)) <= MaxSize + Page
  BY <1>4, SpanBounds
<1>6. start \in Nat /\ start' \in Nat /\ start <= start'
  BY <1>1, <1>5 DEF IInv, TypeOK, Adr
<1>7. start' <= START_MEM + (nseg + 1) * (MaxSize + Page)
  <2> DEFINE room == MaxSize + Page
  <2>1. room \in Nat /\ start <= START_MEM + nseg * room
    BY <1>3 DEF LoadingInv
  <2>2. (nseg + 1) * room = nseg * room + room /\ nseg * room \in Nat
    BY <1>3, <2>1
  <2>3. start' <= start + room
    BY <1>1, <1>5, <1>6
  <2> HIDE DEF room
  <2>4. start' <= START_MEM + (nseg + 1) * room
    BY <1>6, <2>1, <2>2, <2>3
  <2> QED BY <2>4 DEF room
<1>8. start' <= StackBase /\ start' < W
  <2>1. (nseg + 1) * (MaxSize + Page) <= 4 * (MaxSize + Page)
    <3>1. CASE nseg = 0 BY <3>1
    <3>2. CASE nseg = 1 BY <3>2
    <3>3. CASE nseg = 2 BY <3>3
    <3>4. CASE nseg = 3 BY <3>4
    <3> QED BY <1>3, <3>1, <3>2, <3>3, <3>4
  <2>2. LargerOf(LastMax, MaxSize) \in Nat
    BY LargerBounds
  <2>3. (nseg + 1) * (MaxSize + Page) \in Nat
    BY <1>3
  <2> QED BY <1>6, <1>7, <2>1, <2>2, <2>3
<1>9. s \in Segment /\ ~Ghost(s) /\ s # NULL
  BY <1>4, ZeroType DEF Segment, Ghost, IInv, TypeOK
<1>10. s.base = start /\ s.contenu = c /\ s.max = Page /\ Beyond(s) \in Nat
       /\ start <= Beyond(s) /\ Beyond(s) <= start'
  <2>1. Beyond(s) = start + LargerOf(Page, Len(c))
    BY DEF Beyond
  <2>2. LargerOf(Page, Len(c)) \in Nat /\ LargerOf(Page, Len(c)) <= Span(Len(c))
    BY <1>4, <1>5 DEF LargerOf
  <2> QED BY <1>1, <1>5, <1>6, <2>1, <2>2
<1>11. Below(s)
  BY <1>6, <1>8, <1>9, <1>10 DEF Below
<1>12. mem' = [mem EXCEPT ![nseg] = s] /\ mem \in [Slot -> Segment \union {NULL}]
  BY <1>1 DEF IInv, TypeOK
<1> HIDE DEF s
<1>13. mem' \in [Slot -> Segment \union {NULL}]
  BY <1>3, <1>9, <1>12
<1>14. /\ mem'[nseg] = s
       /\ \A i \in Slot : i # nseg => mem'[i] = mem[i]
  BY <1>3, <1>12
<1>15. \A i \in Sections : Loaded(i) <=> i < nseg
  BY <1>3 DEF IInv, FilledFirst
<1>16. \A i \in Sections : Loaded(i)' <=> i < nseg + 1
  BY <1>3, <1>9, <1>14, <1>15 DEF Loaded
<1>17. ~Loaded(PLACESTHEAP)' /\ mem'[PLACESTHEAP] = NULL
  BY <1>3, <1>14 DEF LoadingInv, Loaded
<1>18. \A i \in Sections : i < nseg => Loaded(i) /\ mem'[i] = mem[i] /\ Beyond(mem[i]) <= start
  BY <1>3, <1>14, <1>15 DEF LoadingInv
<1>19. SegmentsApart'
  <2> SUFFICES ASSUME NEW i \in Slot, NEW j \in Slot, i < j, Loaded(i)', Loaded(j)'
               PROVE  Beyond(mem'[i]) <= mem'[j].base
    BY DEF SegmentsApart
  <2>1. i < nseg /\ j <= nseg
    BY <1>3, <1>16, <1>17
  <2>2. CASE j = nseg
    BY <1>3, <1>10, <1>14, <1>18, <2>1, <2>2
  <2>3. CASE j < nseg
    BY <1>3, <1>18, <2>1, <2>3 DEF IInv, SegmentsApart
  <2> QED BY <1>3, <2>1, <2>2, <2>3
<1>20. FilledFirst'
  <2>1. \A i \in Sections : i > nseg + 1 => mem'[i] = NULL
    BY <1>3, <1>14 DEF IInv, FilledFirst
  <2>2. nseg' = nseg + 1 /\ nseg' <= sect' /\ nseg' \in 0..4
    BY <1>2, <1>3 DEF LoadingInv
  <2> QED BY <1>16, <2>1, <2>2 DEF FilledFirst
<1>21. LayoutInv'
  <2>1. \A i \in Sections : mem'[i] # NULL => Below(mem'[i])
    BY <1>11, <1>14 DEF IInv, LayoutInv
  <2>2. \A i \in Sections : Loaded(i)' =>
           /\ i < nseg' /\ mem'[i].base <= start' /\ Beyond(mem'[i]) <= start'
           /\ Len(mem'[i].contenu) <= MaxSize
    <3> SUFFICES ASSUME NEW i \in Sections, Loaded(i)'
                 PROVE  /\ i < nseg' /\ mem'[i].base <= start' /\ Beyond(mem'[i]) <= start'
                        /\ Len(mem'[i].contenu) <= MaxSize
      OBVIOUS
    <3>1. CASE i = nseg
      BY <1>2, <1>3, <1>4, <1>6, <1>10, <1>14, <3>1
    <3>2. CASE i < nseg
      <4>1. mem'[i] = mem[i] /\ Loaded(i)
        BY <1>18, <3>2
      <4>2. mem[i] \in Segment /\ mem[i].contenu \in Seq(Byte)
        BY <1>12, <4>1 DEF Loaded, Ghost, Segment
      <4>3. mem[i].base \in Nat /\ mem[i].max \in Nat /\ Len(mem[i].contenu) \in Nat
        BY <4>2 DEF Segment, Adr
      <4>4. Beyond(mem[i]) \in Nat
        <5>1. LargerOf(mem[i].max, Len(mem[i].contenu)) \in Nat
          BY <4>3, LargerBounds
        <5> QED BY <4>3, <5>1 DEF Beyond
      <4>5. /\ mem[i].base <= start /\ Beyond(mem[i]) <= start
            /\ Len(mem[i].contenu) <= MaxSize
        BY <1>3, <4>1 DEF LoadingInv
      <4> QED BY <1>2, <1>3, <1>6, <3>2, <4>1, <4>3, <4>4, <4>5
    <3> QED BY <1>3, <1>16, <3>1, <3>2
  <2>3. sect' \in Nat /\ nseg' <= sect'
    BY <1>2, <1>3 DEF LoadingInv
  <2>4. LoadingInv'
    BY <1>2, <1>7, <1>17, <2>2, <2>3 DEF LoadingInv
  <2> QED BY <1>17, <2>1, <2>4 DEF LayoutInv
<1>22. /\ sect' \in Sections \union {4, NULL} /\ nseg' \in Slot
       /\ taille' \in Adr /\ start' \in Adr
  <2>1. MaxSize < W
    BY MaxSizeFits
  <2> QED BY <1>1, <1>2, <1>3, <1>4, <1>6, <1>8, <2>1 DEF Adr
<1> QED BY <1>2, <1>13, <1>19, <1>20, <1>21, <1>22 DEF IInv, TypeOK

LEMMA LastFits ==
  ASSUME NEW b \in Nat, b <= START_MEM + 4 * (MaxSize + Page),
         NEW m \in Nat, m <= MaxSize
  PROVE  b + LargerOf(LastMax, m) <= StackBase
<1>1. LargerOf(LastMax, m) \in Nat /\ LargerOf(LastMax, MaxSize) \in Nat
      /\ LargerOf(LastMax, m) <= LargerOf(LastMax, MaxSize)
  BY DEF LargerOf
<1> QED BY <1>1

LEMMA StackType == Stack \in Segment /\ Stack # NULL /\ ~Ghost(Stack) /\ Stack.base = StackBase
<1>1. StackBase \in Adr /\ StackMax \in Adr
  BY DEF Adr
<1>2. <<>> \in Seq(Byte)
  OBVIOUS
<1>3. Stack \in Segment /\ Stack.contenu = <<>>
  BY <1>1, <1>2 DEF Stack, Segment
<1>4. Stack # NULL /\ <<>> # NULL
  BY <1>2, <1>3
<1> QED BY <1>3, <1>4 DEF Stack, Ghost

(* The stack segment, and the larger window of the last section, which     *)
(* LayoutAssumption keeps below the stack.                                 *)
LEMMA LoadEndStep ==
  ASSUME IInv, LoadEnd
  PROVE  IInv'
<1> USE DEF Slot, Sections
<1>1. sect = 4 /\ sect' = NULL /\ nseg' = 0 /\ start' = 0 /\ taille' = 0
      /\ UNCHANGED <<mapped, cmd, ub, count>>
  BY DEF LoadEnd
<1>2. LoadingInv /\ nseg \in 0..4
  BY <1>1 DEF IInv, LayoutInv, TypeOK
<1>3. \A i \in Sections : Loaded(i) <=> i < nseg
  BY <1>1 DEF IInv, FilledFirst
<1>4. CASE nseg = 0 /\ up' = FALSE /\ UNCHANGED <<mem, ret>>
  <2>1. UNCHANGED mem
    BY <1>4
  <2>2. SegmentsApart' /\ LayoutInv'
    BY <1>1, <2>1 DEF IInv, SegmentsApart, LayoutInv, Loaded
  <2>3. FilledFirst'
    BY <1>1, <2>1 DEF IInv, FilledFirst, Loaded
  <2> QED BY <1>1, <1>4, <2>2, <2>3, ZeroType DEF IInv, TypeOK
<1>5. CASE nseg # 0 /\ mem' = [mem EXCEPT ![PLACESTHEAP] = Stack, ![nseg - 1].max = LastMax]
           /\ ret' = OK /\ up' = up
  <2> DEFINE k == nseg - 1
             t == [mem[k] EXCEPT !.max = LastMax]
  <2>1. k \in Sections /\ Loaded(k)
    <3>1. k \in 0..3 /\ k < nseg
      BY <1>2, <1>5
    <3> QED BY <1>3, <3>1
  <2>2. mem \in [Slot -> Segment \union {NULL}]
    BY DEF IInv, TypeOK
  <2>3. mem[k] \in Segment /\ mem[k].contenu \in Seq(Byte)
    BY <2>1, <2>2 DEF Loaded, Ghost, Segment
  <2>4. /\ t \in Segment /\ t # NULL /\ ~Ghost(t)
        /\ t.base = mem[k].base /\ t.max = LastMax /\ t.contenu = mem[k].contenu
    BY <2>1, <2>3, ZeroType DEF Segment, Ghost, Loaded
  <2>5. mem[k].base \in Nat /\ mem[k].base <= start /\ start \in Nat
        /\ Len(mem[k].contenu) \in Nat /\ Len(mem[k].contenu) <= MaxSize
    BY <1>2, <2>1, <2>3 DEF LoadingInv, IInv, TypeOK, Segment, Adr
  <2>6. start <= START_MEM + 4 * (MaxSize + Page)
    <3>1. nseg * (MaxSize + Page) <= 4 * (MaxSize + Page)
      <4>1. CASE nseg = 1 BY <4>1
      <4>2. CASE nseg = 2 BY <4>2
      <4>3. CASE nseg = 3 BY <4>3
      <4>4. CASE nseg = 4 BY <4>4
      <4> QED BY <1>2, <1>5, <4>1, <4>2, <4>3, <4>4
    <3>2. nseg * (MaxSize + Page) \in Nat
      BY <1>2
    <3>3. start <= START_MEM + nseg * (MaxSize + Page)
      BY <1>2 DEF LoadingInv
    <3> QED BY <2>5, <3>1, <3>2, <3>3
  <2>7. Beyond(t) <= StackBase
    <3>1. Beyond(t) = mem[k].base + LargerOf(LastMax, Len(mem[k].contenu))
      BY <2>4 DEF Beyond
    <3>2. mem[k].base <= START_MEM + 4 * (MaxSize + Page)
      BY <2>5, <2>6
    <3> QED BY <2>5, <3>1, <3>2, LastFits
  <2>8. Below(t)
    BY <2>4, <2>7 DEF Below
  <2> HIDE DEF t
  <2>9. Stack \in Segment /\ Stack # NULL /\ ~Ghost(Stack) /\ Stack.base = StackBase
    BY StackType
  <2>10. /\ mem' \in [Slot -> Segment \union {NULL}]
         /\ mem'[PLACESTHEAP] = Stack /\ mem'[k] = t
         /\ \A i \in Sections : i # k => mem'[i] = mem[i]
    <3>1. mem' = [i \in Slot |-> IF i = PLACESTHEAP THEN Stack ELSE IF i = k THEN t ELSE mem[i]]
      <4> DEFINE m == [mem EXCEPT ![PLACESTHEAP] = Stack]
      <4>1. mem' = [m EXCEPT ![k] = [m[k] EXCEPT !.max = LastMax]]
        BY <1>5
      <4>2. m = [i \in Slot |-> IF i = PLACESTHEAP THEN Stack ELSE mem[i]]
        BY <2>2
      <4>3. m[k] = mem[k]
        BY <2>1, <4>2
      <4> HIDE DEF m
      <4>4. mem' = [m EXCEPT ![k] = t]
        BY <4>1, <4>3 DEF t
      <4>5. k \in Slot /\ k # PLACESTHEAP
        BY <2>1
      <4> HIDE DEF k
      <4> QED BY <4>2, <4>4, <4>5
    <3> QED BY <2>1, <2>2, <2>4, <2>9, <3>1
  <2>11. \A i \in Sections : Loaded(i)' <=> Loaded(i)
    BY <2>1, <2>4, <2>10 DEF Loaded
  <2>12. \A i \in Sections : mem'[i] # NULL => Below(mem'[i])
    BY <2>8, <2>10 DEF IInv, LayoutInv
  <2>13. SegmentsApart'
    <3> SUFFICES ASSUME NEW i \in Slot, NEW j \in Slot, i < j, Loaded(i)', Loaded(j)'
                 PROVE  Beyond(mem'[i]) <= mem'[j].base
      BY DEF SegmentsApart
    <3>1. CASE j = PLACESTHEAP
      BY <2>9, <2>10, <2>12, <3>1 DEF Loaded, Below
    <3>2. CASE j # PLACESTHEAP
      <4>1. i \in Sections /\ j \in Sections /\ Loaded(i) /\ Loaded(j)
        BY <2>11, <3>2
      <4>2. i # k /\ j <= k
        BY <1>2, <1>3, <4>1
      <4>3. mem'[i] = mem[i] /\ mem'[j].base = mem[j].base
        BY <2>4, <2>10, <4>1, <4>2
      <4> QED BY <4>1, <4>3 DEF IInv, SegmentsApart
    <3> QED BY <3>1, <3>2
  <2>14. FilledFirst'
    <3>1. \A i \in Sections : i > nseg => mem'[i] = NULL
      BY <1>1, <1>2, <2>10 DEF IInv, FilledFirst
    <3> QED BY <1>1, <1>2, <1>3, <2>11, <3>1 DEF FilledFirst
  <2>15. LayoutInv'
    BY <1>1, <2>9, <2>10, <2>12 DEF LayoutInv
  <2> QED BY <1>1, <1>5, <2>10, <2>13, <2>14, <2>15, ZeroType DEF IInv, TypeOK
<1> QED BY <1>4, <1>5 DEF LoadEnd

-----------------------------------------------------------------------------
LEMMA InitInv == Init => IInv
<1> SUFFICES ASSUME Init PROVE IInv
  OBVIOUS
<1> USE DEF Init, Slot, Sections
<1>1. TypeOK
  <2>1. cmd \in Command
    BY ZeroType DEF Command
  <2>2. mem \in [Slot -> Segment \union {NULL}]
    OBVIOUS
  <2>3. mapped \in BOOLEAN /\ up \in BOOLEAN /\ ub \in BOOLEAN
    OBVIOUS
  <2>4. sect \in Sections \union {4, NULL} /\ nseg \in Slot /\ start \in Adr /\ taille \in Adr
        /\ ret \in {OK, ERR} /\ count \in 0..MaxCmds
    BY ZeroType
  <2> QED BY <2>1, <2>2, <2>3, <2>4 DEF TypeOK
<1>2. SegmentsApart /\ LayoutInv
  BY DEF SegmentsApart, LayoutInv, Loaded
<1>3. FilledFirst
  BY DEF FilledFirst, Loaded
<1> QED BY <1>1, <1>2, <1>3 DEF IInv

LEMMA Inductive == IInv /\ [Next]_vars => IInv'
<1> SUFFICES ASSUME IInv, [Next]_vars PROVE IInv'
  OBVIOUS
<1>1. CASE LoadRefused \/ LoadAborts
  <2>1. Begin("load", 0, 0) /\ UNCHANGED <<mapped, mem, load, ub>>
    BY <1>1 DEF LoadRefused, LoadAborts
  <2>2. count' \in 0..MaxCmds /\ cmd' \in Command
    BY <2>1, ZeroType, BeginType DEF IInv
  <2>3. SegmentsApart' /\ FilledFirst' /\ LayoutInv'
    BY <2>1, SameMemory DEF load
  <2>4. ret' \in {OK, ERR} /\ up' \in BOOLEAN
    BY <1>1 DEF LoadRefused, LoadAborts, IInv, TypeOK
  <2> QED BY <2>1, <2>2, <2>3, <2>4 DEF load, IInv, TypeOK
<1>2. CASE LoadBegin
  BY <1>2, LoadBeginStep
<1>3. CASE LoadSection
  BY <1>3, LoadSectionStep
<1>4. CASE LoadSkipped
  BY <1>4, LoadSkippedStep
<1>5. CASE LoadEnd
  BY <1>5, LoadEndStep
<1>6. ASSUME NEW a \in Targets, NEW v \in Byte, SetByte(a, v) \/ AssertByte(a, v)
      PROVE  IInv'
  BY <1>6, SetByteStep, AssertByteStep
<1>7. ASSUME NEW a \in Targets, NEW v \in Words, SetWord(a, v) \/ AssertWord(a, v)
      PROVE  IInv'
  BY <1>7, SetWordStep, AssertWordStep
<1>8. CASE HeapBreaks
  <2>1. up' = FALSE /\ UNCHANGED <<mapped, mem, load, cmd, ret, ub, count>>
    BY <1>8 DEF HeapBreaks
  <2>2. SegmentsApart' /\ FilledFirst' /\ LayoutInv'
    BY <2>1, SameMemory DEF load
  <2> QED BY <2>1, <2>2 DEF load, IInv, TypeOK
<1>9. CASE UNCHANGED vars
  <2>1. SegmentsApart' /\ FilledFirst' /\ LayoutInv'
    BY <1>9, SameMemory DEF vars
  <2> QED BY <1>9, <2>1 DEF vars, IInv, TypeOK
<1>10. CASE Over
  BY <1>9, <1>10 DEF Over
<1> QED BY <1>1, <1>2, <1>3, <1>4, <1>5, <1>6, <1>7, <1>8, <1>9, <1>10 DEF Next

LEMMA AlwaysIInv == Spec => []IInv
BY InitInv, Inductive, PTL DEF Spec

(* Every variable keeps its type, for every width, layout and session.     *)
THEOREM TypeCorrect == Spec => []TypeOK
<1>1. IInv => TypeOK
  BY DEF IInv
<1> QED BY <1>1, AlwaysIInv, PTL

(* However many sections are found, whatever their sizes, and however much *)
(* the accesses of get_byte_seg make them grow, no two segments overlap.   *)
THEOREM SegmentsNeverMeet == Spec => []SegmentsApart
<1>1. IInv => SegmentsApart
  BY DEF IInv
<1> QED BY <1>1, AlwaysIInv, PTL

(* The loaded sections are in the first slots, and what _loadcmd leaves in *)
(* the slot after them has no content.                                     *)
THEOREM FirstSlotsFilled == Spec => []FilledFirst
<1>1. IInv => FilledFirst
  BY DEF IInv
<1> QED BY <1>1, AlwaysIInv, PTL
-----------------------------------------------------------------------------
(* The range printed is in the range typed, and a range that begins at or  *)
(* before the segment shows its bytes at their addresses.                  *)
LEMMA DisplayBounds ==
  ASSUME NEW b \in Nat, NEW l \in Nat, NEW dep \in Nat, NEW arr \in Nat,
         NEW s, s.base = b, ~Ghost(s), Len(s.contenu) = l,
         NEW p, p = Display(s, dep, arr)
  PROVE  /\ p.at \in Nat /\ p.size \in Int
         /\ p.size > 0 => dep <= p.at /\ p.at + p.size - 1 <= arr
         /\ dep <= b => \A a \in dep..arr : b <= a /\ a < b + l
              => p.at = b /\ a <= p.at + p.size - 1
<1> DEFINE d == LargerOf(b, dep)
<1>1. d \in Nat /\ dep <= d /\ b <= d /\ (dep <= b => d = b) /\ (d <= b => d = b)
  BY DEF LargerOf
<1>2. Taille(s) = l /\ FirstShown(s, dep) = d
  BY DEF Taille, FirstShown
<1>3. \A x, n : Printed(x, n).at = x /\ Printed(x, n).size = n
  BY DEF Printed
<1> HIDE DEF d
<1>4. p = IF d > arr THEN Nothing
          ELSE IF ~(arr - d > l) THEN Printed(d, arr + 1 - d)
          ELSE IF d <= b THEN Printed(b, l)
          ELSE IF d > l THEN Nothing
          ELSE Printed(d, l + 1 - d)
  BY <1>2, Zenon DEF Display
<1>5. Nothing.at = 0 /\ Nothing.size = 0
  BY <1>3 DEF Nothing
<1>6. CASE d > arr
  <2>1. p = Nothing
    BY <1>4, <1>6
  <2> QED BY <1>1, <1>5, <1>6, <2>1
<1>7. CASE ~(d > arr) /\ ~(arr - d > l)
  <2>1. p.at = d /\ p.size = arr + 1 - d
    BY <1>3, <1>4, <1>7
  <2> QED BY <1>1, <1>7, <2>1
<1>8. CASE ~(d > arr) /\ arr - d > l /\ d <= b
  <2>1. p.at = b /\ p.size = l
    BY <1>3, <1>4, <1>8
  <2> QED BY <1>1, <1>8, <2>1
<1>9. CASE ~(d > arr) /\ arr - d > l /\ ~(d <= b) /\ d > l
  <2>1. p = Nothing
    BY <1>4, <1>9
  <2> QED BY <1>1, <1>5, <1>9, <2>1
<1>10. CASE ~(d > arr) /\ arr - d > l /\ ~(d <= b) /\ ~(d > l)
  <2>1. p.at = d /\ p.size = l + 1 - d
    BY <1>3, <1>4, <1>10
  <2> QED BY <1>1, <1>10, <2>1
<1> QED BY <1>1, <1>6, <1>7, <1>8, <1>9, <1>10

LEMMA DisplayInv == TypeOK => DisplayFromStart
<1> SUFFICES ASSUME TypeOK, NEW i \in Slot, Loaded(i), NEW dep \in Targets, NEW arr \in Targets
             PROVE  LET s == mem[i]
                        p == Display(s, dep, arr) IN
                    /\ p.size > 0 => dep <= p.at /\ p.at + p.size - 1 <= arr
                    /\ dep <= s.base => \A a \in dep..arr :
                         InBounds(s, a) => Displayed(s, dep, arr, a) = {s.contenu[a - s.base + 1]}
  BY DEF DisplayFromStart
<1> DEFINE s == mem[i]
           p == Display(s, dep, arr)
           l == Len(s.contenu)
<1>1. s \in Segment /\ ~Ghost(s)
  BY DEF TypeOK, Loaded
<1>2. s.base \in Nat /\ l \in Nat
  <2>1. s.base \in Adr /\ s.contenu \in Seq(Byte)
    BY <1>1 DEF Segment, Ghost
  <2>2. l \in Nat
    BY <2>1
  <2> QED BY <2>1, <2>2, WidthAssumption DEF Adr
<1>3. dep \in Nat /\ arr \in Nat
  BY InputAssumption, WidthAssumption DEF Adr
<1> HIDE DEF s, l
<1>4. /\ p.at \in Nat /\ p.size \in Int
      /\ p.size > 0 => dep <= p.at /\ p.at + p.size - 1 <= arr
      /\ dep <= s.base => \A a \in dep..arr : s.base <= a /\ a < s.base + l
           => p.at = s.base /\ a <= p.at + p.size - 1
  BY <1>1, <1>2, <1>3, DisplayBounds DEF l
<1> HIDE DEF p
<1>5. ASSUME dep <= s.base, NEW a \in dep..arr, InBounds(s, a)
      PROVE  Displayed(s, dep, arr, a) = {s.contenu[a - s.base + 1]}
  <2>1. s.base <= a /\ a < s.base + l
    BY <1>5 DEF InBounds, Hit, l
  <2>2. p.at = s.base /\ a <= p.at + p.size - 1 /\ a \in Int
    BY <1>3, <1>4, <1>5, <2>1
  <2>3. a \in p.at..p.at + p.size - 1 /\ a - p.at < l
    BY <1>2, <1>4, <2>1, <2>2
  <2>4. p = Display(s, dep, arr)
    BY DEF p
  <2>5. Displayed(s, dep, arr, a) = {s.contenu[a - p.at + 1]}
    BY <1>1, <2>3, <2>4, Zenon DEF Displayed, l
  <2> QED BY <2>2, <2>5
<1> QED BY <1>4, <1>5 DEF s, p

(* "disp mem" shows what the memory holds, for all segments and ranges     *)
(* that begin at or before the segment (affiche_segment).                  *)
THEOREM DisplayCorrect == Spec => []DisplayFromStart
<1>1. IInv => TypeOK
  BY DEF IInv
<1> QED BY <1>1, DisplayInv, AlwaysIInv, PTL
-----------------------------------------------------------------------------
(* Which accesses may end the emulator.  A load in progress has a map, and *)
(* without a map there is no segment.                                      *)
Survival ==
  /\ sect # NULL => mapped /\ cmd.op = "load"
  /\ ~mapped => \A i \in Slot : mem[i] = NULL
  /\ FullLayoutSurvives

Full == Cardinality({i \in Sections : Loaded(i)}) >= 3

LEMMA FirstThree ==
  ASSUME FilledFirst, Full
  PROVE  \A i \in Visited : Loaded(i)
<1>1. PICK n \in 0..4 : \A i \in Sections : Loaded(i) <=> i < n
  BY DEF FilledFirst
<1>2. CASE n <= 2
  <2> DEFINE S == {i \in Sections : Loaded(i)}
  <2>1. S \subseteq 0..1
    BY <1>1, <1>2 DEF Sections
  <2>2. IsFiniteSet(0..1) /\ Cardinality(0..1) = 2
    <3>1. 0 \in Int /\ 1 \in Int /\ ~(0 > 1) /\ 1 - 0 + 1 = 2
      OBVIOUS
    <3>2. IsFiniteSet(0..1) /\ Cardinality(0..1) = 1 - 0 + 1
      BY <3>1, FS_Interval, Zenon
    <3> QED BY <3>1, <3>2
  <2>3. Cardinality(S) <= 2 /\ Cardinality(S) \in Nat
    BY <2>1, <2>2, FS_Subset, FS_CardinalityType
  <2> QED BY <2>3 DEF Full
<1>3. CASE n > 2
  BY <1>1, <1>3 DEF Visited, Sections
<1> QED BY <1>1, <1>2, <1>3

(* The only access of the four commands that ends it.                      *)
LEMMA Unharmed ==
  ASSUME FilledFirst, Survival, Full, NEW a, NEW v,
         \/ SetByte(a, v) \/ AssertByte(a, v) \/ SetWord(a, v) \/ AssertWord(a, v)
  PROVE  up' = up
<1> USE DEF Visited
<1>1. \A i \in Visited : mem[i] # NULL /\ ~Ghost(mem[i])
  BY FirstThree DEF Loaded
<1>2. mapped
  BY <1>1 DEF Survival, Slot
<1>3. ASSUME SetByte(a, v) PROVE up' = up
  BY <1>1, <1>2, <1>3 DEF SetByte, Wild
<1>4. ASSUME SetWord(a, v) PROVE up' = up
  BY <1>1, <1>2, <1>4 DEF SetWord, Wild
<1>5. ASSUME AssertByte(a, v) PROVE up' = up
  <2> DEFINE stops == {i \in Visited : mem[i] = NULL \/ Wild(mem[i], a) \/ Gives(mem[i], a)}
             i == CHOOSE k \in stops : \A m \in stops : k <= m
  <2>1. CASE stops = {}
    BY <1>5, <2>1 DEF AssertByte
  <2>2. CASE stops # {}
    <3>1. \E k \in stops : \A m \in stops : k <= m
      BY <2>2
    <3>2. i \in stops
      BY <3>1
    <3>3. ~(mem[i] = NULL \/ Ghost(mem[i]))
      BY <1>1, <3>2
    <3> QED BY <1>2, <1>5, <2>2, <3>3 DEF AssertByte
  <2> QED BY <2>1, <2>2
<1>6. ASSUME AssertWord(a, v) PROVE up' = up
  <2> DEFINE stops == {i \in Visited : \/ mem[i] = NULL
                                       \/ Fault(mem[i], a) \/ Fault(mem[i], After(a))
                                       \/ Gives(mem[i], a) /\ Gives(mem[i], After(a))}
             last == IF stops = {} THEN 2 ELSE CHOOSE k \in stops : \A m \in stops : k <= m
  <2>1. last \in Visited
    <3>1. CASE stops # {}
      <4>1. \E k \in stops : \A m \in stops : k <= m
        BY <3>1
      <4> QED BY <3>1, <4>1
    <3> QED BY <3>1
  <2>2. ~(mem[last] = NULL \/ Ghost(mem[last]))
    BY <1>1, <2>1
  <2> QED BY <1>6, <2>2 DEF AssertWord
<1> QED BY <1>3, <1>4, <1>5, <1>6

(* What the four commands leave as it was.                                 *)
LEMMA Accesses ==
  ASSUME IInv, IInv', Survival, NEW a, NEW v,
         \/ a \in Targets /\ v \in Byte /\ (SetByte(a, v) \/ AssertByte(a, v))
         \/ a \in Targets /\ v \in Words /\ (SetWord(a, v) \/ AssertWord(a, v))
  PROVE  Survival'
<1>1. sect = NULL /\ sect' = NULL /\ mapped' = mapped /\ up
  BY Zenon DEF SetByte, SetWord, AssertByte, AssertWord, Begin, Idle, Dies, load
<1>2. CASE ~up'
  <2>1. UNCHANGED mem /\ UNCHANGED ub
    BY <1>1, <1>2, Zenon DEF SetByte, SetWord, AssertByte, AssertWord, Dies
  <2>2. ~Full
    BY <1>1, <1>2, Unharmed DEF IInv
  <2>3. FullLayoutSurvives'
    BY <2>1, <2>2 DEF FullLayoutSurvives, Full, Loaded
  <2> QED BY <1>1, <2>1, <2>3 DEF Survival
<1>3. CASE up'
  <2>1. ~mapped => UNCHANGED mem
    BY Zenon DEF SetByte, SetWord, AssertByte, AssertWord, Dies
  <2> QED BY <1>1, <1>3, <2>1 DEF Survival, FullLayoutSurvives
<1> QED BY <1>2, <1>3

LEMMA SurvivalKept == IInv /\ IInv' /\ Survival /\ [Next]_vars => Survival'
<1> SUFFICES ASSUME IInv, IInv', Survival, [Next]_vars PROVE Survival'
  OBVIOUS
<1>1. CASE LoadRefused \/ LoadAborts
  <2>1. /\ sect = NULL /\ sect' = NULL /\ cmd'.op = "load"
        /\ UNCHANGED <<mapped, mem>>
    BY <1>1 DEF LoadRefused, LoadAborts, Begin, Idle, load
  <2> QED BY <2>1 DEF Survival, FullLayoutSurvives
<1>2. CASE LoadBegin
  BY <1>2 DEF LoadBegin, Begin, Survival, FullLayoutSurvives
<1>3. CASE LoadSection \/ LoadSkipped
  <2>1. /\ up /\ sect \in Sections /\ UNCHANGED <<mapped, cmd, up>>
    BY <1>3 DEF LoadSection, LoadSkipped
  <2>2. mapped /\ cmd.op = "load"
    BY <2>1, NullAssumption DEF Survival, Sections
  <2> QED BY <2>1, <2>2 DEF Survival, FullLayoutSurvives
<1>4. CASE LoadEnd
  <2>1. sect = 4 /\ sect' = NULL /\ UNCHANGED <<mapped, cmd>>
    BY <1>4 DEF LoadEnd
  <2>2. mapped /\ cmd.op = "load"
    BY <2>1, NullAssumption DEF Survival
  <2> QED BY <2>1, <2>2 DEF Survival, FullLayoutSurvives
<1>5. ASSUME NEW a \in Targets, NEW v \in Byte, SetByte(a, v) \/ AssertByte(a, v)
      PROVE  Survival'
  BY <1>5, Accesses
<1>6. ASSUME NEW a \in Targets, NEW v \in Words, SetWord(a, v) \/ AssertWord(a, v)
      PROVE  Survival'
  BY <1>6, Accesses
<1>7. CASE HeapBreaks
  BY <1>7 DEF HeapBreaks, Idle, load, Survival, FullLayoutSurvives
<1>8. CASE UNCHANGED vars
  BY <1>8 DEF vars, Survival, FullLayoutSurvives, Loaded
<1>9. CASE Over
  BY <1>8, <1>9 DEF Over
<1> QED BY <1>1, <1>2, <1>3, <1>4, <1>5, <1>6, <1>7, <1>8, <1>9 DEF Next

(* Once three sections are loaded, set and assert end the emulator at no   *)
(* address (the three slots that _set_mem_byte_cmd, _set_mem_word_cmd and  *)
(* _assert_cmd look at without a test), whatever was done before.          *)
THEOREM SurvivesCorrect == Spec => []FullLayoutSurvives
<1>1. Init => Survival
  BY DEF Init, Survival, FullLayoutSurvives
<1>2. Survival => FullLayoutSurvives
  BY DEF Survival
<1> QED BY <1>1, <1>2, SurvivalKept, AlwaysIInv, PTL DEF Spec
=============================================================================
