-------------------------- MODULE BreakListProofs ---------------------------
(***************************************************************************)
(* The breakpoint list for every number of cells, every set of addresses   *)
(* and every length of a batch: its invariants, and that it implements     *)
(* BreakSet.                                                               *)
(***************************************************************************)
EXTENDS BreakList, Induction, FiniteSetTheorems, TLAPS

USE NodeAssumption, AdrAssumption, ArgsAssumption DEF OK, ERR

(* A batch is a sequence of at least one address.                          *)
LEMMA BatchType ==
  ASSUME NEW s \in Batch
  PROVE  s \in Seq(Adr) /\ s # <<>>
<1>1. PICK k \in 1..MaxArgs : s \in [1..k -> Adr]
  BY DEF Batch
<1>2. k \in Nat /\ k >= 1
  BY <1>1
<1>3. s \in Seq(Adr) /\ Len(s) = k
  BY <1>1, <1>2
<1> QED BY <1>2, <1>3

(* Advancing in a batch keeps the pending addresses a sequence of          *)
(* addresses, empty exactly when the command returns.                      *)
LEMMA NextArgType ==
  ASSUME TypeOK, pc = "add", head' \in Node \union {NULL},
         NEW r \in {OK, ERR}, NextArg(r)
  PROVE  /\ pc' \in {"idle", "add"}
         /\ l' \in Node \union {NULL} /\ p' = NULL
         /\ todo' \in Seq(Adr) /\ (todo' # <<>> <=> pc' = "add")
         /\ ret' \in {OK, ERR}
         /\ l' = IF pc' = "idle" THEN NULL ELSE head'
<1>1. todo \in Seq(Adr) /\ todo # <<>>
  BY DEF TypeOK
<1>2. Tail(todo) \in Seq(Adr)
  BY <1>1
<1>3. CASE Return(r)
  BY <1>3 DEF Return
<1>4. CASE Tail(todo) # <<>> /\ todo' = Tail(todo) /\ l' = head' /\ p' = NULL
           /\ UNCHANGED <<pc, ret>>
  BY <1>2, <1>4 DEF TypeOK
<1> QED BY <1>3, <1>4 DEF NextArg

LEMMA TypeStep == TypeOK /\ CursorInv /\ ListInv /\ [Next]_vars => TypeOK'
<1> SUFFICES ASSUME TypeOK, CursorInv, ListInv, [Next]_vars PROVE TypeOK'
  OBVIOUS
<1> USE DEF TypeOK, heap
<1>1. CASE CallAdd
  BY <1>1, BatchType DEF CallAdd, Enter
<1>2. CASE CallDel
  <2> PICK a \in Adr : Enter("del", <<a>>)
    BY <1>2 DEF CallDel
  <2> QED BY DEF Enter
<1>3. CASE CallDelAll \/ CallList
  BY <1>3 DEF CallDelAll, CallList, Enter
<1>4. CASE BadLine
  BY <1>4 DEF BadLine, Return
<1>5. CASE AddWalk
  BY <1>5 DEF AddWalk, Smaller
<1>6. CASE AddFound
  BY <1>6, NextArgType DEF AddFound
<1>7. CASE AddInsert
  <2> PICK t \in Node \ live : live' = live \union {t} /\ LinkAfter(t)
    BY <1>7 DEF AddInsert
  <2>1. Head(todo) \in Adr
    BY <1>7 DEF AddInsert
  <2>2. /\ stop_adr' \in [Node -> Adr]
        /\ nxt' \in [Node -> Node \union {NULL}]
        /\ head' \in Node \union {NULL}
    BY <2>1 DEF LinkAfter
  <2> QED BY <1>7, <2>2, NextArgType DEF AddInsert
<1>8. CASE AddNoMemory
  BY <1>8, NextArgType DEF AddNoMemory
<1>9. CASE DelEmpty
  BY <1>9 DEF DelEmpty, Return
<1>10. CASE DelMissing
  BY <1>10 DEF DelMissing, Return
<1>11. CASE DelHead
  <2>1. l \in Node
    BY <1>11 DEF DelHead, CursorInv
  <2> QED BY <1>11, <2>1 DEF DelHead, Return
<1>12. CASE DelSearch
  BY <1>12 DEF DelSearch
<1>13. CASE DelWalk
  BY <1>13 DEF DelWalk, CursorInv
<1>14. CASE DelUnlink
  <2>1. l \in Node /\ nxt[l] \in Node
    BY <1>14 DEF DelUnlink, CursorInv
  <2> QED BY <1>14, <2>1 DEF DelUnlink, Return
<1>15. CASE ClearEmpty \/ ClearStart \/ FreeNode \/ FreeDone
  BY <1>15 DEF ClearEmpty, ClearStart, FreeNode, FreeDone, Return
<1>16. CASE ListWalk \/ ListDone
  BY <1>16 DEF ListWalk, ListDone, Return
<1>17. CASE UNCHANGED vars
  BY <1>17 DEF vars
<1> QED BY <1>1, <1>2, <1>3, <1>4, <1>5, <1>6, <1>7, <1>8,
           <1>9, <1>10, <1>11, <1>12, <1>13, <1>14, <1>15, <1>16, <1>17
        DEF Next, Running

-----------------------------------------------------------------------------
(* The shape of the list: which steps leave it alone, and which change it. *)

LEMMA SameList ==
  ASSUME ListInv, UNCHANGED heap, First' = First
  PROVE  ListInv'
BY DEF ListInv, NoDuplicate, HeadIsLeast, NextIsSuccessor, heap

(* Linking a new cell between p and l keeps the list sorted.               *)
LEMMA InsertList ==
  ASSUME TypeOK, ListInv, CursorInv, AddInsert
  PROVE  ListInv'
<1> DEFINE a == Head(todo)
<1>1. /\ pc = "add" /\ pc' # "free" /\ First = head /\ First' = head'
      /\ a \in Adr
  BY DEF AddInsert, NextArg, Return, First, TypeOK
<1>2. PICK t \in Node \ live : live' = live \union {t} /\ LinkAfter(t)
  BY DEF AddInsert
<1> HIDE DEF a
<1>3. /\ stop_adr' = [stop_adr EXCEPT ![t] = a]
      /\ stop_adr \in [Node -> Adr] /\ nxt \in [Node -> Node \union {NULL}]
      /\ live \subseteq Node
  BY <1>2 DEF LinkAfter, TypeOK, a
<1>4. /\ stop_adr'[t] = a
      /\ \A n \in live : n # t /\ stop_adr'[n] = stop_adr[n] /\ stop_adr[n] \in Nat
      /\ a \in Nat
  BY <1>1, <1>2, <1>3
<1>5. /\ l \in live \union {NULL}
      /\ p = NULL => l = head
      /\ p # NULL => p \in live /\ nxt[p] = l /\ stop_adr[p] < a
      /\ l # NULL => a < stop_adr[l]
  <2>1. ~Smaller /\ ~Found
    BY DEF AddInsert
  <2>2. l \in live \union {NULL}
    BY <1>1 DEF CursorInv
  <2>3. l # NULL => a < stop_adr[l]
    BY <2>1, <2>2, <1>4 DEF Smaller, Found, a
  <2> QED BY <2>2, <2>3, <1>1 DEF CursorInv, a
<1>6. \A n \in live : stop_adr[n] # a /\ (n # p => nxt'[n] = nxt[n])
  <2> SUFFICES ASSUME NEW n \in live PROVE stop_adr[n] # a /\ (n # p => nxt'[n] = nxt[n])
    OBVIOUS
  <2>1. stop_adr[n] # a
    <3>1. CASE p = NULL
      BY <3>1, <1>1, <1>4, <1>5 DEF ListInv, HeadIsLeast
    <3>2. CASE p # NULL
      BY <3>2, <1>4, <1>5 DEF ListInv, NextIsSuccessor
    <3> QED BY <3>1, <3>2
  <2>2. n # p => nxt'[n] = nxt[n]
    BY <1>2, <1>3 DEF LinkAfter
  <2> QED BY <2>1, <2>2
<1>7. /\ nxt'[t] = l
      /\ p # NULL => nxt'[p] = t /\ head' = head
      /\ p = NULL => head' = t
  BY <1>2, <1>3, <1>4, <1>5, NodeAssumption DEF LinkAfter
<1>8. NoDuplicate'
  BY <1>2, <1>4, <1>6 DEF ListInv, NoDuplicate
<1>9. HeadIsLeast'
  <2>1. CASE p = NULL
    BY <2>1, <1>1, <1>2, <1>4, <1>5, <1>7 DEF ListInv, HeadIsLeast
  <2>2. CASE p # NULL
    BY <2>2, <1>1, <1>2, <1>4, <1>5, <1>7 DEF ListInv, HeadIsLeast
  <2> QED BY <2>1, <2>2
<1>10. NextIsSuccessor'
  <2> SUFFICES ASSUME NEW n \in live \union {t}
               PROVE  IF nxt'[n] = NULL
                      THEN \A m \in live' : stop_adr'[m] <= stop_adr'[n]
                      ELSE /\ nxt'[n] \in live'
                           /\ stop_adr'[n] < stop_adr'[nxt'[n]]
                           /\ \A m \in live' : stop_adr'[m] <= stop_adr'[n]
                                \/ stop_adr'[nxt'[n]] <= stop_adr'[m]
    BY <1>2 DEF NextIsSuccessor
  <2>1. CASE n = t
    <3>1. CASE p = NULL
      BY <2>1, <3>1, <1>1, <1>2, <1>4, <1>5, <1>7 DEF ListInv, HeadIsLeast
    <3>2. CASE p # NULL
      BY <2>1, <3>2, <1>2, <1>4, <1>5, <1>7 DEF ListInv, NextIsSuccessor
    <3> QED BY <3>1, <3>2
  <2>2. CASE n = p /\ n # t
    <3>1. p # NULL /\ p \in live /\ nxt[p] = l /\ nxt'[p] = t
      BY <2>2, <1>2, <1>3, <1>5, <1>7
    <3>2. stop_adr'[n] < stop_adr'[t] /\ t \in live'
      BY <2>2, <3>1, <1>2, <1>4, <1>5
    <3>3. \A m \in live : stop_adr[m] <= stop_adr[n] \/ a <= stop_adr[m]
      BY <2>2, <3>1, <1>4, <1>5 DEF ListInv, NextIsSuccessor
    <3> QED BY <2>2, <3>1, <3>2, <3>3, <1>2, <1>3, <1>4
  <2>3. CASE n # p /\ n # t
    <3>1. nxt'[n] = nxt[n] /\ n \in live
      BY <2>3, <1>6
    <3>2. CASE p = NULL
      BY <2>3, <3>1, <3>2, <1>1, <1>2, <1>4, <1>5 DEF ListInv, NextIsSuccessor, HeadIsLeast
    <3>3. CASE p # NULL
      <4>1. p \in live /\ stop_adr[p] # stop_adr[n]
        BY <3>1, <3>3, <1>5, <2>3 DEF ListInv, NoDuplicate
      <4> QED BY <2>3, <3>1, <3>3, <4>1, <1>2, <1>4, <1>5 DEF ListInv, NextIsSuccessor
    <3> QED BY <3>2, <3>3
  <2> QED BY <2>1, <2>2, <2>3
<1> QED BY <1>8, <1>9, <1>10 DEF ListInv

(* Releasing the first node: "break del" on it, or one turn of             *)
(* free_break_list.  Its successor becomes the first one.                  *)
LEMMA DropFirst ==
  ASSUME TypeOK, ListInv, First # NULL,
         live' = live \ {First}, First' = nxt[First], UNCHANGED <<stop_adr, nxt>>
  PROVE  ListInv'
<1>1. First \in live /\ live \subseteq Node /\ stop_adr \in [Node -> Nat]
  BY DEF ListInv, HeadIsLeast, TypeOK
<1>2. NoDuplicate'
  BY DEF ListInv, NoDuplicate
<1>3. HeadIsLeast'
  <2>1. CASE nxt[First] = NULL
    BY <2>1, <1>1 DEF ListInv, HeadIsLeast, NextIsSuccessor, NoDuplicate
  <2>2. CASE nxt[First] # NULL
    <3>1. \A m \in live : m # First => stop_adr[m] > stop_adr[First]
      BY <1>1 DEF ListInv, HeadIsLeast, NoDuplicate
    <3>2. /\ nxt[First] \in live
          /\ stop_adr[First] < stop_adr[nxt[First]]
          /\ \A m \in live : stop_adr[m] <= stop_adr[First]
                               \/ stop_adr[nxt[First]] <= stop_adr[m]
      BY <2>2, <1>1 DEF ListInv, NextIsSuccessor
    <3>3. \A m \in live \ {First} : stop_adr[nxt[First]] <= stop_adr[m]
      BY <3>1, <3>2, <1>1
    <3>4. nxt[First] # First
      BY <3>2, <1>1
    <3> QED BY <2>2, <3>2, <3>3, <3>4 DEF HeadIsLeast
  <2> QED BY <2>1, <2>2
<1>4. NextIsSuccessor'
  <2>1. \A n \in live : nxt[n] # First
    BY <1>1 DEF ListInv, HeadIsLeast, NextIsSuccessor
  <2> QED BY <2>1 DEF ListInv, NextIsSuccessor
<1> QED BY <1>2, <1>3, <1>4 DEF ListInv

(* Unlinking the successor of l.                                           *)
LEMMA UnlinkNext ==
  ASSUME TypeOK, ListInv, NEW c \in live, nxt[c] # NULL,
         live' = live \ {nxt[c]}, nxt' = [nxt EXCEPT ![c] = nxt[nxt[c]]],
         UNCHANGED stop_adr, First' = First
  PROVE  ListInv'
<1> DEFINE d == nxt[c]
<1>1. /\ c \in Node /\ d \in live /\ live \subseteq Node
      /\ stop_adr \in [Node -> Nat] /\ nxt \in [Node -> Node \union {NULL}]
      /\ stop_adr[c] < stop_adr[d]
      /\ \A m \in live : stop_adr[m] <= stop_adr[c] \/ stop_adr[d] <= stop_adr[m]
  BY DEF TypeOK, ListInv, NextIsSuccessor
<1>2. /\ c # d /\ nxt'[c] = nxt[d] /\ d # nxt[d]
      /\ \A n \in live : n # c => nxt'[n] = nxt[n]
  <2>1. c # d
    BY <1>1
  <2>2. d # nxt[d]
    BY <1>1, NodeAssumption DEF ListInv, NextIsSuccessor
  <2> QED BY <2>1, <2>2, <1>1
<1>3. NoDuplicate'
  BY DEF ListInv, NoDuplicate
<1>4. HeadIsLeast'
  BY <1>1 DEF ListInv, HeadIsLeast
<1>5. NextIsSuccessor'
  <2> SUFFICES ASSUME NEW n \in live \ {d}
               PROVE  IF nxt'[n] = NULL
                      THEN \A m \in live' : stop_adr[m] <= stop_adr[n]
                      ELSE /\ nxt'[n] \in live'
                           /\ stop_adr[n] < stop_adr[nxt'[n]]
                           /\ \A m \in live' : stop_adr[m] <= stop_adr[n]
                                \/ stop_adr[nxt'[n]] <= stop_adr[m]
    BY DEF NextIsSuccessor
  <2>1. CASE n = c
    <3>1. \A m \in live' : stop_adr[m] <= stop_adr[c] \/ stop_adr[d] < stop_adr[m]
      BY <1>1 DEF ListInv, NoDuplicate
    <3>2. CASE nxt[d] = NULL
      BY <2>1, <3>1, <3>2, <1>1, <1>2 DEF ListInv, NextIsSuccessor
    <3>3. CASE nxt[d] # NULL
      <4>1. /\ nxt[d] \in live
            /\ stop_adr[d] < stop_adr[nxt[d]]
            /\ \A m \in live : stop_adr[m] <= stop_adr[d]
                                 \/ stop_adr[nxt[d]] <= stop_adr[m]
        BY <3>3, <1>1 DEF ListInv, NextIsSuccessor
      <4> QED BY <2>1, <3>1, <3>3, <4>1, <1>1, <1>2
    <3> QED BY <3>2, <3>3
  <2>2. CASE n # c
    <3>1. nxt'[n] = nxt[n] /\ nxt[n] # d
      BY <2>2, <1>1, <1>2 DEF ListInv, NextIsSuccessor, NoDuplicate
    <3> QED BY <2>2, <3>1 DEF ListInv, NextIsSuccessor
  <2> QED BY <2>1, <2>2
<1> QED BY <1>3, <1>4, <1>5 DEF ListInv

LEMMA ListStep == TypeOK /\ ListInv /\ CursorInv /\ [Next]_vars => ListInv'
<1> SUFFICES ASSUME TypeOK, ListInv, CursorInv, [Next]_vars PROVE ListInv'
  OBVIOUS
<1>1. CASE CallAdd \/ CallDel \/ CallDelAll \/ CallList
  <2>1. UNCHANGED <<head, heap>> /\ pc = "idle" /\ pc' \in {"add", "del", "delall", "list"}
    BY <1>1 DEF CallAdd, CallDel, CallDelAll, CallList, Enter
  <2> QED BY <2>1, SameList DEF First
<1>2. CASE BadLine \/ DelEmpty \/ DelMissing \/ ClearEmpty \/ ListDone
  <2>1. UNCHANGED <<head, heap>> /\ pc # "free" /\ pc' = "idle"
    BY <1>2 DEF BadLine, DelEmpty, DelMissing, ClearEmpty, ListDone, Return
  <2> QED BY <2>1, SameList DEF First
<1>3. CASE AddWalk \/ DelSearch \/ DelWalk \/ ListWalk
  <2>1. UNCHANGED <<head, heap>> /\ pc # "free" /\ pc' # "free"
    BY <1>3 DEF AddWalk, DelSearch, DelWalk, ListWalk
  <2> QED BY <2>1, SameList DEF First
<1>4. CASE AddFound \/ AddNoMemory
  <2>1. UNCHANGED <<head, heap>> /\ pc = "add" /\ pc' \in {"add", "idle"}
    BY <1>4 DEF AddFound, AddNoMemory, NextArg, Return
  <2> QED BY <2>1, SameList DEF First
<1>5. CASE AddInsert
  BY <1>5, InsertList
<1>6. CASE DelHead
  BY <1>6, DropFirst DEF DelHead, CursorInv, First, Return
<1>7. CASE DelUnlink
  BY <1>7, UnlinkNext DEF DelUnlink, CursorInv, First, Return
<1>8. CASE ClearStart
  BY <1>8, SameList DEF ClearStart, CursorInv, First
<1>9. CASE FreeNode
  BY <1>9, DropFirst DEF FreeNode, First
<1>10. CASE FreeDone
  BY <1>10, SameList DEF FreeDone, First, Return
<1>11. CASE UNCHANGED vars
  BY <1>11, SameList DEF vars, First, heap
<1> QED BY <1>1, <1>2, <1>3, <1>4, <1>5, <1>6, <1>7, <1>8, <1>9, <1>10, <1>11
        DEF Next, Running

-----------------------------------------------------------------------------
(* The cursors. Those of a command that has just been entered or has just  *)
(* returned start from inter->breaklist or are unused.                     *)

LEMMA FreshCursor ==
  ASSUME ListInv', pc' # "free", pc' # "search", l' = head', p' = NULL
  PROVE  CursorInv'
BY DEF CursorInv, ListInv, HeadIsLeast, First

LEMMA IdleCursor == pc' = "idle" => CursorInv'
BY DEF CursorInv

LEMMA CursorStep ==
  ASSUME TypeOK, ListInv, CursorInv, [Next]_vars, TypeOK', ListInv'
  PROVE  CursorInv'
<1>1. CASE CallAdd \/ CallDel \/ CallDelAll \/ CallList
  BY <1>1, FreshCursor DEF CallAdd, CallDel, CallDelAll, CallList, Enter
<1>2. CASE BadLine \/ DelEmpty \/ DelHead \/ DelMissing \/ DelUnlink
           \/ ClearEmpty \/ FreeDone \/ ListDone
  BY <1>2, IdleCursor DEF BadLine, DelEmpty, DelHead, DelMissing, DelUnlink,
                          ClearEmpty, FreeDone, ListDone, Return
<1>3. CASE AddFound \/ AddInsert \/ AddNoMemory
  <2>1. pc = "add" /\ \E r \in {OK, ERR} : NextArg(r)
    BY <1>3 DEF AddFound, AddInsert, AddNoMemory
  <2>2. pc' = "idle" \/ (pc' = "add" /\ l' = head' /\ p' = NULL)
    BY <2>1 DEF NextArg, Return
  <2> QED BY <2>2, IdleCursor, FreshCursor
<1>4. CASE AddWalk
  <2>1. /\ pc = "add" /\ pc' = "add" /\ l \in live /\ stop_adr[l] < Head(todo)
        /\ p' = l /\ l' = nxt[l] /\ UNCHANGED <<head, live, stop_adr, nxt, todo>>
    BY <1>4 DEF AddWalk, Smaller, CursorInv, heap
  <2>2. nxt[l] \in live \union {NULL} /\ l # NULL
    BY <2>1 DEF ListInv, NextIsSuccessor, TypeOK
  <2> QED BY <2>1, <2>2 DEF CursorInv
<1>5. CASE DelSearch
  <2>1. /\ pc' = "search" /\ l = head /\ l \in live /\ stop_adr[l] # Head(todo)
        /\ UNCHANGED <<live, stop_adr, l, todo>>
        /\ \A n \in live : stop_adr[l] <= stop_adr[n]
    BY <1>5 DEF DelSearch, CursorInv, ListInv, HeadIsLeast, First, heap
  <2>2. \A n \in live : stop_adr[n] \in Nat
    BY DEF TypeOK
  <2>3. \A n \in live : stop_adr[n] <= stop_adr[l] => n = l
    BY <2>1, <2>2 DEF ListInv, NoDuplicate
  <2> QED BY <2>1, <2>3 DEF CursorInv
<1>6. CASE DelWalk
  <2>1. /\ pc' = "search" /\ l \in live /\ nxt[l] \in live /\ l' = nxt[l]
        /\ stop_adr[nxt[l]] # Head(todo) /\ UNCHANGED <<live, stop_adr, todo>>
        /\ \A n \in live : stop_adr[n] <= stop_adr[l] => stop_adr[n] # Head(todo)
        /\ \A n \in live : stop_adr[n] <= stop_adr[l] \/ stop_adr[nxt[l]] <= stop_adr[n]
    BY <1>6 DEF DelWalk, CursorInv, ListInv, NextIsSuccessor, heap
  <2>2. \A n \in live : stop_adr[n] <= stop_adr[nxt[l]]
                          => stop_adr[n] <= stop_adr[l] \/ n = nxt[l]
    BY <2>1 DEF ListInv, NoDuplicate, TypeOK
  <2>3. \A n \in live : stop_adr[n] <= stop_adr[nxt[l]] => stop_adr[n] # Head(todo)
    BY <2>1, <2>2
  <2> QED BY <2>1, <2>3 DEF CursorInv
<1>7. CASE ClearStart \/ FreeNode
  BY <1>7 DEF ClearStart, FreeNode, CursorInv
<1>8. CASE ListWalk
  BY <1>8 DEF ListWalk, CursorInv, ListInv, NextIsSuccessor, heap
<1>9. CASE UNCHANGED vars
  BY <1>9 DEF vars, CursorInv
<1> QED BY <1>1, <1>2, <1>3, <1>4, <1>5, <1>6, <1>7, <1>8, <1>9 DEF Next, Running

-----------------------------------------------------------------------------
(* The three parts hold together: initially, and over every step.          *)

LEMMA InitIInv == Init => IInv
BY DEF Init, IInv, TypeOK, ListInv, NoDuplicate, HeadIsLeast, NextIsSuccessor,
       CursorInv, First

LEMMA StepIInv == IInv /\ [Next]_vars => IInv'
BY TypeStep, ListStep, CursorStep DEF IInv

LEMMA Invariance == Spec => []IInv
BY InitIInv, StepIInv, PTL DEF Spec

(* The variables of the list and of its parser keep their types; pending   *)
(* addresses exist exactly while a command needs one.                      *)
THEOREM TypeCorrect == Spec => []TypeOK
BY Invariance, PTL DEF IInv

(* At every step of every command the list is sorted, holds an address at  *)
(* most once, and no link of it leads to a freed node.                     *)
THEOREM ListCorrect == Spec => []ListInv
BY Invariance, PTL DEF IInv

(* No function of the list dereferences a freed node.                      *)
THEOREM CursorsValid == Spec => []CursorInv
BY Invariance, PTL DEF IInv

-----------------------------------------------------------------------------
(* No node is lost.  The invariant speaks of neighbours only; that every   *)
(* allocated node is reached from the first one needs the greatest         *)
(* reachable address below that of a node supposed to be unreachable.      *)

LEMMA Reachable ==
  ASSUME TypeOK, ListInv
  PROVE  NoLeak
<1> SUFFICES ASSUME NEW S \in SUBSET Node,
                    First \in S \union {NULL},
                    \A n \in S : nxt[n] \in S \union {NULL},
                    NEW g \in live, g \notin S
             PROVE  FALSE
  BY DEF NoLeak
<1>1. /\ First \in live /\ First \in S
      /\ stop_adr \in [Node -> Nat] /\ live \subseteq Node
  BY DEF ListInv, HeadIsLeast, TypeOK
<1> DEFINE Below == {m \in live : m \in S /\ stop_adr[m] < stop_adr[g]}
           Gap == {stop_adr[g] - stop_adr[m] : m \in Below}
<1>2. First \in Below
  <2>1. stop_adr[First] <= stop_adr[g]
    BY <1>1, NodeAssumption DEF ListInv, HeadIsLeast
  <2>2. stop_adr[First] # stop_adr[g]
    BY <1>1 DEF ListInv, NoDuplicate
  <2> QED BY <1>1, <2>1, <2>2
<1>3. Gap \in SUBSET Nat /\ Gap # {}
  BY <1>1, <1>2
<1>4. PICK d \in Gap : \A e \in Gap : d <= e
  BY <1>3, LeastNat
<1>5. PICK m \in Below : d = stop_adr[g] - stop_adr[m]
  BY <1>4
<1>6. \A k \in Below : stop_adr[k] <= stop_adr[m]
  <2> SUFFICES ASSUME NEW k \in Below PROVE stop_adr[k] <= stop_adr[m]
    OBVIOUS
  <2>1. stop_adr[g] - stop_adr[k] \in Gap
    OBVIOUS
  <2>2. stop_adr[g] - stop_adr[m] <= stop_adr[g] - stop_adr[k]
    BY <1>4, <1>5, <2>1
  <2> QED BY <1>1, <2>2
<1>7. nxt[m] \in live /\ nxt[m] \in S
  BY <1>1, <1>5 DEF ListInv, NextIsSuccessor
<1>8. stop_adr[m] < stop_adr[nxt[m]] /\ stop_adr[nxt[m]] <= stop_adr[g]
  BY <1>1, <1>5, <1>7, NodeAssumption DEF ListInv, NextIsSuccessor
<1>9. stop_adr[nxt[m]] # stop_adr[g]
  BY <1>7 DEF ListInv, NoDuplicate
<1>10. nxt[m] \in Below
  BY <1>1, <1>7, <1>8, <1>9
<1> QED BY <1>1, <1>5, <1>6, <1>8, <1>10

(* Every allocated node is reached from the head of the list (or from the  *)
(* cursor of free_break_list): no address is forgotten and no cell leaks.  *)
THEOREM NothingLeaks == Spec => []NoLeak
<1>1. IInv => NoLeak
  BY Reachable DEF IInv
<1> QED BY <1>1, Invariance, PTL

-----------------------------------------------------------------------------
(* The refinement: each step of the list is a step of the set or leaves it *)
(* alone.                                                                  *)

LEMMA InitRefines == Init => Abs!Init
BY DEF Init, Abs!Init, AbsBps, AbsOp, OK, Abs!OK

(* The set seen from outside follows the heap as long as the list is not   *)
(* being freed.                                                            *)
LEMMA SameBps ==
  ASSUME UNCHANGED heap, pc # "free", pc' # "free"
  PROVE  AbsBps' = AbsBps
BY DEF AbsBps, heap

LEMMA EmptyBps ==
  ASSUME TypeOK, ListInv, pc # "free"
  PROVE  head = NULL <=> AbsBps = {}
BY DEF ListInv, HeadIsLeast, First, AbsBps

LEMMA StepRefines ==
  ASSUME IInv, [Next]_vars, IInv'
  PROVE  [Abs!Next]_Abs!vars
<1> USE DEF Abs!OK, Abs!ERR, Abs!vars, Abs!Reply
<1> USE DEF IInv
<1>1. CASE CallAdd \/ CallDel \/ CallDelAll \/ CallList
  <2>1. AbsBps' = AbsBps /\ pc = "idle" /\ ret' = ret
    BY <1>1, SameBps DEF CallAdd, CallDel, CallDelAll, CallList, Enter
  <2>2. /\ AbsOp = "idle"
        /\ \/ AbsOp' = "add" /\ todo' \in Batch
           \/ AbsOp' = "del" /\ \E a \in Adr : todo' = <<a>>
           \/ AbsOp' \in {"delall", "list"} /\ todo' = <<>>
    BY <1>1 DEF CallAdd, CallDel, CallDelAll, CallList, Enter, AbsOp
  <2> QED BY <2>1, <2>2 DEF Abs!Request, Abs!Next, Batch, Abs!Batch
<1>2. CASE BadLine
  <2>1. AbsBps' = AbsBps
    BY <1>2, SameBps DEF BadLine, Return
  <2> QED BY <1>2, <2>1 DEF BadLine, Return, AbsOp, Abs!Reject, Abs!Next
<1>3. CASE AddWalk \/ DelSearch \/ DelWalk \/ ListWalk
  <2>1. AbsBps' = AbsBps
    BY <1>3, SameBps DEF AddWalk, DelSearch, DelWalk, ListWalk
  <2> QED BY <1>3, <2>1 DEF AddWalk, DelSearch, DelWalk, ListWalk, AbsOp
<1>4. ASSUME NEW r \in {OK, ERR}, pc = "add", NextArg(r)
      PROVE  AbsOp = "add" /\ Abs!Advance(r)
  BY <1>4 DEF NextArg, Return, Abs!Advance, AbsOp, TypeOK
<1>5. CASE AddFound
  <2>1. AbsBps' = AbsBps
    BY <1>5, SameBps DEF AddFound, NextArg, Return
  <2>2. Head(todo) \in AbsBps
    BY <1>5 DEF AddFound, Found, AbsBps, CursorInv
  <2>3. AbsBps' = AbsBps \union {Head(todo)}
    BY <2>1, <2>2
  <2> QED BY <1>4, <1>5, <2>3 DEF AddFound, Abs!Record, Abs!Next
<1>6. CASE AddInsert
  <2>1. PICK t \in Node \ live : live' = live \union {t} /\ LinkAfter(t)
    BY <1>6 DEF AddInsert
  <2>2. stop_adr' = [stop_adr EXCEPT ![t] = Head(todo)] /\ t \notin live
    BY <2>1 DEF LinkAfter
  <2>3. /\ stop_adr'[t] = Head(todo)
        /\ \A n \in live : stop_adr'[n] = stop_adr[n]
    BY <2>2 DEF TypeOK
  <2>4. pc # "free" /\ pc' # "free"
    BY <1>6 DEF AddInsert, NextArg, Return
  <2>5. AbsBps' = AbsBps \union {Head(todo)}
    BY <2>1, <2>3, <2>4 DEF AbsBps
  <2> QED BY <1>4, <1>6, <2>5 DEF AddInsert, Abs!Record, Abs!Next
<1>7. CASE AddNoMemory
  <2>1. AbsBps' = AbsBps
    BY <1>7, SameBps DEF AddNoMemory, NextArg, Return
  <2>2. Head(todo) \notin AbsBps
    <3>0. Head(todo) \in Adr
      BY <1>7 DEF AddNoMemory, TypeOK
    <3>1. /\ pc = "add" /\ First = head /\ ~Smaller /\ ~Found
          /\ Head(todo) \in Nat /\ stop_adr \in [Node -> Nat] /\ live \subseteq Node
      BY <1>7, <3>0 DEF AddNoMemory, First, TypeOK
    <3>2. l # NULL => l \in live /\ Head(todo) < stop_adr[l]
      BY <3>1 DEF CursorInv, Smaller, Found
    <3>3. \A n \in live : stop_adr[n] # Head(todo)
      <4>1. CASE p = NULL
        BY <3>1, <3>2, <4>1 DEF CursorInv, ListInv, HeadIsLeast
      <4>2. CASE p # NULL
        BY <3>1, <3>2, <4>2 DEF CursorInv, ListInv, NextIsSuccessor
      <4> QED BY <4>1, <4>2
    <3> QED BY <3>1, <3>3 DEF AbsBps
  <2>3. head = NULL <=> AbsBps = {}
    BY <1>7, EmptyBps DEF AddNoMemory
  <2>4. AbsOp = "add" /\ Abs!Advance(IF AbsBps = {} THEN 1 ELSE 0)
    BY <1>4, <1>7, <2>3 DEF AddNoMemory
  <2> QED BY <2>1, <2>2, <2>4 DEF Abs!Lose, Abs!Next
<1>8. CASE DelEmpty
  <2>1. AbsBps' = AbsBps
    BY <1>8, SameBps DEF DelEmpty, Return
  <2>2. AbsBps = {}
    BY <1>8, EmptyBps DEF DelEmpty
  <2> QED BY <1>8, <2>1, <2>2 DEF DelEmpty, Return, AbsOp, Abs!Delete, Abs!Next
<1>9. ASSUME NEW c \in live, stop_adr[c] = Head(todo), live' = live \ {c},
             stop_adr' = stop_adr, pc \in {"del", "search"}, Return(OK)
      PROVE  Abs!Delete
  <2>1. AbsBps' = AbsBps \ {Head(todo)} /\ Head(todo) \in AbsBps
    BY <1>9 DEF AbsBps, Return, ListInv, NoDuplicate
  <2>2. AbsOp = "del" /\ AbsOp' = "idle"
    BY <1>9 DEF AbsOp, Return
  <2> QED BY <1>9, <2>1, <2>2 DEF Abs!Delete, Return
<1>10. CASE DelHead
  <2>1. l \in live
    BY <1>10 DEF DelHead, CursorInv, ListInv, HeadIsLeast, First
  <2> QED BY <1>9, <1>10, <2>1 DEF DelHead, Abs!Next
<1>11. CASE DelMissing
  <2>1. AbsBps' = AbsBps
    BY <1>11, SameBps DEF DelMissing, Return
  <2>2. \A n \in live : stop_adr[n] # Head(todo)
    BY <1>11 DEF DelMissing, CursorInv, ListInv, NextIsSuccessor
  <2>3. Head(todo) \notin AbsBps
    BY <1>11, <2>2 DEF DelMissing, AbsBps
  <2> QED BY <1>11, <2>1, <2>3 DEF DelMissing, Return, AbsOp, Abs!Delete, Abs!Next
<1>12. CASE DelUnlink
  <2>1. nxt[l] \in live
    BY <1>12 DEF DelUnlink, CursorInv, ListInv, NextIsSuccessor
  <2> QED BY <1>9, <1>12, <2>1 DEF DelUnlink, Abs!Next
<1>13. CASE ClearEmpty
  <2>1. AbsBps' = AbsBps
    BY <1>13, SameBps DEF ClearEmpty, Return
  <2>2. AbsBps = {}
    BY <1>13, EmptyBps DEF ClearEmpty
  <2> QED BY <1>13, <2>1, <2>2
          DEF ClearEmpty, Return, AbsOp, Abs!NothingToClear, Abs!Next
<1>14. CASE ClearStart
  <2>1. AbsBps # {} /\ AbsBps' = {}
    BY <1>14, EmptyBps DEF ClearStart, AbsBps
  <2> QED BY <1>14, <2>1 DEF ClearStart, AbsOp, Abs!Clear, Abs!Next
<1>15. CASE FreeNode
  BY <1>15 DEF FreeNode, AbsBps, AbsOp
<1>16. CASE FreeDone
  <2>1. live = {}
    BY <1>16 DEF FreeDone, ListInv, HeadIsLeast, First
  <2>2. AbsBps = {} /\ AbsBps' = {}
    BY <1>16, <2>1 DEF FreeDone, AbsBps, heap, Return
  <2> QED BY <1>16, <2>2 DEF FreeDone, Return, AbsOp, Abs!Done, Abs!Next
<1>17. CASE ListDone
  <2>1. AbsBps' = AbsBps
    BY <1>17, SameBps DEF ListDone, Return
  <2> QED BY <1>17, <2>1 DEF ListDone, Return, AbsOp, Abs!Done, Abs!Next
<1>18. CASE UNCHANGED vars
  BY <1>18 DEF vars, AbsBps, AbsOp
<1> QED BY <1>1, <1>2, <1>3, <1>5, <1>6, <1>7, <1>8, <1>10, <1>11, <1>12, <1>13,
           <1>14, <1>15, <1>16, <1>17, <1>18 DEF Next, Running

(* The linked list of breakpoint.c, driven by breakcmd, behaves as a set   *)
(* of addresses with the return codes of BreakSet.                         *)
THEOREM Refinement == Spec => ImplementsBreakSet
BY InitRefines, StepRefines, Invariance, PTL DEF Spec, Abs!Spec, ImplementsBreakSet
-----------------------------------------------------------------------------
(* The nodes that the cursor of the running function has not passed.       *)
Ahead == IF l = NULL THEN {} ELSE {n \in live : stop_adr[l] <= stop_adr[n]}

(* A step inside a command serves an address of the batch, or enters a     *)
(* loop, or leaves fewer nodes ahead of the cursor.                        *)
Forward ==
  pc # "idle" /\ pc' # "idle" =>
    \/ pc' = pc /\ Len(todo') < Len(todo)
    \/ <<pc, pc'>> \in {<<"del", "search">>, <<"delall", "free">>} /\ todo' = todo
    \/ pc' = pc /\ todo' = todo /\ Cardinality(Ahead') < Cardinality(Ahead)

LEMMA FiniteStep ==
  ASSUME IsFiniteSet(live), [Next]_vars
  PROVE  IsFiniteSet(live')
<1>1. live' = live \/ (\E t : live' = live \union {t}) \/ (\E t : live' = live \ {t})
  BY DEF Next, CallAdd, CallDel, CallDelAll, CallList, Enter, BadLine, Running, AddWalk, AddFound,
       AddInsert, AddNoMemory, DelEmpty, DelHead, DelSearch, DelWalk, DelMissing, DelUnlink,
       ClearEmpty, ClearStart, FreeNode, FreeDone, ListWalk, ListDone, vars, heap
<1> QED BY <1>1, FS_AddElement, FS_RemoveElement

(* The cursor leaves a node behind it.                                     *)
LEMMA CursorMoves ==
  ASSUME TypeOK, ListInv, IsFiniteSet(live), l \in live, l' = nxt[l],
         live' \in {live, live \ {l}}, stop_adr' = stop_adr
  PROVE  Cardinality(Ahead') < Cardinality(Ahead)
<1>1. live \subseteq Node /\ stop_adr \in [Node -> Nat] /\ NULL \notin Node
  BY NodeAssumption, AdrAssumption DEF TypeOK
<1>2. Ahead = {n \in live : stop_adr[l] <= stop_adr[n]}
  BY <1>1 DEF Ahead
<1>3. l \in Ahead
  BY <1>1, <1>2
<1>4. Ahead' \subseteq Ahead /\ l \notin Ahead'
  <2>1. CASE nxt[l] = NULL
    BY <2>1 DEF Ahead
  <2>2. CASE nxt[l] # NULL
    <3>1. nxt[l] \in live /\ stop_adr[l] < stop_adr[nxt[l]]
      BY <2>2 DEF ListInv, NextIsSuccessor
    <3>2. Ahead' = {n \in live' : stop_adr[nxt[l]] <= stop_adr[n]}
      BY <2>2 DEF Ahead
    <3>3. live' \subseteq live
      OBVIOUS
    <3>4. \A n \in Ahead' : n \in live /\ stop_adr[l] < stop_adr[n]
      BY <1>1, <3>1, <3>2, <3>3
    <3> QED BY <1>1, <1>2, <3>4
  <2> QED BY <2>1, <2>2
<1>5. IsFiniteSet(Ahead)
  BY <1>2, FS_Subset
<1>6. IsFiniteSet(Ahead') /\ Cardinality(Ahead') <= Cardinality(Ahead)
      /\ Cardinality(Ahead) # Cardinality(Ahead')
  BY <1>3, <1>4, <1>5, FS_Subset
<1>7. Cardinality(Ahead) \in Nat /\ Cardinality(Ahead') \in Nat
  BY <1>5, <1>6, FS_CardinalityType
<1> QED BY <1>6, <1>7

LEMMA StepForward == IInv /\ IsFiniteSet(live) /\ [Next]_vars => [Forward]_vars
<1> SUFFICES ASSUME TypeOK, ListInv, CursorInv, IsFiniteSet(live), Next,
                    pc # "idle", pc' # "idle"
             PROVE  \/ pc' = pc /\ Len(todo') < Len(todo)
                    \/ <<pc, pc'>> \in {<<"del", "search">>, <<"delall", "free">>} /\ todo' = todo
                    \/ pc' = pc /\ todo' = todo /\ Cardinality(Ahead') < Cardinality(Ahead)
  BY DEF Forward, IInv
<1>1. CASE AddFound \/ AddInsert \/ AddNoMemory
  <2>1. pc = "add" /\ todo' = Tail(todo) /\ pc' = pc
    BY <1>1 DEF AddFound, AddInsert, AddNoMemory, NextArg, Return
  <2>2. todo \in Seq(Adr) /\ todo # <<>>
    BY <2>1 DEF TypeOK
  <2>3. Len(todo') < Len(todo)
    BY <2>1, <2>2
  <2> QED BY <2>1, <2>3
<1>2. CASE AddWalk \/ DelWalk \/ ListWalk
  <2>1. pc' = pc /\ todo' = todo /\ l' = nxt[l] /\ live' = live /\ stop_adr' = stop_adr
    BY <1>2 DEF AddWalk, DelWalk, ListWalk, heap
  <2>2. l \in live
    BY <1>2 DEF AddWalk, Smaller, DelWalk, ListWalk, CursorInv
  <2> QED BY <2>1, <2>2, CursorMoves
<1>3. CASE FreeNode
  <2>1. pc' = pc /\ todo' = todo /\ l' = nxt[l] /\ live' = live \ {l} /\ stop_adr' = stop_adr
    BY <1>3 DEF FreeNode
  <2>2. l \in live
    BY <1>3 DEF FreeNode, ListInv, HeadIsLeast, First
  <2> QED BY <2>1, <2>2, CursorMoves
<1>4. CASE DelSearch \/ ClearStart
  BY <1>4 DEF DelSearch, ClearStart
<1>5. CASE DelEmpty \/ DelHead \/ DelMissing \/ DelUnlink \/ ClearEmpty \/ FreeDone \/ ListDone
           \/ BadLine
  BY <1>5 DEF DelEmpty, DelHead, DelMissing, DelUnlink, ClearEmpty, FreeDone, ListDone, BadLine,
       Return
<1>6. CASE CallAdd \/ CallDel \/ CallDelAll \/ CallList
  BY <1>6 DEF CallAdd, CallDel, CallDelAll, CallList, Enter
<1> QED BY <1>1, <1>2, <1>3, <1>4, <1>5, <1>6 DEF Next, Running

(* Inside a command every loop goes forward: over a batch that gets        *)
(* shorter, in each round of it over nodes that the cursor never sees      *)
(* again.  Nothing can turn for ever in add_list_break, _breakcmd_del,     *)
(* free_break_list or affiche_list.                                        *)
THEOREM CommandsAdvance == Spec => [][Forward]_vars
<1>1. Init => IInv /\ IsFiniteSet(live)
  BY InitIInv, FS_EmptySet DEF Init
<1>2. IInv /\ IsFiniteSet(live) /\ [Next]_vars => (IInv /\ IsFiniteSet(live))'
  BY StepIInv, FiniteStep
<1> QED BY <1>1, <1>2, StepForward, PTL DEF Spec
=============================================================================
