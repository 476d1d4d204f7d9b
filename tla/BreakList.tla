----------------------------- MODULE BreakList ------------------------------
(***************************************************************************)
(* The breakpoint list of breakpoint.c and the "break" command that drives *)
(* it (breakcmd in inter.c, _breakcmd_* in commandes.c), at the level of   *)
(* nodes and pointers: one step per loop iteration, the locals l and p as  *)
(* variables, calloc failing whenever it likes.  A freed node keeps its    *)
(* fields until calloc hands it out again, as freed memory does.           *)
(***************************************************************************)
EXTENDS Naturals, Sequences

CONSTANTS
  Node,      \* the cells calloc can hand out
  NULL,      \* the null pointer
  Adr,       \* the addresses a breakpoint can stop at (unsigned int)
  MaxArgs    \* the longest list of addresses of one "break add"

ASSUME NodeAssumption == NULL \notin Node
ASSUME AdrAssumption  == Adr \subseteq Nat
ASSUME ArgsAssumption == MaxArgs \in Nat

VARIABLES
  head,      \* inter->breaklist
  live,      \* the cells that are allocated
  stop_adr,  \* field stop_adr of every cell
  nxt,       \* field nxt of every cell
  pc,        \* the loop the command is in, or "idle" between two lines
  l, p,      \* the cursors of the running function
  todo,      \* adresse[j..i-1]: the addresses still to be served
  ret        \* the value the last command returned

vars == <<head, live, stop_adr, nxt, pc, l, p, todo, ret>>
heap == <<live, stop_adr, nxt>>

OK  == 0     \* CMD_OK_RETURN_VALUE
ERR == 1

Batch == UNION {[1..k -> Adr] : k \in 1..MaxArgs}

Init ==
  /\ head = NULL
  /\ live = {}
  /\ stop_adr \in [Node -> Adr]
  /\ nxt = [n \in Node |-> NULL]
  /\ pc = "idle"
  /\ l = NULL
  /\ p = NULL
  /\ todo = <<>>
  /\ ret = OK

-----------------------------------------------------------------------------
(* The command parser: breakcmd                                            *)

Return(r) ==
  /\ pc' = "idle"
  /\ l' = NULL
  /\ p' = NULL
  /\ todo' = <<>>
  /\ ret' = r

Enter(label, args) ==
  /\ pc = "idle"
  /\ pc' = label
  /\ todo' = args
  /\ l' = head
  /\ p' = NULL
  /\ UNCHANGED <<head, heap, ret>>

(* "break add @+": every address is parsed before the first is added.      *)
CallAdd == \E s \in Batch : Enter("add", s)

CallDel == \E a \in Adr : Enter("del", <<a>>)

CallDelAll == Enter("delall", <<>>)

CallList == Enter("list", <<>>)

(* A missing or malformed argument is reported before the list is touched. *)
BadLine ==
  /\ pc = "idle"
  /\ Return(ERR)
  /\ UNCHANGED <<head, heap>>

-----------------------------------------------------------------------------
(* add_list_break, called by breakcmd for each address of the batch        *)

(* Mistake to detect: the insertion point is after the equal node.         *)
SmallerOrEqual == l # NULL /\ stop_adr[l] <= Head(todo)

Smaller == l # NULL /\ stop_adr[l] < Head(todo)
Found   == l # NULL /\ stop_adr[l] = Head(todo)

AddWalk ==
  /\ pc = "add"
  /\ Smaller
  /\ p' = l
  /\ l' = nxt[l]
  /\ UNCHANGED <<head, heap, pc, todo, ret>>

(* Mistake to detect: the loop runs once too often (j<=i).                 *)
NextArgTooFar(r) ==
  IF r = ERR \/ todo = <<>>
  THEN Return(r)
  ELSE todo' = Tail(todo) /\ l' = head' /\ p' = NULL /\ UNCHANGED <<pc, ret>>

(* The while (j<i) loop of breakcmd: next address, or return.              *)
NextArg(r) ==
  IF r = ERR \/ Tail(todo) = <<>>
  THEN Return(r)
  ELSE /\ todo' = Tail(todo)
       /\ l' = head'
       /\ p' = NULL
       /\ UNCHANGED <<pc, ret>>

AddFound ==
  /\ pc = "add"
  /\ ~Smaller
  /\ Found
  /\ UNCHANGED <<head, heap>>
  /\ NextArg(OK)

(* Mistake to detect: the new node is never linked behind p.               *)
LinkForgotten(t) ==
  /\ stop_adr' = [stop_adr EXCEPT ![t] = Head(todo)]
  /\ head' = IF p = NULL THEN t ELSE head
  /\ nxt' = [nxt EXCEPT ![t] = l]

(* Mistake to detect: the new node leads back to the head of the list.     *)
LinkCycle(t) ==
  /\ stop_adr' = [stop_adr EXCEPT ![t] = Head(todo)]
  /\ head' = IF p = NULL THEN t ELSE head
  /\ nxt' = IF p = NULL THEN [nxt EXCEPT ![t] = l]
                        ELSE [nxt EXCEPT ![t] = head, ![p] = t]

LinkAfter(t) ==
  /\ stop_adr' = [stop_adr EXCEPT ![t] = Head(todo)]
  /\ IF p = NULL
     THEN /\ head' = t
          /\ nxt' = [nxt EXCEPT ![t] = l]
     ELSE /\ head' = head
          /\ nxt' = [nxt EXCEPT ![t] = l, ![p] = t]

AddInsert ==
  /\ pc = "add"
  /\ ~Smaller
  /\ ~Found
  /\ \E t \in Node \ live :
       /\ live' = live \union {t}
       /\ LinkAfter(t)
  /\ NextArg(OK)

(* calloc returned NULL: the list is returned unchanged, and _breakcmd_add *)
(* reports an error only when that list is empty.                          *)
AddNoMemory ==
  /\ pc = "add"
  /\ ~Smaller
  /\ ~Found
  /\ UNCHANGED <<head, heap>>
  /\ NextArg(IF head = NULL THEN ERR ELSE OK)

-----------------------------------------------------------------------------
(* _breakcmd_del                                                           *)

DelEmpty ==
  /\ pc = "del"
  /\ head = NULL
  /\ UNCHANGED <<head, heap>>
  /\ Return(ERR)

(* dehead_list_break on the whole list                                     *)
DelHead ==
  /\ pc = "del"
  /\ head # NULL
  /\ stop_adr[l] = Head(todo)
  /\ head' = nxt[l]
  /\ live' = live \ {l}
  /\ UNCHANGED <<stop_adr, nxt>>
  /\ Return(OK)

DelSearch ==
  /\ pc = "del"
  /\ head # NULL
  /\ stop_adr[l] # Head(todo)
  /\ pc' = "search"
  /\ UNCHANGED <<head, heap, l, p, todo, ret>>

DelWalk ==
  /\ pc = "search"
  /\ nxt[l] # NULL
  /\ stop_adr[nxt[l]] # Head(todo)
  /\ l' = nxt[l]
  /\ UNCHANGED <<head, heap, pc, p, todo, ret>>

(* Mistake to detect: an address that is not in the list is reported OK.   *)
DelMissingOK ==
  /\ pc = "search"
  /\ nxt[l] = NULL
  /\ UNCHANGED <<head, heap>>
  /\ Return(OK)

DelMissing ==
  /\ pc = "search"
  /\ nxt[l] = NULL
  /\ UNCHANGED <<head, heap>>
  /\ Return(ERR)

(* Mistake to detect: the node is released but stays linked after l.       *)
DelUnlinkDangling ==
  /\ pc = "search"
  /\ nxt[l] # NULL
  /\ stop_adr[nxt[l]] = Head(todo)
  /\ live' = live \ {nxt[l]}
  /\ UNCHANGED <<head, stop_adr, nxt>>
  /\ Return(OK)

(* dehead_list_break on the rest of the list, its result linked after l    *)
DelUnlink ==
  /\ pc = "search"
  /\ nxt[l] # NULL
  /\ stop_adr[nxt[l]] = Head(todo)
  /\ live' = live \ {nxt[l]}
  /\ nxt' = [nxt EXCEPT ![l] = nxt[nxt[l]]]
  /\ UNCHANGED <<head, stop_adr>>
  /\ Return(OK)

-----------------------------------------------------------------------------
(* _breakcmd_del_all: inter->breaklist is assigned only once every node is *)
(* released, so head dangles while free_break_list runs.                   *)

ClearEmpty ==
  /\ pc = "delall"
  /\ head = NULL
  /\ UNCHANGED <<head, heap>>
  /\ Return(ERR)

ClearStart ==
  /\ pc = "delall"
  /\ head # NULL
  /\ pc' = "free"
  /\ UNCHANGED <<head, heap, l, p, todo, ret>>

FreeNode ==
  /\ pc = "free"
  /\ l # NULL
  /\ live' = live \ {l}
  /\ l' = nxt[l]
  /\ UNCHANGED <<head, stop_adr, nxt, pc, p, todo, ret>>

FreeDone ==
  /\ pc = "free"
  /\ l = NULL
  /\ head' = NULL
  /\ UNCHANGED heap
  /\ Return(OK)

-----------------------------------------------------------------------------
(* affiche_list                                                            *)

ListWalk ==
  /\ pc = "list"
  /\ l # NULL
  /\ l' = nxt[l]
  /\ UNCHANGED <<head, heap, pc, p, todo, ret>>

ListDone ==
  /\ pc = "list"
  /\ l = NULL
  /\ UNCHANGED <<head, heap>>
  /\ Return(OK)

-----------------------------------------------------------------------------
Running ==
  \/ AddWalk \/ AddFound \/ AddInsert \/ AddNoMemory
  \/ DelEmpty \/ DelHead \/ DelSearch \/ DelWalk \/ DelMissing \/ DelUnlink
  \/ ClearEmpty \/ ClearStart \/ FreeNode \/ FreeDone
  \/ ListWalk \/ ListDone

Next ==
  \/ CallAdd \/ CallDel \/ CallDelAll \/ CallList \/ BadLine
  \/ Running

Spec == Init /\ [][Next]_vars

(* The program is one thread and nothing blocks inside a command: a        *)
(* function that was entered keeps running.                                *)
FairSpec == Spec /\ WF_vars(Running)

-----------------------------------------------------------------------------
(* Every variable keeps its type, and a command that needs an address has  *)
(* one: breakcmd never reads adresse[] past the addresses it parsed.       *)
TypeOK ==
  /\ head \in Node \union {NULL}
  /\ live \subseteq Node
  /\ stop_adr \in [Node -> Adr]
  /\ nxt \in [Node -> Node \union {NULL}]
  /\ pc \in {"idle", "add", "del", "search", "delall", "free", "list"}
  /\ l \in Node \union {NULL}
  /\ p \in Node \union {NULL}
  /\ todo \in Seq(Adr)
  /\ todo # <<>> <=> pc \in {"add", "del", "search"}
  /\ ret \in {OK, ERR}

(* The pointer through which the allocated nodes are reached: while        *)
(* free_break_list runs it is its cursor, otherwise inter->breaklist.      *)
First == IF pc = "free" THEN l ELSE head

(* add_list_break never creates a second node for an address.              *)
NoDuplicate ==
  \A m, n \in live : stop_adr[m] = stop_adr[n] => m = n

(* The list starts at an allocated node with the least address.            *)
HeadIsLeast ==
  IF First = NULL
  THEN live = {}
  ELSE First \in live /\ \A n \in live : stop_adr[First] <= stop_adr[n]

(* nxt leads to the allocated node with the next greater address; it is    *)
(* null on the greatest only.  No link of the list leads to a freed node.  *)
NextIsSuccessor ==
  \A n \in live :
    IF nxt[n] = NULL
    THEN \A m \in live : stop_adr[m] <= stop_adr[n]
    ELSE /\ nxt[n] \in live
         /\ stop_adr[n] < stop_adr[nxt[n]]
         /\ \A m \in live : stop_adr[m] <= stop_adr[n]
                              \/ stop_adr[nxt[n]] <= stop_adr[m]

(* Sorted, without duplicates and without dangling links, at every step of *)
(* every command and not only between two of them.                         *)
ListInv == NoDuplicate /\ HeadIsLeast /\ NextIsSuccessor

(* The cursors of the running function point to allocated nodes at each    *)
(* place where it dereferences them, and where the list must be cut.       *)
CursorInv ==
  /\ pc = "add" =>
       /\ l \in live \union {NULL}
       /\ p = NULL => l = head
       /\ p # NULL => /\ p \in live
                      /\ nxt[p] = l
                      /\ stop_adr[p] < Head(todo)
  /\ pc \in {"del", "delall"} => l = head
  /\ pc = "search" =>
       /\ l \in live
       /\ \A n \in live : stop_adr[n] <= stop_adr[l] => stop_adr[n] # Head(todo)
  /\ pc = "list" => l \in live \union {NULL}

(* No node is lost: whatever set of cells contains the first node and is   *)
(* closed under nxt contains every allocated node, so that free_break_list *)
(* releases all of them when the interpreter is deleted.                   *)
NoLeak ==
  \A S \in SUBSET Node :
    /\ First \in S \union {NULL}
    /\ \A n \in S : nxt[n] \in S \union {NULL}
    => live \subseteq S

(* Between two commands nothing is left pending in the parser.             *)
IInv == TypeOK /\ ListInv /\ CursorInv

-----------------------------------------------------------------------------
(* The refinement: the set of breakpoints is the set of addresses of the   *)
(* allocated nodes; "break del all" takes effect when its loop is entered. *)
AbsBps == IF pc = "free" THEN {} ELSE {stop_adr[n] : n \in live}

AbsOp ==
  CASE pc = "search" -> "del"
    [] pc = "free"   -> "cleared"
    [] OTHER         -> pc

Abs == INSTANCE BreakSet WITH bps <- AbsBps, op <- AbsOp

(* The sorted list implements the set: an added address is recorded once,  *)
(* only the deleted one disappears, the return codes say which happened.   *)
ImplementsBreakSet == Abs!Spec

(* Every command comes back to the prompt: no loop of breakpoint.c or      *)
(* commandes.c runs for ever, whatever the list it is given.               *)
CommandsReturn == (pc # "idle") ~> (pc = "idle")
=============================================================================
