------------------------------ MODULE BreakSet ------------------------------
(***************************************************************************)
(* What the "break" command promises, without the linked list: a set of    *)
(* stop addresses, and for each request one step that answers it.  The     *)
(* list of breakpoint.c, driven by breakcmd, implements it (BreakList).    *)
(***************************************************************************)
EXTENDS Naturals, Sequences

CONSTANTS
  Adr,       \* the addresses a breakpoint can stop at (unsigned int)
  MaxArgs    \* the longest list of addresses of one "break add"

VARIABLES
  bps,       \* the set of addresses that have a breakpoint
  op,        \* the request being served, or "idle"
  todo,      \* the addresses of the request that are still to be served
  ret        \* the return code of the last command that ended

vars == <<bps, op, todo, ret>>

OK  == 0     \* CMD_OK_RETURN_VALUE
ERR == 1

Batch == UNION {[1..k -> Adr] : k \in 1..MaxArgs}

Init ==
  /\ bps = {}
  /\ op = "idle"
  /\ todo = <<>>
  /\ ret = OK

Reply(r) ==
  /\ op' = "idle"
  /\ todo' = <<>>
  /\ ret' = r

(* A line arrives; only "add" and "del" carry addresses.                   *)
Request ==
  /\ op = "idle"
  /\ \/ op' = "add" /\ todo' \in Batch
     \/ op' = "del" /\ \E a \in Adr : todo' = <<a>>
     \/ op' \in {"delall", "list"} /\ todo' = <<>>
  /\ UNCHANGED <<bps, ret>>

(* A line that does not parse changes no breakpoint.                       *)
Reject ==
  /\ op = "idle"
  /\ Reply(ERR)
  /\ UNCHANGED bps

(* After one address of a batch: stop on an error or after the last one.   *)
Advance(r) ==
  IF r = ERR \/ Tail(todo) = <<>>
  THEN Reply(r)
  ELSE todo' = Tail(todo) /\ UNCHANGED <<op, ret>>

Record ==
  /\ op = "add"
  /\ bps' = bps \union {Head(todo)}
  /\ Advance(OK)

(* Out of memory is an error only when no breakpoint existed before.       *)
Lose ==
  /\ op = "add"
  /\ Head(todo) \notin bps
  /\ UNCHANGED bps
  /\ Advance(IF bps = {} THEN ERR ELSE OK)

Delete ==
  /\ op = "del"
  /\ bps' = bps \ {Head(todo)}
  /\ Reply(IF Head(todo) \in bps THEN OK ELSE ERR)

(* Deleting all of them: nothing is left once the first node is released.  *)
NothingToClear ==
  /\ op = "delall"
  /\ bps = {}
  /\ Reply(ERR)
  /\ UNCHANGED bps

Clear ==
  /\ op = "delall"
  /\ bps # {}
  /\ bps' = {}
  /\ op' = "cleared"
  /\ UNCHANGED <<todo, ret>>

Done ==
  /\ op \in {"cleared", "list"}
  /\ Reply(OK)
  /\ UNCHANGED bps

Next ==
  \/ Request \/ Reject
  \/ Record \/ Lose \/ Delete
  \/ NothingToClear \/ Clear \/ Done

Spec == Init /\ [][Next]_vars
=============================================================================
