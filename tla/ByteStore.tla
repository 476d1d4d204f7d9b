----------------------------- MODULE ByteStore ------------------------------
(***************************************************************************)
(* What "set mem" and "assert byte/word" promise about the emulated        *)
(* memory: a map from addresses to bytes.  A set changes the addressed     *)
(* bytes and no other, an assert changes none and answers from the stored  *)
(* bytes.  The map may gain bytes at any command, at addresses that held   *)
(* nothing before.  Nothing is promised of an address that holds no byte.  *)
(* The segments of memory.c implement it (Memory).                         *)
(***************************************************************************)
EXTENDS Naturals

CONSTANTS
  W,        \* the number of addresses: 2^32
  B         \* the number of values of a byte: 256

VARIABLES
  store,    \* a function from the addresses that hold a byte to the bytes
  loading,  \* a program image is being installed
  cmd,      \* the last command: its kind, address and value
  ret,      \* its return code
  up        \* the emulator is running

vars == <<store, loading, cmd, ret, up>>

OK  == 0
ERR == 1

Adr  == 0..(W - 1)
Byte == 0..(B - 1)

Lo(v) == v % B
Hi(v) == (v \div B) % B
After(a) == (a + 1) % W

Holds(a) == a \in DOMAIN store

(* The bytes stored so far are kept, except where new says otherwise; the  *)
(* bytes gained are zero, except where new says otherwise.                 *)
Becomes(new) ==
  LET old == store
      now == store'
  IN /\ DOMAIN old \subseteq DOMAIN now
     /\ now = [b \in DOMAIN now |-> IF b \in DOMAIN new THEN new[b]
                                   ELSE IF b \in DOMAIN old THEN old[b] ELSE 0]

Empty == [b \in {} |-> 0]

Init ==
  /\ store = Empty
  /\ loading = FALSE
  /\ cmd.op = "none"
  /\ ret = OK
  /\ up = TRUE

BeginLoad ==
  /\ ~loading /\ loading' = TRUE
  /\ cmd'.op = "load"
  /\ UNCHANGED <<ret, up>>

Install ==
  /\ loading
  /\ loading' = FALSE => ret' = OK
  /\ UNCHANGED <<cmd, up>>

Refuse ==
  /\ ~loading
  /\ cmd'.op = "load"
  /\ ret' = ERR
  /\ UNCHANGED <<store, loading, up>>

(* Where no byte is stored the value is lost: the byte gained is zero.     *)
SetByte ==
  /\ ~loading
  /\ cmd'.op = "set byte"
  /\ LET a == cmd'.adr IN
     Becomes([b \in {a} \intersect DOMAIN store |-> cmd'.val])
  /\ ret' = OK
  /\ UNCHANGED <<loading, up>>

(* A word at the edge of the stored bytes may keep its low byte only.      *)
SetWord ==
  /\ ~loading
  /\ cmd'.op = "set word"
  /\ LET a == cmd'.adr
         new == [b \in {a, After(a)} |-> IF b = a THEN Lo(cmd'.val) ELSE Hi(cmd'.val)]
     IN Becomes([b \in {a} \union ({After(a)} \intersect DOMAIN store) |-> new[b]])
  /\ ret' = OK
  /\ UNCHANGED <<loading, up>>

(* An OK is never wrong, and an integer8, which is signed for the help     *)
(* (inter.c:1083) and so at most 127, is not refused where it is stored.   *)
(* Nothing makes a byte above 127 accepted.                                *)
AssertByte ==
  /\ ~loading
  /\ cmd'.op = "assert byte"
  /\ Becomes(Empty)
  /\ LET a == cmd'.adr v == cmd'.val IN
     Holds(a) => /\ ret' = OK => store[a] = v
                 /\ store[a] = v /\ v < B \div 2 => ret' = OK
  /\ UNCHANGED <<loading, up>>

AssertWord ==
  /\ ~loading
  /\ cmd'.op = "assert word"
  /\ Becomes(Empty)
  /\ LET a == cmd'.adr v == cmd'.val IN
     /\ a % 2 = 1 => ret' = ERR /\ store' = store
     /\ a % 2 = 0 /\ Holds(a) /\ Holds(After(a)) =>
          (ret' = OK <=> store[a] = Lo(v) /\ store[After(a)] = Hi(v))
  /\ UNCHANGED <<loading, up>>

Die ==
  /\ up
  /\ up' = FALSE

Next ==
  /\ up
  /\ BeginLoad \/ Install \/ Refuse \/ SetByte \/ SetWord
     \/ AssertByte \/ AssertWord \/ Die

Spec == Init /\ [][Next]_vars
=============================================================================
