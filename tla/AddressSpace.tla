---------------------------- MODULE AddressSpace ----------------------------
(***************************************************************************)
(* What page::table promises (page.h: "present the abstraction of a        *)
(* contiguous memory space"): a memory of bytes, all zero at first.  A read*)
(* or a write moves its bytes in any number of portions, and may end in an *)
(* error after any of them.  Success means that all were moved.            *)
(*                                                                         *)
(* Truncating gives up bytes at or past the end of allocation.  Until they *)
(* are written again those bytes, the wild ones, may change at any moment. *)
(***************************************************************************)
EXTENDS Integers

CONSTANTS MaxAddr, Byte, NoByte

VARIABLES
  mem,    \* the memory
  wild,   \* addresses that hold nothing in particular
  eoa,    \* the end of allocation: calls stay below it
  call,   \* the call in progress, with the set of addresses it has served
  ret     \* how the last call ended

vars == <<mem, wild, eoa, call, ret>>

Addr == 0 .. MaxAddr - 1
CallAddrs == call.addr .. call.addr + call.size - 1
Unfilled == [a \in Addr |-> NoByte]

Idle == [op |-> "idle", addr |-> 0, size |-> 0, covered |-> {}, buffer |-> Unfilled]

(* Apart from the addresses in S, the memory that is not wild stays.       *)
KeepsAllBut(S) ==
  /\ mem' \in [Addr -> Byte]
  /\ \A a \in Addr \ (S \cup wild) : mem'[a] = mem[a]

Init ==
  /\ mem = [a \in Addr |-> 0]
  /\ wild = {}
  /\ eoa = 0
  /\ call = Idle
  /\ ret = "none"

Begin ==
  /\ call = Idle
  /\ call'.op \in {"read", "write", "flush"}
  /\ call'.op # "flush" => call'.addr + call'.size <= eoa
  /\ call'.covered = {}
  /\ ret' = "none"
  /\ KeepsAllBut({}) /\ UNCHANGED <<wild, eoa>>

Read(S) ==
  /\ call.op = "read"
  /\ call' = [call EXCEPT !.covered = @ \cup S,
                !.buffer = [a \in Addr |-> IF a \in S THEN mem'[a] ELSE @[a]]]
  /\ KeepsAllBut({}) /\ UNCHANGED <<wild, eoa, ret>>

Write(S) ==
  /\ call.op = "write"
  /\ call' = [call EXCEPT !.covered = @ \cup S]
  /\ KeepsAllBut(S)
  /\ \A a \in S : mem'[a] = call.buffer[a]
  /\ wild' = wild \ S
  /\ UNCHANGED <<eoa, ret>>

Return ==
  /\ call # Idle
  /\ call.op # "flush" => call.covered = CallAddrs
  /\ call' = Idle
  /\ ret' = "ok"
  /\ KeepsAllBut({}) /\ UNCHANGED <<wild, eoa>>

Fail ==
  /\ call # Idle
  /\ call' = Idle
  /\ ret' = "error"
  /\ KeepsAllBut({}) /\ UNCHANGED <<wild, eoa>>

SetEoa ==
  /\ call = Idle
  /\ eoa' \in 0 .. MaxAddr
  /\ ret' = "ok"
  /\ KeepsAllBut({}) /\ UNCHANGED <<wild, call>>

Truncate ==
  /\ call = Idle
  /\ wild \subseteq wild'
  /\ \A a \in wild' \ wild : a \in Addr /\ a >= eoa
  /\ \A a \in Addr \ wild' : mem'[a] = mem[a]
  /\ ret' = "ok"
  /\ UNCHANGED <<eoa, call>>

Next ==
  \/ Begin
  \/ \E S \in SUBSET CallAddrs : Read(S) \/ Write(S)
  \/ Return
  \/ Fail
  \/ SetEoa
  \/ Truncate

Spec == Init /\ [][Next]_vars
=============================================================================
