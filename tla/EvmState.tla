------------------------------ MODULE EvmState ------------------------------
(***************************************************************************)
(* What the state store promises to the EVM: accounts by address, each     *)
(* with a code and with storage of its own.  There are no ids, no shared   *)
(* code rows and no garbage.  StateStore implements this.                  *)
(***************************************************************************)
EXTENDS Integers

CONSTANTS Addrs,      \* EVM addresses
          CodeHashes, \* hashes of contract codes
          NoCode,     \* the hash of the empty code
          Locations   \* storage locations

VARIABLES world,   \* the accounts: address, code, locations with a value, frozen
          stray,   \* locations administrators have filled outside any account
          writing  \* a transaction is writing

Account(addr, code, slots) == [addr |-> addr, code |-> code, slots |-> slots, frozen |-> FALSE]
At(addr) == {a \in world : a.addr = addr}
Writable(addr) == \A a \in At(addr) : ~a.frozen

Init == world = {} /\ stray = {} /\ writing = FALSE

\* A new account, in the place of the one at this address if there is one.  It is
\* empty, but for what administrators have prepared.
Create(addr, code, loc) ==
  /\ Writable(addr)
  /\ \E slots \in SUBSET stray :
       world' = (world \ At(addr)) \cup {Account(addr, code, slots \cup loc)}
  /\ stray' \subseteq stray

Remove(addr) ==
  /\ At(addr) # {}
  /\ world' = world \ At(addr) /\ UNCHANGED stray

\* A change of the account at an address, and of no other
Change(a, b) == world' = (world \ {a}) \cup {b} /\ UNCHANGED stray

SetCode(addr, hash) ==
  /\ Writable(addr)
  /\ \E a \in At(addr) : a.code = NoCode /\ Change(a, [a EXCEPT !.code = hash])

SetSlot(addr, loc) ==
  \E a \in At(addr) : \/ Change(a, [a EXCEPT !.slots = @ \cup {loc}])
                      \/ Change(a, [a EXCEPT !.slots = @ \ {loc}])

SetFrozen(addr, value) == \E a \in At(addr) : Change(a, [a EXCEPT !.frozen = value])

\* What the EVM asks for
Transaction(addr) ==
  /\ writing /\ writing' = TRUE /\ Writable(addr)
  /\ \/ At(addr) = {} /\ \E loc \in Locations : Create(addr, NoCode, {loc})
     \/ Create(addr, NoCode, {})
     \/ Remove(addr)
     \/ \E hash \in CodeHashes : \/ At(addr) = {} /\ Create(addr, hash, {})
                                 \/ SetCode(addr, hash)
     \/ \E loc \in Locations : SetSlot(addr, loc)

\* Administrators do not respect the frozen flag, and can write where there is no
\* account.
Administration ==
  /\ ~writing /\ writing' = FALSE
  /\ \/ \E addr \in Addrs : Remove(addr) \/ \E loc \in Locations : SetSlot(addr, loc)
     \/ \E addr \in Addrs, value \in BOOLEAN : SetFrozen(addr, value)
     \/ UNCHANGED world /\ stray' \subseteq Locations

\* A transaction begins or ends.
Turn == writing' = ~writing /\ UNCHANGED <<world, stray>>

Next == Turn \/ Administration \/ \E addr \in Addrs : Transaction(addr)

Spec == Init /\ [][Next]_<<world, stray, writing>>
=============================================================================
