----------------------------- MODULE StateStore -----------------------------
(***************************************************************************)
(* The tables that hold the EVM state.  An account row has an id, which    *)
(* also names its storage table, and may refer to a code row that several  *)
(* accounts share.  A removed account leaves its storage table behind for  *)
(* the garbage collection, which works in portions of a limited size.      *)
(*                                                                         *)
(* A transaction writes through one state object: the EVM calls            *)
(* update_account, update_account_code and update_storage on it, and its   *)
(* destructor saves the id counter.  Every call is a step here.  A         *)
(* transaction that fails half way leaves the tables as they were before   *)
(* it, which is a state already reached.  Nonces, balances and the values  *)
(* in storage are left out: no branch of these operations reads them.      *)
(***************************************************************************)
EXTENDS Integers, Sequences, FiniteSets, FiniteSetsExt, Functions

CONSTANTS Addrs,      \* EVM addresses
          CodeHashes, \* hashes of contract codes
          Locations,  \* storage locations
          Portions,   \* what gc is called with
          MaxId       \* bound of the exploration: account ids given out

ASSUME StateStoreAssumption ==
  MaxId \in Nat /\ Portions \subseteq Nat

None == -1

Ids == 0 .. (MaxId - 1)

VARIABLES
  accounts,   \* account table: id -> address, code_id, frozen flag
  codes,      \* accountcode table: id -> hash, ref_count
  storage,    \* storage tables: account id -> locations with a value
  gcstore,    \* gcstore table: the storage ids, in the order of the rows
  config2,    \* next_account_id of the config2 singleton, None if not set
  cached,     \* _config2 of the state object
  writing,    \* a state object is being written to
  byHand      \* history: storage tables of no account that rmgcstore has taken
              \* from the queue or setkvstore has written to

vars == <<accounts, codes, storage, gcstore, config2, cached, writing, byHand>>

\* A new deployment
Init ==
  /\ accounts = <<>> /\ codes = <<>> /\ gcstore = <<>>
  /\ storage = [id \in Ids |-> {}]
  /\ config2 = None /\ cached = None
  /\ writing = FALSE /\ byHand = {}

Rows(addr) == {id \in DOMAIN accounts : accounts[id].addr = addr}
Without(table, key) == Restrict(table, DOMAIN table \ {key})

\* available_primary_key of a table
AvailableKey(table) == IF DOMAIN table = {} THEN 0 ELSE Max(DOMAIN table) + 1

\* The id as it was before there was a counter
NextAccountIdUncounted(rows) == AvailableKey(rows)

\* get_next_account_id
NextAccountId(rows) ==
  CASE cached # None -> cached
    [] cached = None /\ config2 # None -> config2
    [] OTHER -> AvailableKey(rows)

Emplace(rows, addr, code) ==
  LET new == NextAccountId(rows)
  IN  /\ new \in Ids
      /\ accounts' = [id \in DOMAIN rows \cup {new} |->
                        IF id = new THEN [addr |-> addr, code |-> code, frozen |-> FALSE]
                        ELSE rows[id]]
      /\ cached' = new + 1

\* One reference to a code less, without looking at the others
CodesErased(id) == IF id = None THEN codes ELSE Without(codes, id)

\* One reference to a code less: the last one erases the row.
CodesReleased(id) ==
  CASE id = None -> codes
    [] id # None /\ codes[id].refs - 1 # 0 -> [codes EXCEPT ![id].refs = @ - 1]
    [] OTHER -> Without(codes, id)

\* Forgets the storage table
QueueUnchanged(id) == gcstore

QueueForCollection(id) == Append(gcstore, id)

\* remove_account of update_account, and the same lines in rmaccount
Removal(id) ==
  /\ accounts[id].code # None => accounts[id].code \in DOMAIN codes
  /\ codes' = CodesReleased(accounts[id].code)
  /\ gcstore' = QueueForCollection(id)

-----------------------------------------------------------------------------
(* The EVM writes the changes of a transaction.  Neither update_account    *)
(* nor the others look at the flag: silkworm has read every account that   *)
(* it writes, and reading a frozen one fails (read_account).               *)

\* Does not look at the flag
WritableFrozen(addr) == writing

Writable(addr) == writing /\ \A id \in Rows(addr) : ~accounts[id].frozen

BeginWrite ==
  /\ ~writing /\ writing' = TRUE
  /\ UNCHANGED <<accounts, codes, storage, gcstore, config2, cached, byHand>>

\* Forgets the counter of the state object
ConfigUnsaved == config2

\* ~state
ConfigSaved == IF cached = None THEN config2 ELSE cached

EndWrite ==
  /\ writing /\ writing' = FALSE
  /\ config2' = ConfigSaved /\ cached' = None
  /\ UNCHANGED <<accounts, codes, storage, gcstore, byHand>>

\* update_account with a current value: a new row, a new row in the place of one
\* with another incarnation, or new values in the row, which are not modelled.
UpdateAccount(addr, reincarnated) ==
  /\ Writable(addr)
  /\ \/ /\ Rows(addr) = {}
        /\ Emplace(accounts, addr, None)
        /\ UNCHANGED <<codes, gcstore>>
     \/ \E id \in Rows(addr) :
          /\ reincarnated
          /\ Removal(id)
          /\ Emplace(Without(accounts, id), addr, None)
     \/ /\ Rows(addr) # {} /\ ~reincarnated
        /\ UNCHANGED <<accounts, codes, gcstore, cached>>
  /\ UNCHANGED <<storage, config2, writing, byHand>>

\* update_account without a current value
RemoveAccount(addr) ==
  /\ Writable(addr)
  /\ \E id \in Rows(addr) : Removal(id) /\ accounts' = Without(accounts, id)
  /\ UNCHANGED <<storage, config2, cached, writing, byHand>>

CodeIds(hash) == {c \in DOMAIN codes : codes[c].hash = hash}

\* Never looks for a code that is already there
CodeIdNew(hash) == {AvailableKey(codes)}

CodeId(hash) == IF CodeIds(hash) = {} THEN {AvailableKey(codes)} ELSE CodeIds(hash)

\* update_account_code: finds or makes the code row, and refers to it from the
\* account row, which is made if needed.  The EVM sets the code of an account
\* only when it creates it.
UpdateAccountCode(addr, hash) ==
  /\ Writable(addr) /\ \A id \in Rows(addr) : accounts[id].code = None
  /\ \E c \in CodeId(hash) :
       /\ codes' = [k \in DOMAIN codes \cup {c} |->
                      CASE k # c -> codes[k]
                        [] k = c /\ c \in DOMAIN codes -> [codes[c] EXCEPT !.refs = @ + 1]
                        [] OTHER -> [hash |-> hash, refs |-> 1]]
       /\ \/ Rows(addr) = {} /\ Emplace(accounts, addr, c)
          \/ /\ \E id \in Rows(addr) : accounts' = [accounts EXCEPT ![id].code = c]
             /\ UNCHANGED cached
  /\ UNCHANGED <<storage, gcstore, config2, writing, byHand>>

\* update_storage with a value, which makes the account row if needed, and with
\* zero, which erases the storage row.
StoreValue(addr, loc) ==
  /\ Writable(addr)
  /\ \/ /\ Rows(addr) = {}
        /\ Emplace(accounts, addr, None)
        /\ storage' = [storage EXCEPT ![NextAccountId(accounts)] = @ \cup {loc}]
     \/ \E id \in Rows(addr) :
          /\ storage' = [storage EXCEPT ![id] = @ \cup {loc}]
          /\ UNCHANGED <<accounts, cached>>
  /\ UNCHANGED <<codes, gcstore, config2, writing, byHand>>
StoreZero(addr, loc) ==
  /\ Writable(addr)
  /\ \E id \in Rows(addr) : storage' = [storage EXCEPT ![id] = @ \ {loc}]
  /\ UNCHANGED <<accounts, codes, gcstore, config2, cached, writing, byHand>>

-----------------------------------------------------------------------------
(* Garbage collection *)

\* What it takes to collect the first k tables: their rows and the gcstore rows.
Cost(k) == MapThenSumSet(LAMBDA i : Cardinality(storage[gcstore[i]]) + 1, 1..k)

\* Keeps the row of a table in which there was nothing to erase
WithinPortionNonEmpty(k, max) == Cost(k) <= max /\ storage[gcstore[k]] # {}

\* gcstore row k is reached and erased with a portion of max
WithinPortion(k, max) == Cost(k) <= max

\* gc: collects whole tables in the order of the queue, then as many rows of the
\* next table as the portion still allows, in the order of their keys (any, here).
Gc(max) ==
  /\ ~writing
  /\ \E n \in 0 .. Len(gcstore) :
       /\ n > 0 => WithinPortion(n, max)
       /\ n < Len(gcstore) => ~WithinPortion(n + 1, max)
       /\ \E left \in (IF n = Len(gcstore) THEN {{}} ELSE SUBSET storage[gcstore[n + 1]]) :
            /\ n < Len(gcstore) =>
                 Cardinality(storage[gcstore[n + 1]]) - Cardinality(left)
                   = Min({max - Cost(n), Cardinality(storage[gcstore[n + 1]])})
            /\ storage' = [id \in Ids |->
                 IF \E i \in 1..n : gcstore[i] = id THEN {}
                 ELSE IF n < Len(gcstore) /\ gcstore[n + 1] = id THEN left
                 ELSE storage[id]]
       /\ gcstore' = SubSeq(gcstore, n + 1, Len(gcstore))
  /\ UNCHANGED <<accounts, codes, config2, cached, writing, byHand>>

-----------------------------------------------------------------------------
(* Administration, between transactions (builds WITH_ADMIN_ACTIONS) *)

\* rmaccount
RmAccount(id) ==
  /\ ~writing /\ id \in DOMAIN accounts
  /\ Removal(id) /\ accounts' = Without(accounts, id)
  /\ UNCHANGED <<storage, config2, cached, writing, byHand>>

\* rmgcstore, of the i-th row
RmGcStore(i) ==
  /\ ~writing
  /\ gcstore' = [j \in 1 .. (Len(gcstore) - 1) |-> gcstore[IF j < i THEN j ELSE j + 1]]
  /\ byHand' = byHand \cup {gcstore[i]}
  /\ UNCHANGED <<accounts, codes, storage, config2, cached, writing>>

\* setkvstore, which does not ask whether the account exists
SetKvStore(id, loc, value) ==
  /\ ~writing
  /\ \/ /\ value
        /\ storage' = [storage EXCEPT ![id] = @ \cup {loc}]
        /\ byHand' = IF id \in DOMAIN accounts THEN byHand ELSE byHand \cup {id}
     \/ /\ ~value /\ loc \in storage[id]
        /\ storage' = [storage EXCEPT ![id] = @ \ {loc}]
        /\ UNCHANGED byHand
  /\ UNCHANGED <<accounts, codes, gcstore, config2, cached, writing>>

\* freezeaccnt
FreezeAccnt(id, value) ==
  /\ ~writing /\ id \in DOMAIN accounts
  /\ accounts' = [accounts EXCEPT ![id].frozen = value]
  /\ UNCHANGED <<codes, storage, gcstore, config2, cached, writing, byHand>>

Next ==
  \/ BeginWrite \/ EndWrite
  \/ \E addr \in Addrs, reincarnated \in BOOLEAN : UpdateAccount(addr, reincarnated)
  \/ \E addr \in Addrs : RemoveAccount(addr)
  \/ \E addr \in Addrs, hash \in CodeHashes : UpdateAccountCode(addr, hash)
  \/ \E addr \in Addrs, loc \in Locations : StoreValue(addr, loc) \/ StoreZero(addr, loc)
  \/ \E max \in Portions : Gc(max)
  \/ \E id \in Ids : RmAccount(id)
  \/ \E i \in DOMAIN gcstore : RmGcStore(i)
  \/ \E id \in Ids, loc \in Locations, value \in BOOLEAN : SetKvStore(id, loc, value)
  \/ \E id \in Ids, value \in BOOLEAN : FreezeAccnt(id, value)

Spec == Init /\ [][Next]_vars

\* Transactions end, and the operator repeats gc with a positive portion as long
\* as there is something to collect.  Transactions of others come in between, so
\* it is enough that gc gets its turn again and again: strong fairness.
Collecting == gcstore # <<>> /\ \E max \in Portions \ {0} : Gc(max)
FairSpec == Spec /\ WF_vars(EndWrite) /\ SF_vars(Collecting)

-----------------------------------------------------------------------------
(* Properties *)

Queued == Range(gcstore)

\* The tables are well formed, with one account row per address and one code row
\* per hash, which the lookups by address and by hash rely on.
TypeOK ==
  /\ DOMAIN accounts \subseteq Ids
  /\ \A id \in DOMAIN accounts :
       /\ accounts[id].addr \in Addrs /\ accounts[id].frozen \in BOOLEAN
       /\ Rows(accounts[id].addr) = {id}
  /\ \A c \in DOMAIN codes : CodeIds(codes[c].hash) = {c}
  /\ storage \in [Ids -> SUBSET Locations]
  /\ Queued \subseteq Ids /\ byHand \subseteq Ids
  /\ writing \in BOOLEAN /\ (cached # None => writing)

\* The storage table of a live account is never one that waits for collection,
\* and none waits twice: so gc never erases storage that is in use, however
\* removals, re-creations and portions of gc are interleaved.
StorageUnshared ==
  /\ DOMAIN accounts \cap Queued = {}
  /\ \A i, j \in DOMAIN gcstore : gcstore[i] = gcstore[j] => i = j

\* No storage is leaked: a table with values is of a live account, or waits for
\* collection, or rmgcstore or setkvstore has put it out of reach.
NoLeak == \A id \in Ids : storage[id] # {} => id \in DOMAIN accounts \cup Queued \cup byHand

\* A new account starts with empty storage, also at an address that had an account
\* before: get_next_account_id gives no id twice.  Only setkvstore can fill the
\* table of an account that does not exist yet.
NewAccountsEmpty ==
  [][\A id \in DOMAIN accounts' \ DOMAIN accounts : storage[id] = {} \/ id \in byHand]_vars

\* ref_count is the number of accounts that refer to the code, and no account
\* refers to a code that is gone: "code not found" never happens, nor the case
\* read_account says should not be reached.
CodesCounted ==
  \A c \in (DOMAIN codes \cup {accounts[id].code : id \in DOMAIN accounts}) \ {None} :
    /\ c \in DOMAIN codes
    /\ codes[c].refs = Cardinality({id \in DOMAIN accounts : accounts[id].code = c})
    /\ codes[c].refs > 0

\* Repeated calls of gc collect every discarded table, however small the portion,
\* unless setkvstore goes on writing to a table in the queue.
AllCollected ==
  \A id \in Ids : id \in Queued ~> (id \notin Queued \/ Queued \cap byHand # {})

-----------------------------------------------------------------------------
(* What the EVM reads *)

\* read_account: the code hash, or that of the empty code, also if the row is gone
CodeHash(id) ==
  IF accounts[id].code \in DOMAIN codes THEN codes[accounts[id].code].hash ELSE None

\* read_account and read_storage of every address.  The caches of the state object
\* are left out: the EVM has read what it needs before it writes.
World == {[addr |-> accounts[id].addr, code |-> CodeHash(id), slots |-> storage[id],
           frozen |-> accounts[id].frozen] : id \in DOMAIN accounts}

\* What is stored under ids of no account and not waiting for collection
Stray == UNION {storage[id] : id \in Ids \ (DOMAIN accounts \cup Queued)}

EVM == INSTANCE EvmState WITH world <- World, stray <- Stray, NoCode <- None

\* Ids, shared codes and garbage collection cannot be seen: the accounts as the
\* EVM reads them change only as it, or an administrator, asks, and each call
\* changes one of them.
ImplementsEvmState == EVM!Spec
=============================================================================
