-------------------------- MODULE StateStoreProofs --------------------------
(***************************************************************************)
(* Proofs about StateStore, for any addresses, codes, locations, portions  *)
(* and number of ids.  The invariant Inv says that the id counter,         *)
(* wherever it is kept at the moment, is above every id that names a live  *)
(* or a waiting storage table; Fit, that reference counts are exact and    *)
(* the tables well formed, which is what the refinement of EvmState needs. *)
(***************************************************************************)
EXTENDS StateStore, FiniteSetTheorems, TLAPS

Given == DOMAIN accounts \cup Queued

CounterAbove ==
  /\ cached # None => \A id \in Given : id < cached
  /\ cached = None /\ config2 # None => \A id \in Given : id < config2
  /\ cached = None /\ config2 = None => Given = {}

TablesOK ==
  /\ DOMAIN accounts \subseteq Ids
  /\ gcstore \in Seq(Ids)
  /\ storage \in [Ids -> SUBSET Locations]
  /\ cached \in Nat \cup {None} /\ config2 \in Nat \cup {None}

Inv == TablesOK /\ CounterAbove /\ StorageUnshared /\ NoLeak

\* A row is emplaced under an id that names no live and no waiting table.
LEMMA Emplaced ==
  ASSUME Inv, NEW rows, NEW addr, NEW code, Emplace(rows, addr, code),
         DOMAIN rows \subseteq DOMAIN accounts,
         rows = accounts \/ DOMAIN accounts # {}
  PROVE  \E new \in Ids : /\ new = NextAccountId(rows) /\ new \notin Given
                          /\ DOMAIN accounts' = DOMAIN rows \cup {new}
                          /\ cached' = new + 1 /\ cached' \in Nat
                          /\ \A id \in Given : id < new
<1> DEFINE new == NextAccountId(rows)
<1>1. new \in Ids /\ cached' = new + 1 /\ DOMAIN accounts' = DOMAIN rows \cup {new}
  BY Zenon DEF Emplace
<1>2. \A id \in Given : id < new
  <2>1. CASE cached # None
    BY <2>1, Zenon DEF NextAccountId, Inv, CounterAbove
  <2>2. CASE cached = None /\ config2 # None
    BY <2>2, Zenon DEF NextAccountId, Inv, CounterAbove
  <2>3. CASE cached = None /\ config2 = None
    BY <2>3, Zenon DEF Inv, CounterAbove
  <2> QED BY <2>1, <2>2, <2>3, Zenon
<1>3. new + 1 \in Nat /\ new \in Int
  BY <1>1, StateStoreAssumption DEF Ids
<1>4. new \notin Given
  BY <1>2, <1>3
<1> QED BY <1>1, <1>2, <1>3, <1>4, Zenon

\* The ids in use are numbers.
LEMMA GivenNumbers ==
  ASSUME Inv
  PROVE  Given \subseteq Ids /\ Ids \subseteq Int
<1>1. Ids \subseteq Int
  BY DEF Ids
<1>2. gcstore \in Seq(Ids) /\ DOMAIN accounts \subseteq Ids
  BY Zenon DEF Inv, TablesOK
<1>3. Queued \subseteq Ids
  BY <1>2 DEF Queued, Range
<1> QED BY <1>1, <1>2, <1>3, Zenon DEF Given

\* A removed account's table joins the queue at its end.
LEMMA Removed ==
  ASSUME Inv, NEW id \in DOMAIN accounts, Removal(id)
  PROVE  /\ gcstore' \in Seq(Ids) /\ Queued' = Queued \cup {id}
         /\ \A i, j \in DOMAIN gcstore' : gcstore'[i] = gcstore'[j] => i = j
<1>1. gcstore \in Seq(Ids) /\ id \in Ids /\ gcstore' = Append(gcstore, id)
  BY Zenon DEF Inv, TablesOK, Removal, QueueForCollection
<1>2. /\ gcstore' \in Seq(Ids) /\ Len(gcstore') = Len(gcstore) + 1 /\ Len(gcstore) \in Nat
      /\ DOMAIN gcstore = 1 .. Len(gcstore) /\ DOMAIN gcstore' = 1 .. (Len(gcstore) + 1)
      /\ \A i \in 1 .. Len(gcstore) : gcstore'[i] = gcstore[i]
      /\ gcstore'[Len(gcstore) + 1] = id
  BY <1>1
<1>3. Queued' = Queued \cup {id}
  BY <1>2 DEF Queued, Range
<1>4. \A i \in DOMAIN gcstore : gcstore[i] # id
  BY Zenon DEF Inv, StorageUnshared, Queued, Range
<1>5. \A i, j \in DOMAIN gcstore : gcstore[i] = gcstore[j] => i = j
  BY Zenon DEF Inv, StorageUnshared
<1>6. \A i, j \in DOMAIN gcstore' : gcstore'[i] = gcstore'[j] => i = j
  <2> TAKE i, j \in DOMAIN gcstore'
  <2> QED BY <1>2, <1>4, <1>5
<1> QED BY <1>2, <1>3, <1>6, Zenon

\* Steps that give out no id keep the counter above the ids in use.
LEMMA CounterKept ==
  ASSUME Inv, UNCHANGED <<cached, config2>>, Given' \subseteq Given
  PROVE  CounterAbove'
BY Zenon DEF Inv, CounterAbove, None

\* A new row, with the queue unchanged, and possibly a first value in its table.
LEMMA Creates ==
  ASSUME Inv, NEW addr, NEW code, Emplace(accounts, addr, code),
         UNCHANGED <<gcstore, config2, byHand>>,
         storage' \in [Ids -> SUBSET Locations],
         \A id \in Ids : storage'[id] # storage[id] => id = NextAccountId(accounts)
  PROVE  Inv'
<1>1. PICK new \in Ids : /\ new = NextAccountId(accounts) /\ new \notin Given
                         /\ DOMAIN accounts' = DOMAIN accounts \cup {new}
                         /\ cached' = new + 1 /\ cached' \in Nat
                         /\ \A id \in Given : id < new
  BY Emplaced, Zenon
<1>2. Queued' = Queued
  BY Zenon DEF Queued
<1>3. new \in Int /\ \A id \in Given : id \in Int
  BY GivenNumbers, Zenon
<1>4. TablesOK'
  BY <1>1, Zenon DEF Inv, TablesOK
<1>5. CounterAbove'
  <2>1. Given' = Given \cup {new}
    BY <1>1, <1>2, Zenon DEF Given
  <2>2. cached' # None
    BY <1>1 DEF None
  <2>3. \A id \in Given' : id < cached'
    BY <1>1, <1>3, <2>1
  <2> QED BY <2>2, <2>3, Zenon DEF CounterAbove
<1>6. StorageUnshared'
  BY <1>1, <1>2 DEF Inv, StorageUnshared, Given
<1>7. NoLeak'
  BY <1>1, <1>2, Zenon DEF Inv, NoLeak
<1> QED BY <1>4, <1>5, <1>6, <1>7, Zenon DEF Inv

\* An account is removed and none takes its place.
LEMMA Discards ==
  ASSUME Inv, NEW id \in DOMAIN accounts, Removal(id), accounts' = Without(accounts, id),
         UNCHANGED <<storage, config2, cached, byHand>>
  PROVE  Inv'
<1>1. /\ gcstore' \in Seq(Ids) /\ Queued' = Queued \cup {id}
      /\ \A i, j \in DOMAIN gcstore' : gcstore'[i] = gcstore'[j] => i = j
  BY Removed, Zenon
<1>2. DOMAIN accounts' = DOMAIN accounts \ {id}
  BY Zenon DEF Without, Restrict
<1>3. TablesOK'
  BY <1>1, <1>2, Zenon DEF Inv, TablesOK
<1>4. CounterAbove'
  BY <1>1, <1>2, CounterKept, Zenon DEF Given
<1>5. StorageUnshared'
  BY <1>1, <1>2, Zenon DEF Inv, StorageUnshared
<1>6. NoLeak'
  BY <1>1, <1>2, Zenon DEF Inv, NoLeak
<1> QED BY <1>3, <1>4, <1>5, <1>6, Zenon DEF Inv

\* An account is removed and one with another id takes its address.
LEMMA Replaces ==
  ASSUME Inv, NEW id \in DOMAIN accounts, Removal(id), NEW addr,
         Emplace(Without(accounts, id), addr, None), UNCHANGED <<storage, config2, byHand>>
  PROVE  Inv'
<1>1. /\ gcstore' \in Seq(Ids) /\ Queued' = Queued \cup {id}
      /\ \A i, j \in DOMAIN gcstore' : gcstore'[i] = gcstore'[j] => i = j
  BY Removed, Zenon
<1> DEFINE rows == Without(accounts, id)
<1>2. DOMAIN rows = DOMAIN accounts \ {id}
  BY Zenon DEF Without, Restrict
<1>3. DOMAIN rows \subseteq DOMAIN accounts /\ DOMAIN accounts # {}
  BY <1>2, Zenon
<1> HIDE DEF rows
<1>4. Emplace(rows, addr, None)
  BY Zenon DEF rows
<1>5. PICK new \in Ids : /\ new = NextAccountId(rows) /\ new \notin Given
                         /\ DOMAIN accounts' = DOMAIN rows \cup {new}
                         /\ cached' = new + 1 /\ cached' \in Nat
                         /\ \A k \in Given : k < new
  BY <1>3, <1>4, Emplaced, Zenon
<1>6. new \in Int /\ \A k \in Given : k \in Int
  BY GivenNumbers, Zenon
<1>7. TablesOK'
  BY <1>1, <1>2, <1>5, Zenon DEF Inv, TablesOK
<1>8. CounterAbove'
  <2>1. Given' = Given \cup {new}
    BY <1>1, <1>2, <1>5, Zenon DEF Given
  <2>2. cached' # None
    BY <1>5 DEF None
  <2>3. \A k \in Given' : k < cached'
    BY <1>5, <1>6, <2>1
  <2> QED BY <2>2, <2>3, Zenon DEF CounterAbove
<1>9. StorageUnshared'
  BY <1>1, <1>2, <1>5, Zenon DEF Inv, StorageUnshared, Given
<1>10. NoLeak'
  BY <1>1, <1>2, <1>5, Zenon DEF Inv, NoLeak
<1> QED BY <1>7, <1>8, <1>9, <1>10, Zenon DEF Inv

\* What is left of a queue without its first n elements.
Distinct(q) == \A i, j \in DOMAIN q : q[i] = q[j] => i = j

IsRest(S, q, n, r) ==
  /\ r \in Seq(S) /\ Range(r) \subseteq Range(q) /\ Distinct(r)
  /\ \A x \in Range(q) \ Range(r) : \E i \in 1..n : q[i] = x

\* Cutting off the front of a queue leaves out only what was there.
LEMMA Rest ==
  ASSUME NEW S, NEW q \in Seq(S), NEW n \in 0 .. Len(q), Distinct(q)
  PROVE  IsRest(S, q, n, SubSeq(q, n + 1, Len(q)))
<1> DEFINE r == SubSeq(q, n + 1, Len(q))
<1>1. /\ Len(q) \in Nat /\ n \in Nat /\ n <= Len(q)
      /\ DOMAIN q = 1 .. Len(q) /\ \A i \in DOMAIN q : q[i] \in S
  OBVIOUS
<1>2. r \in Seq(S)
  BY <1>1
<1>3. DOMAIN r = 1 .. (Len(q) - n) /\ \A i \in 1 .. (Len(q) - n) : r[i] = q[i + n]
  BY <1>1
<1> HIDE DEF r
<1>4. \A i \in DOMAIN r : i + n \in DOMAIN q /\ r[i] = q[i + n]
  BY <1>1, <1>3
<1>5. Range(r) \subseteq Range(q)
  BY <1>4, Zenon DEF Range
<1>6. ASSUME NEW x \in Range(q), x \notin Range(r)
      PROVE  \E i \in 1..n : q[i] = x
  <2>1. PICK i \in DOMAIN q : q[i] = x
    BY Zenon DEF Range
  <2>2. i > n => i - n \in DOMAIN r /\ r[i - n] = q[i]
    BY <1>1, <1>3
  <2>3. ~(i > n)
    BY <1>6, <2>1, <2>2, Zenon DEF Range
  <2> QED BY <1>1, <2>1, <2>3
<1>7. \A i, j \in DOMAIN r : r[i] = r[j] => i = j
  <2> TAKE i, j \in DOMAIN r
  <2> HAVE r[i] = r[j]
  <2>1. i + n = j + n
    BY <1>4, Zenon DEF Distinct
  <2> QED BY <1>1, <1>3, <2>1
<1> QED BY <1>2, <1>5, <1>6, <1>7, Zenon DEF r, IsRest, Distinct

\* Garbage collection takes tables from the front of the queue, and those it
\* takes are empty afterwards.
LEMMA Collects ==
  ASSUME Inv, NEW max \in Portions, Gc(max)
  PROVE  Inv'
<1>1. PICK n \in 0 .. Len(gcstore) :
        \E left \in (IF n = Len(gcstore) THEN {{}} ELSE SUBSET storage[gcstore[n + 1]]) :
          /\ storage' = [id \in Ids |->
               IF \E i \in 1..n : gcstore[i] = id THEN {}
               ELSE IF n < Len(gcstore) /\ gcstore[n + 1] = id THEN left
               ELSE storage[id]]
          /\ gcstore' = SubSeq(gcstore, n + 1, Len(gcstore))
  BY Zenon DEF Gc
<1>2. /\ gcstore \in Seq(Ids) /\ Len(gcstore) \in Nat /\ n \in Nat /\ n <= Len(gcstore)
      /\ DOMAIN gcstore = 1 .. Len(gcstore) /\ \A i \in DOMAIN gcstore : gcstore[i] \in Ids
  BY DEF Inv, TablesOK
<1>3. gcstore' = SubSeq(gcstore, n + 1, Len(gcstore))
  BY <1>1, Zenon
<1>4. /\ gcstore' \in Seq(Ids) /\ Queued' \subseteq Queued
      /\ \A id \in Queued \ Queued' : \E i \in 1..n : gcstore[i] = id
      /\ \A i, j \in DOMAIN gcstore' : gcstore'[i] = gcstore'[j] => i = j
  <2>1. Distinct(gcstore)
    BY Zenon DEF Inv, StorageUnshared, Distinct
  <2>2. IsRest(Ids, gcstore, n, SubSeq(gcstore, n + 1, Len(gcstore)))
    BY <1>2, <2>1, Rest, Zenon
  <2>3. IsRest(Ids, gcstore, n, gcstore')
    BY <1>3, <2>2, Zenon
  <2> QED BY <2>3, Zenon DEF IsRest, Distinct, Queued
<1>5. PICK left \in (IF n = Len(gcstore) THEN {{}} ELSE SUBSET storage[gcstore[n + 1]]) :
        storage' = [id \in Ids |->
               IF \E i \in 1..n : gcstore[i] = id THEN {}
               ELSE IF n < Len(gcstore) /\ gcstore[n + 1] = id THEN left
               ELSE storage[id]]
  BY <1>1, Zenon
<1>6. \A id \in Ids : /\ storage'[id] \subseteq storage[id]
                      /\ (\E i \in 1..n : gcstore[i] = id) => storage'[id] = {}
  BY <1>2, <1>5, Zenon
<1>7. UNCHANGED <<accounts, config2, cached, byHand>>
  BY Zenon DEF Gc
<1>8. TablesOK'
  <2>1. storage' \in [Ids -> SUBSET Locations]
    BY <1>5, <1>6, Zenon DEF Inv, TablesOK
  <2> QED BY <1>4, <1>7, <2>1, Zenon DEF Inv, TablesOK
<1>9. CounterAbove'
  BY <1>4, <1>7, CounterKept, Zenon DEF Given
<1>10. StorageUnshared'
  BY <1>4, <1>7, Zenon DEF Inv, StorageUnshared
<1>11. NoLeak'
  BY <1>6, <1>4, <1>7, Zenon DEF Inv, NoLeak
<1> QED BY <1>8, <1>9, <1>10, <1>11, Zenon DEF Inv

\* rmgcstore closes the gap it leaves.
LEMMA TakesRow ==
  ASSUME Inv, NEW k \in DOMAIN gcstore, RmGcStore(k)
  PROVE  Inv'
<1>1. /\ gcstore \in Seq(Ids) /\ Len(gcstore) \in Nat /\ k \in 1 .. Len(gcstore)
      /\ DOMAIN gcstore = 1 .. Len(gcstore) /\ \A i \in DOMAIN gcstore : gcstore[i] \in Ids
  BY DEF Inv, TablesOK
<1>2. gcstore' = [j \in 1 .. (Len(gcstore) - 1) |-> gcstore[IF j < k THEN j ELSE j + 1]]
  BY Zenon DEF RmGcStore
<1>3. /\ DOMAIN gcstore' = 1 .. (Len(gcstore) - 1)
      /\ \A j \in DOMAIN gcstore' : /\ (IF j < k THEN j ELSE j + 1) \in DOMAIN gcstore
                                    /\ gcstore'[j] = gcstore[IF j < k THEN j ELSE j + 1]
  BY <1>1, <1>2
<1>4. gcstore' \in Seq(Ids)
  <2>1. Len(gcstore) - 1 \in Nat /\ gcstore' \in [1 .. (Len(gcstore) - 1) -> Ids]
    BY <1>1, <1>2, <1>3
  <2> QED BY <2>1
<1>5. Queued' \subseteq Queued /\ Queued \subseteq Queued' \cup {gcstore[k]}
  <2>1. \A i \in DOMAIN gcstore :
          i # k => \E j \in DOMAIN gcstore' : gcstore'[j] = gcstore[i]
    <3> TAKE i \in DOMAIN gcstore
    <3> HAVE i # k
    <3>1. CASE i < k
      BY <1>1, <1>3, <3>1
    <3>2. CASE i > k
      <4>1. i - 1 \in DOMAIN gcstore' /\ ~(i - 1 < k) /\ (i - 1) + 1 = i
        BY <1>1, <1>3, <3>2
      <4> QED BY <1>3, <4>1, Zenon
    <3> QED BY <1>1, <3>1, <3>2
  <2> QED BY <1>3, <2>1 DEF Queued, Range
<1>6. /\ UNCHANGED <<accounts, storage, config2, cached>>
      /\ byHand' = byHand \cup {gcstore[k]}
  BY Zenon DEF RmGcStore
<1>7. TablesOK'
  BY <1>4, <1>6, Zenon DEF Inv, TablesOK
<1>8. CounterAbove'
  BY <1>5, <1>6, CounterKept, Zenon DEF Given
<1>9. StorageUnshared'
  <2>1. \A i, j \in DOMAIN gcstore' : gcstore'[i] = gcstore'[j] => i = j
    BY <1>1, <1>3 DEF Inv, StorageUnshared
  <2> QED BY <1>5, <1>6, <2>1, Zenon DEF Inv, StorageUnshared
<1>10. NoLeak'
  BY <1>5, <1>6, Zenon DEF Inv, NoLeak
<1> QED BY <1>7, <1>8, <1>9, <1>10, Zenon DEF Inv

\* The initial tables are empty.
LEMMA Initially == Init => Inv
<1> SUFFICES ASSUME Init PROVE Inv
  BY Zenon
<1>1. DOMAIN accounts = {} /\ DOMAIN gcstore = {} /\ gcstore \in Seq(Ids)
  BY DEF Init
<1>2. Queued = {}
  BY <1>1, Zenon DEF Queued, Range
<1>3. TablesOK
  BY <1>1, Zenon DEF Init, TablesOK
<1>4. CounterAbove
  BY <1>1, <1>2, Zenon DEF Init, CounterAbove, Given
<1>5. StorageUnshared /\ NoLeak
  BY <1>1, <1>2, Zenon DEF Init, StorageUnshared, NoLeak
<1> QED BY <1>3, <1>4, <1>5, Zenon DEF Inv

\* Steps that leave account ids, queue and counters alone, and put values only
\* in tables of live accounts or by hand.
LEMMA Writes ==
  ASSUME Inv, DOMAIN accounts' = DOMAIN accounts, UNCHANGED <<gcstore, config2, cached>>,
         byHand \subseteq byHand', storage' \in [Ids -> SUBSET Locations],
         \A id \in Ids : storage'[id] \subseteq storage[id] \/ id \in DOMAIN accounts \cup byHand'
  PROVE  Inv'
<1>1. Queued' = Queued
  BY Zenon DEF Queued
<1>2. TablesOK' /\ StorageUnshared'
  BY <1>1, Zenon DEF Inv, TablesOK, StorageUnshared
<1>3. CounterAbove'
  BY <1>1, CounterKept, Zenon DEF Given
<1>4. NoLeak'
  BY <1>1, Zenon DEF Inv, NoLeak
<1> QED BY <1>2, <1>3, <1>4, Zenon DEF Inv

\* Every step preserves the invariant.
LEMMA Inductive == Inv /\ [Next]_vars => Inv'
<1> SUFFICES ASSUME Inv, [Next]_vars PROVE Inv'
  BY Zenon
<1>0. storage \in [Ids -> SUBSET Locations] /\ DOMAIN accounts \subseteq Ids
  BY Zenon DEF Inv, TablesOK
<1>1. CASE BeginWrite
  BY <1>0, <1>1, Writes, Zenon DEF BeginWrite
<1>2. CASE EndWrite
  <2>1. UNCHANGED <<accounts, storage, gcstore, byHand, Given, Queued>>
    BY <1>2, Zenon DEF EndWrite, Given, Queued
  <2>2. config2' = (IF cached = None THEN config2 ELSE cached) /\ cached' = None
    BY <1>2, Zenon DEF EndWrite, ConfigSaved
  <2>3. TablesOK'
    BY <2>1, <2>2, Zenon DEF Inv, TablesOK
  <2>4. CounterAbove'
    BY <2>1, <2>2, Zenon DEF Inv, CounterAbove
  <2>5. StorageUnshared' /\ NoLeak'
    BY <2>1, Zenon DEF Inv, StorageUnshared, NoLeak
  <2> QED BY <2>3, <2>4, <2>5, Zenon DEF Inv
<1>3. ASSUME NEW addr \in Addrs, NEW reincarnated \in BOOLEAN, UpdateAccount(addr, reincarnated)
      PROVE  Inv'
  <2>1. UNCHANGED <<storage, config2, byHand>>
    BY <1>3, Zenon DEF UpdateAccount
  <2>2. CASE Emplace(accounts, addr, None) /\ UNCHANGED gcstore
    BY <1>0, <2>1, <2>2, Creates, Zenon
  <2>3. ASSUME NEW id \in Rows(addr), Removal(id), Emplace(Without(accounts, id), addr, None)
        PROVE  Inv'
    BY <2>1, <2>3, Replaces, Zenon DEF Rows
  <2>4. CASE UNCHANGED <<accounts, gcstore, cached>>
    BY <1>0, <2>1, <2>4, Writes, Zenon
  <2> QED BY <1>3, <2>2, <2>3, <2>4, Zenon DEF UpdateAccount
<1>4. ASSUME NEW addr \in Addrs, RemoveAccount(addr)
      PROVE  Inv'
  BY <1>4, Discards, Zenon DEF RemoveAccount, Rows
<1>5. ASSUME NEW addr \in Addrs, NEW hash \in CodeHashes, UpdateAccountCode(addr, hash)
      PROVE  Inv'
  <2>1. UNCHANGED <<storage, gcstore, config2, byHand>>
    BY <1>5, Zenon DEF UpdateAccountCode
  <2>2. ASSUME NEW c, Emplace(accounts, addr, c)
        PROVE  Inv'
    BY <1>0, <2>1, <2>2, Creates, Zenon
  <2>3. ASSUME NEW c, NEW id \in Rows(addr), accounts' = [accounts EXCEPT ![id].code = c],
               UNCHANGED cached
        PROVE  Inv'
    <3>1. DOMAIN accounts' = DOMAIN accounts
      BY <2>3, Zenon
    <3> QED BY <1>0, <2>1, <2>3, <3>1, Writes, Zenon
  <2> QED BY <1>5, <2>2, <2>3, Zenon DEF UpdateAccountCode
<1>6. ASSUME NEW addr \in Addrs, NEW loc \in Locations, StoreValue(addr, loc)
      PROVE  Inv'
  <2>1. UNCHANGED <<gcstore, config2, byHand>>
    BY <1>6, Zenon DEF StoreValue
  <2>2. CASE /\ Emplace(accounts, addr, None)
             /\ storage' = [storage EXCEPT ![NextAccountId(accounts)] = @ \cup {loc}]
    <3> DEFINE new == NextAccountId(accounts)
    <3>1. new \in Ids
      BY <2>2, Zenon DEF Emplace
    <3> HIDE DEF new
    <3>2. storage' = [storage EXCEPT ![new] = @ \cup {loc}]
      BY <2>2, Zenon DEF new
    <3>3. /\ storage' \in [Ids -> SUBSET Locations]
          /\ \A id \in Ids : storage'[id] # storage[id] => id = new
      BY <1>0, <3>1, <3>2, Zenon
    <3> QED BY <2>1, <2>2, <3>3, Creates, Zenon DEF new
  <2>3. ASSUME NEW id \in Rows(addr), storage' = [storage EXCEPT ![id] = @ \cup {loc}],
               UNCHANGED <<accounts, cached>>
        PROVE  Inv'
    <3>1. id \in DOMAIN accounts
      BY Zenon DEF Rows
    <3>2. /\ storage' \in [Ids -> SUBSET Locations]
          /\ \A k \in Ids : storage'[k] \subseteq storage[k] \/ k \in DOMAIN accounts
      BY <1>0, <2>3, <3>1, Zenon
    <3> QED BY <2>1, <2>3, <3>2, Writes, Zenon
  <2> QED BY <1>6, <2>2, <2>3, Zenon DEF StoreValue
<1>7. ASSUME NEW addr \in Addrs, NEW loc \in Locations, StoreZero(addr, loc)
      PROVE  Inv'
  <2>1. PICK id \in Rows(addr) : storage' = [storage EXCEPT ![id] = @ \ {loc}]
    BY <1>7, Zenon DEF StoreZero
  <2>2. /\ storage' \in [Ids -> SUBSET Locations]
        /\ \A k \in Ids : storage'[k] \subseteq storage[k]
    BY <1>0, <2>1, Zenon DEF Rows
  <2> QED BY <1>7, <2>2, Writes, Zenon DEF StoreZero
<1>8. ASSUME NEW id \in Ids, RmAccount(id)
      PROVE  Inv'
  BY <1>8, Discards, Zenon DEF RmAccount
<1>9. ASSUME NEW id \in Ids, NEW loc \in Locations, NEW value \in BOOLEAN,
             SetKvStore(id, loc, value)
      PROVE  Inv'
  <2>1. UNCHANGED <<accounts, gcstore, config2, cached>>
    BY <1>9, Zenon DEF SetKvStore
  <2>2. CASE /\ storage' = [storage EXCEPT ![id] = @ \cup {loc}]
             /\ byHand' = IF id \in DOMAIN accounts THEN byHand ELSE byHand \cup {id}
    <3>1. /\ storage' \in [Ids -> SUBSET Locations]
          /\ \A k \in Ids : storage'[k] \subseteq storage[k] \/ k = id
      BY <1>0, <2>2, Zenon
    <3>2. byHand \subseteq byHand' /\ id \in DOMAIN accounts \cup byHand'
      BY <2>2, Zenon
    <3> QED BY <2>1, <3>1, <3>2, Writes, Zenon
  <2>3. CASE storage' = [storage EXCEPT ![id] = @ \ {loc}] /\ UNCHANGED byHand
    <3>1. /\ storage' \in [Ids -> SUBSET Locations]
          /\ \A k \in Ids : storage'[k] \subseteq storage[k]
      BY <1>0, <2>3, Zenon
    <3> QED BY <2>1, <2>3, <3>1, Writes, Zenon
  <2> QED BY <1>9, <2>2, <2>3, Zenon DEF SetKvStore
<1>10. ASSUME NEW id \in Ids, NEW value \in BOOLEAN, FreezeAccnt(id, value)
       PROVE  Inv'
  <2>1. DOMAIN accounts' = DOMAIN accounts
    BY <1>10, Zenon DEF FreezeAccnt
  <2> QED BY <1>0, <1>10, <2>1, Writes, Zenon DEF FreezeAccnt
<1>11. CASE UNCHANGED vars
  BY <1>0, <1>11, Writes, Zenon DEF vars
<1> QED BY <1>1, <1>2, <1>3, <1>4, <1>5, <1>6, <1>7, <1>8, <1>9, <1>10, <1>11,
           Collects, TakesRow, Zenon DEF Next

\* The invariant holds throughout.
THEOREM Invariance == Spec => []Inv
BY Initially, Inductive, PTL DEF Spec

\* The storage of a live account never waits for collection, and no table waits
\* twice (remove_account, rmaccount, gc and rmgcstore in any order).
THEOREM NeverShared == Spec => []StorageUnshared
<1>1. Inv => StorageUnshared
  BY Zenon DEF Inv
<1> QED BY <1>1, Invariance, PTL

\* Storage that no account owns waits for collection, unless rmgcstore or
\* setkvstore interfered.
THEOREM NothingLeaks == Spec => []NoLeak
<1>1. Inv => NoLeak
  BY Zenon DEF Inv
<1> QED BY <1>1, Invariance, PTL

\* get_next_account_id gives a new account an id whose storage table is empty.
THEOREM StartsEmpty == Spec => NewAccountsEmpty
<1> DEFINE Empty == \A id \in DOMAIN accounts' \ DOMAIN accounts : storage[id] = {} \/ id \in byHand
<1>1. ASSUME Inv, NEW new \in Ids, new \notin Given
      PROVE  storage[new] = {} \/ new \in byHand
  BY <1>1, Zenon DEF Inv, NoLeak, Given
<1>2. ASSUME Inv, NEW rows, NEW addr, NEW code, Emplace(rows, addr, code),
             DOMAIN rows \subseteq DOMAIN accounts,
             rows = accounts \/ DOMAIN accounts # {}
      PROVE  Empty
  <2>1. PICK new \in Ids : new \notin Given /\ DOMAIN accounts' = DOMAIN rows \cup {new}
    BY <1>2, Emplaced, Zenon
  <2> QED BY <1>1, <1>2, <2>1, Zenon
<1>3. Inv /\ [Next]_vars => [Empty]_vars
  <2> SUFFICES ASSUME Inv, [Next]_vars PROVE Empty
    BY Zenon
  <2>1. CASE DOMAIN accounts' \subseteq DOMAIN accounts
    BY <2>1, Zenon
  <2>2. ASSUME NEW addr, NEW code, Emplace(accounts, addr, code)
        PROVE  Empty
    BY <1>2, <2>2, Zenon
  <2>3. ASSUME NEW addr, NEW id \in Rows(addr), Emplace(Without(accounts, id), addr, None)
        PROVE  Empty
    <3>1. DOMAIN Without(accounts, id) \subseteq DOMAIN accounts /\ DOMAIN accounts # {}
      BY Zenon DEF Without, Restrict, Rows
    <3> QED BY <1>2, <2>3, <3>1, Zenon
  <2> HIDE DEF Empty
  <2>4. ASSUME NEW addr \in Addrs, NEW reincarnated \in BOOLEAN, UpdateAccount(addr, reincarnated)
        PROVE  Empty
    BY <2>1, <2>2, <2>3, <2>4, Zenon DEF UpdateAccount
  <2>5. ASSUME NEW addr \in Addrs, NEW hash \in CodeHashes, UpdateAccountCode(addr, hash)
        PROVE  Empty
    <3>1. ASSUME NEW c, NEW id, accounts' = [accounts EXCEPT ![id].code = c]
          PROVE  DOMAIN accounts' \subseteq DOMAIN accounts
      BY <3>1, Zenon
    <3> QED BY <2>1, <2>2, <2>5, <3>1, Zenon DEF UpdateAccountCode
  <2>6. ASSUME NEW addr \in Addrs, NEW loc \in Locations, StoreValue(addr, loc)
        PROVE  Empty
    BY <2>1, <2>2, <2>6, Zenon DEF StoreValue
  <2>7. ASSUME NEW id, accounts' = Without(accounts, id)
        PROVE  DOMAIN accounts' \subseteq DOMAIN accounts
    BY <2>7, Zenon DEF Without, Restrict
  <2>8. ASSUME NEW addr \in Addrs, RemoveAccount(addr)
        PROVE  Empty
    BY <2>1, <2>7, <2>8, Zenon DEF RemoveAccount
  <2>9. ASSUME NEW id \in Ids, RmAccount(id)
        PROVE  Empty
    BY <2>1, <2>7, <2>9, Zenon DEF RmAccount
  <2>10. ASSUME NEW id \in Ids, NEW value \in BOOLEAN, FreezeAccnt(id, value)
         PROVE  Empty
    <3>1. DOMAIN accounts' = DOMAIN accounts
      BY <2>10, Zenon DEF FreezeAccnt
    <3> QED BY <2>1, <3>1, Zenon
  <2>11. CASE UNCHANGED accounts
    BY <2>1, <2>11, Zenon
  <2> QED BY <2>4, <2>5, <2>6, <2>8, <2>9, <2>10, <2>11, Zenon
          DEF Next, vars, BeginWrite, EndWrite, StoreZero, Gc, RmGcStore, SetKvStore
<1> QED BY <1>3, Invariance, PTL DEF Spec, NewAccountsEmpty

-----------------------------------------------------------------------------
(* Reference counts, and the refinement of EvmState *)

\* The accounts in rows that refer to the code c
Refs(rows, c) == {id \in DOMAIN rows : rows[id].code = c}

RowsFit(rows) ==
  /\ \A id \in DOMAIN rows :
       rows[id] \in [addr : Addrs, code : Nat \cup {None}, frozen : BOOLEAN]
  /\ \A i, j \in DOMAIN rows : rows[i].addr = rows[j].addr => i = j

\* The keys are bounded, so that there is a next one.
KeysFit(table) ==
  /\ DOMAIN table \subseteq Nat
  /\ \E k \in Nat : \A c \in DOMAIN table : c < k
  /\ \A c \in DOMAIN table : table[c] \in [hash : CodeHashes, refs : Nat]
  /\ \A c, d \in DOMAIN table : table[c].hash = table[d].hash => c = d

CodesFit(rows, table) ==
  /\ \A c \in DOMAIN table : table[c].refs = Cardinality(Refs(rows, c)) /\ table[c].refs > 0
  /\ \A id \in DOMAIN rows : rows[id].code # None => rows[id].code \in DOMAIN table

Fit ==
  /\ RowsFit(accounts) /\ KeysFit(codes) /\ CodesFit(accounts, codes)
  /\ byHand \subseteq Ids /\ writing \in BOOLEAN /\ (cached # None => writing)

\* None is no key of the code table.
LEMMA NoneIsNoKey ==
  ASSUME NEW table, KeysFit(table)
  PROVE  None \notin DOMAIN table
<1>1. None \notin Nat
  BY DEF None
<1> QED  BY <1>1, Zenon DEF KeysFit

\* Tables of accounts are finite.
LEMMA FiniteRows ==
  ASSUME NEW rows, DOMAIN rows \subseteq Ids
  PROVE  \A c : /\ IsFiniteSet(Refs(rows, c)) /\ Cardinality(Refs(rows, c)) \in Nat
                /\ \A id : /\ Cardinality(Refs(rows, c) \ {id}) =
                                IF id \in Refs(rows, c) THEN Cardinality(Refs(rows, c)) - 1
                                ELSE Cardinality(Refs(rows, c))
                           /\ Cardinality(Refs(rows, c) \cup {id}) =
                                IF id \in Refs(rows, c) THEN Cardinality(Refs(rows, c))
                                ELSE Cardinality(Refs(rows, c)) + 1
<1> SUFFICES ASSUME NEW c
             PROVE  /\ IsFiniteSet(Refs(rows, c)) /\ Cardinality(Refs(rows, c)) \in Nat
                    /\ \A id : /\ Cardinality(Refs(rows, c) \ {id}) =
                                    IF id \in Refs(rows, c) THEN Cardinality(Refs(rows, c)) - 1
                                    ELSE Cardinality(Refs(rows, c))
                               /\ Cardinality(Refs(rows, c) \cup {id}) =
                                    IF id \in Refs(rows, c) THEN Cardinality(Refs(rows, c))
                                    ELSE Cardinality(Refs(rows, c)) + 1
  BY Zenon
<1>1. IsFiniteSet(Ids)
  BY FS_Interval, StateStoreAssumption DEF Ids
<1>2. IsFiniteSet(Refs(rows, c))
  BY <1>1, FS_Subset, Zenon DEF Refs
<1> QED BY <1>2, FS_CardinalityType, FS_AddElement, FS_RemoveElement, Zenon

\* A nonempty bounded set of numbers has a greatest one.
LEMMA MaxGreatest ==
  ASSUME NEW D \in SUBSET Nat, D # {}, NEW b \in Nat, \A c \in D : c <= b
  PROVE  Max(D) \in D /\ \A c \in D : Max(D) >= c
<1> DEFINE Bounds == {n \in Nat : \A c \in D : c <= n}
<1>1. Bounds \in SUBSET Nat /\ Bounds # {}
  BY Zenon
<1>2. PICK x \in Bounds : \A y \in Bounds : ~(<<y, x>> \in OpToRel(<, Nat))
  <2> HIDE DEF Bounds
  <2> QED  BY <1>1, WFMin, NatLessThanWellFounded, Zenon
<1>3. ASSUME x \notin D PROVE FALSE
  <2>1. x \in Nat /\ \A c \in D : c \in Nat /\ c <= x /\ c # x
    BY <1>3, Zenon
  <2>2. PICK d : d \in D
    BY Zenon
  <2>3. x - 1 \in Nat /\ \A c \in D : c <= x - 1
    BY ONLY <2>1, <2>2
  <2>4. x - 1 \in Bounds
    BY <2>3, Zenon
  <2>5. <<x - 1, x>> \in OpToRel(<, Nat)
    BY <2>1, <2>3 DEF OpToRel
  <2> QED  BY <1>2, <2>4, <2>5, Zenon
<1> QED  BY <1>3, Zenon DEF Max

\* The next key of the code table is new.
LEMMA FreshKey ==
  ASSUME NEW table, KeysFit(table)
  PROVE  /\ AvailableKey(table) \in Nat
         /\ \A c \in DOMAIN table : c < AvailableKey(table)
<1>1. CASE DOMAIN table = {}
  BY <1>1, Zenon DEF AvailableKey
<1>2. CASE DOMAIN table # {}
  <2>1. PICK k \in Nat : \A c \in DOMAIN table : c < k
    BY Zenon DEF KeysFit
  <2>2. DOMAIN table \in SUBSET Nat /\ \A c \in DOMAIN table : c <= k
    BY <2>1 DEF KeysFit
  <2>3. Max(DOMAIN table) \in DOMAIN table /\ \A c \in DOMAIN table : Max(DOMAIN table) >= c
    BY <1>2, <2>2, MaxGreatest, Zenon
  <2> QED BY <1>2, <2>2, <2>3 DEF AvailableKey
<1> QED BY <1>1, <1>2, Zenon

\* Removing an account releases its reference: the code row goes with the last one,
\* and no other account loses its code.
LEMMA Releases ==
  ASSUME DOMAIN accounts \subseteq Ids, Fit, NEW id \in DOMAIN accounts, Removal(id)
  PROVE  /\ RowsFit(Without(accounts, id)) /\ KeysFit(codes')
         /\ CodesFit(Without(accounts, id), codes')
         /\ \A k \in DOMAIN accounts \ {id} : CodeHash(k) =
              IF accounts[k].code \in DOMAIN codes' THEN codes'[accounts[k].code].hash ELSE None
<1> DEFINE rows == Without(accounts, id)
           gone == accounts[id].code
<1>1. /\ DOMAIN rows = DOMAIN accounts \ {id}
      /\ \A k \in DOMAIN rows : rows[k] = accounts[k]
  BY Zenon DEF Without, Restrict
<1> HIDE DEF rows
<1>2. RowsFit(rows)
  BY <1>1, Zenon DEF Fit, RowsFit
<1>3. /\ \A c : c # gone => Refs(rows, c) = Refs(accounts, c)
      /\ Refs(rows, gone) = Refs(accounts, gone) \ {id} /\ id \in Refs(accounts, gone)
  BY <1>1, Zenon DEF Refs
<1>4. Cardinality(Refs(rows, gone)) = Cardinality(Refs(accounts, gone)) - 1
  BY <1>3, FiniteRows, Zenon
<1>5. /\ codes' = CodesReleased(gone)
      /\ gone # None => gone \in DOMAIN codes
      /\ None \notin DOMAIN codes
  BY DEF Removal, Fit, KeysFit, None
<1>6. CASE gone = None
  <2>1. codes' = codes
    BY <1>5, <1>6, Zenon DEF CodesReleased
  <2> QED BY <1>1, <1>2, <1>3, <1>5, <1>6, <2>1, Zenon DEF Fit, CodesFit, CodeHash, rows
<1>7. CASE gone # None /\ codes[gone].refs - 1 # 0
  <2>1. codes' = [codes EXCEPT ![gone].refs = @ - 1]
    BY <1>5, <1>7, Zenon DEF CodesReleased
  <2>2. /\ gone \in DOMAIN codes
        /\ codes[gone].refs \in Nat /\ codes[gone].refs = Cardinality(Refs(accounts, gone))
        /\ codes[gone].refs > 0
    BY <1>5, <1>7, Zenon DEF Fit, KeysFit, CodesFit
  <2>3. /\ DOMAIN codes' = DOMAIN codes
        /\ \A c \in DOMAIN codes : /\ codes'[c] \in [hash : CodeHashes, refs : Nat]
                                   /\ codes'[c].hash = codes[c].hash
                                   /\ c # gone => codes'[c].refs = codes[c].refs
        /\ codes'[gone].refs = codes[gone].refs - 1
    BY <2>1, <2>2, <1>7 DEF Fit, KeysFit
  <2>4. KeysFit(codes')
    BY <2>3, Zenon DEF Fit, KeysFit
  <2>5. CodesFit(rows, codes')
    <3>1. codes'[gone].refs = Cardinality(Refs(rows, gone)) /\ codes'[gone].refs > 0
      BY <1>4, <1>7, <2>2, <2>3
    <3>2. \A c \in DOMAIN codes' \ {gone} :
            codes'[c].refs = Cardinality(Refs(rows, c)) /\ codes'[c].refs > 0
      BY <1>3, <2>3, Zenon DEF Fit, CodesFit
    <3> QED BY <1>1, <2>3, <3>1, <3>2, Zenon DEF Fit, CodesFit
  <2> QED BY <1>1, <1>2, <2>3, <2>4, <2>5, Zenon DEF CodeHash, rows
<1>8. CASE gone # None /\ codes[gone].refs - 1 = 0
  <2>1. codes' = Without(codes, gone)
    BY <1>5, <1>8, Zenon DEF CodesReleased
  <2>2. /\ DOMAIN codes' = DOMAIN codes \ {gone}
        /\ \A c \in DOMAIN codes' : codes'[c] = codes[c]
    BY <2>1, Zenon DEF Without, Restrict
  <2>3. Refs(rows, gone) = {}
    <3>1. /\ gone \in DOMAIN codes /\ codes[gone].refs \in Nat
          /\ codes[gone].refs = Cardinality(Refs(accounts, gone))
      BY <1>5, <1>8, Zenon DEF Fit, KeysFit, CodesFit
    <3>2. Cardinality(Refs(rows, gone)) = 0
      BY <1>4, <1>8, <3>1, Zenon
    <3>3. IsFiniteSet(Refs(rows, gone))
      BY <1>1, FiniteRows, Zenon
    <3> QED BY <3>2, <3>3, FS_EmptySet, Zenon
  <2>4. KeysFit(codes')
    BY <2>2, Zenon DEF Fit, KeysFit
  <2>5. CodesFit(rows, codes')
    BY <1>1, <1>3, <2>2, <2>3, Zenon DEF Fit, CodesFit, Refs
  <2>6. \A k \in DOMAIN accounts \ {id} : accounts[k].code # gone
    BY <1>1, <2>3, Zenon DEF Refs
  <2> QED BY <1>2, <2>2, <2>4, <2>5, <2>6, Zenon DEF CodeHash, rows
<1> QED BY <1>6, <1>7, <1>8, Zenon

\* A new row without code, at an address that has none.
LEMMA Places ==
  ASSUME NEW rows, RowsFit(rows), NEW table, KeysFit(table), CodesFit(rows, table),
         NEW new, new \notin DOMAIN rows,
         NEW addr \in Addrs, \A id \in DOMAIN rows : rows[id].addr # addr,
         NEW after, DOMAIN after = DOMAIN rows \cup {new},
         after[new] = [addr |-> addr, code |-> None, frozen |-> FALSE],
         \A id \in DOMAIN rows : after[id] = rows[id]
  PROVE  RowsFit(after) /\ CodesFit(after, table)
<1>1. RowsFit(after)
  <2>1. after[new] \in [addr : Addrs, code : Nat \cup {None}, frozen : BOOLEAN]
    OBVIOUS
  <2>2. after[new].addr = addr
    OBVIOUS
  <2>3. \A i, j \in DOMAIN after : after[i].addr = after[j].addr => i = j
    BY <2>2, Zenon DEF RowsFit
  <2> QED BY <2>1, <2>3, Zenon DEF RowsFit
<1>2. None \notin DOMAIN table /\ after[new].code = None
  BY DEF KeysFit, None
<1>3. \A c \in DOMAIN table : Refs(after, c) = Refs(rows, c)
  BY <1>2, Zenon DEF Refs
<1> QED BY <1>1, <1>2, <1>3, Zenon DEF CodesFit

\* The code table of update_account_code
Referred(c, hash) ==
  [k \in DOMAIN codes \cup {c} |->
     CASE k # c -> codes[k]
       [] k = c /\ c \in DOMAIN codes -> [codes[c] EXCEPT !.refs = @ + 1]
       [] OTHER -> [hash |-> hash, refs |-> 1]]

\* update_account_code: one more account, which had no code, refers to the row.
LEMMA Refers ==
  ASSUME DOMAIN accounts \subseteq Ids, Fit, NEW hash \in CodeHashes, NEW c \in CodeId(hash),
         codes' = Referred(c, hash),
         NEW id, id \in DOMAIN accounts => accounts[id].code = None,
         DOMAIN accounts' = DOMAIN accounts \cup {id}, accounts'[id].code = c,
         \A k \in DOMAIN accounts \ {id} : accounts'[k] = accounts[k]
  PROVE  /\ c \in Nat /\ KeysFit(codes') /\ CodesFit(accounts', codes')
         /\ c \in DOMAIN codes' /\ codes'[c].hash = hash
         /\ \A k \in DOMAIN accounts \ {id} : CodeHash(k)' = CodeHash(k)
<1>1. /\ None \notin DOMAIN codes /\ DOMAIN codes \subseteq Nat
      /\ \A k \in DOMAIN codes : codes[k] \in [hash : CodeHashes, refs : Nat]
  BY DEF Fit, KeysFit, None
<1>2. /\ c \in Nat
      /\ c \in DOMAIN codes => codes[c].hash = hash
      /\ c \notin DOMAIN codes =>
           CodeIds(hash) = {} /\ \A k \in DOMAIN codes : k < c
  BY <1>1, FreshKey DEF CodeId, CodeIds, Fit
<1>3. /\ DOMAIN codes' = DOMAIN codes \cup {c}
      /\ \A k \in DOMAIN codes \ {c} : codes'[k] = codes[k]
      /\ codes'[c].hash = hash /\ codes'[c] \in [hash : CodeHashes, refs : Nat]
      /\ codes'[c].refs = IF c \in DOMAIN codes THEN codes[c].refs + 1 ELSE 1
  <2>1. DOMAIN codes' = DOMAIN codes \cup {c} /\ \A k \in DOMAIN codes \ {c} : codes'[k] = codes[k]
    BY Zenon DEF Referred
  <2>2. CASE c \in DOMAIN codes
    BY <1>1, <1>2, <2>2 DEF Referred
  <2>3. CASE c \notin DOMAIN codes
    BY <1>1, <1>2, <2>3, Zenon DEF Referred
  <2> QED BY <2>1, <2>2, <2>3, Zenon
<1>4. KeysFit(codes')
  <2>1. \E k \in Nat : \A d \in DOMAIN codes' : d < k
    <3>1. PICK k \in Nat : \A d \in DOMAIN codes : d < k
      BY Zenon DEF Fit, KeysFit
    <3>2. c + k + 1 \in Nat /\ \A d \in DOMAIN codes' : d < c + k + 1
      BY <1>1, <1>2, <1>3, <3>1
    <3> QED BY <3>2, Zenon
  <2>2. \A d \in DOMAIN codes \ {c} : codes[d].hash # hash
    BY <1>1, <1>2, Zenon DEF Fit, KeysFit, CodeIds
  <2> QED BY <1>1, <1>2, <1>3, <2>1, <2>2 DEF Fit, KeysFit
<1>5. CodesFit(accounts', codes')
  <2>1. c # None
    BY <1>2 DEF None
  <2>2. /\ Refs(accounts', c) = Refs(accounts, c) \cup {id} /\ id \notin Refs(accounts, c)
        /\ \A k \in DOMAIN codes \ {c} : Refs(accounts', k) = Refs(accounts, k)
    BY <1>1, <2>1 DEF Refs
  <2>3. Cardinality(Refs(accounts', c)) = Cardinality(Refs(accounts, c)) + 1
    BY <2>2, FiniteRows
  <2>4. c \notin DOMAIN codes => Cardinality(Refs(accounts, c)) = 0
    <3>1. c \notin DOMAIN codes => Refs(accounts, c) = {}
      BY <2>1, Zenon DEF Fit, CodesFit, Refs
    <3> QED BY <3>1, FS_EmptySet, Zenon
  <2>5. codes'[c].refs = Cardinality(Refs(accounts', c)) /\ codes'[c].refs > 0
    <3>1. CASE c \in DOMAIN codes
      BY <1>1, <1>3, <2>3, <3>1 DEF Fit, CodesFit
    <3>2. CASE c \notin DOMAIN codes
      BY <1>3, <2>3, <2>4, <3>2
    <3> QED BY <3>1, <3>2, Zenon
  <2>6. \A k \in DOMAIN codes \ {c} :
          codes'[k].refs = Cardinality(Refs(accounts', k)) /\ codes'[k].refs > 0
    BY <1>3, <2>2, Zenon DEF Fit, CodesFit
  <2> QED BY <1>3, <2>5, <2>6, Zenon DEF Fit, CodesFit
<1>6. \A k \in DOMAIN accounts \ {id} : CodeHash(k)' = CodeHash(k)
  <2> TAKE k \in DOMAIN accounts \ {id}
  <2>1. accounts[k].code # None => accounts[k].code \in DOMAIN codes
    BY Zenon DEF Fit, CodesFit
  <2>2. c # None
    BY <1>2 DEF None
  <2> QED BY <1>2, <1>3, <2>1, <2>2, Zenon DEF CodeHash
<1> QED BY <1>2, <1>3, <1>4, <1>5, <1>6, Zenon

-----------------------------------------------------------------------------
(* The accounts as the EVM reads them *)

View(id) == [addr |-> accounts[id].addr, code |-> CodeHash(id), slots |-> storage[id],
             frozen |-> accounts[id].frozen]
Views == [id \in DOMAIN accounts |-> View(id)]

\* What is left of the values when the keys S are taken out, and what a new key adds.
LEMMA TakenOut ==
  ASSUME NEW f, NEW g, NEW S, S \subseteq DOMAIN f,
         \A x \in S, y \in DOMAIN f \ S : f[x] # f[y],
         DOMAIN g = DOMAIN f \ S, \A y \in DOMAIN f \ S : g[y] = f[y]
  PROVE  Range(g) = Range(f) \ {f[x] : x \in S}
BY Zenon DEF Range

\* The values of a function in which one place takes that of others.
LEMMA PutIn ==
  ASSUME NEW f, NEW g, NEW S, S \subseteq DOMAIN f, NEW new, new \notin DOMAIN f \ S,
         \A x \in S, y \in DOMAIN f \ S : f[x] # f[y],
         DOMAIN g = (DOMAIN f \ S) \cup {new}, \A y \in DOMAIN f \ S : g[y] = f[y]
  PROVE  Range(g) = (Range(f) \ {f[x] : x \in S}) \cup {g[new]}
<1>1. \A y : y \in Range(g) <=> y = g[new] \/ \E x \in DOMAIN f \ S : f[x] = y
  BY Zenon DEF Range
<1>2. \A y : y \in Range(f) \ {f[x] : x \in S} <=> \E x \in DOMAIN f \ S : f[x] = y
  BY Zenon DEF Range
<1> QED BY <1>1, <1>2, Zenon

\* One view per account, and at most one per address.
LEMMA Seen ==
  ASSUME RowsFit(accounts)
  PROVE  /\ World = Range(Views)
         /\ \A addr : EVM!At(addr) = {Views[id] : id \in Rows(addr)}
         /\ \A addr : \A x \in Rows(addr), y \in DOMAIN Views \ Rows(addr) : Views[x] # Views[y]
         /\ \A addr : \A x, y \in Rows(addr) : x = y
<1>1. World = Range(Views)
  BY Zenon DEF World, Views, View, Range
<1>2. \A id \in DOMAIN accounts : Views[id] = View(id) /\ View(id).addr = accounts[id].addr
  BY Zenon DEF Views, View
<1>3. \A addr : EVM!At(addr) = {Views[id] : id \in Rows(addr)}
  <2> TAKE addr
  <2>1. EVM!At(addr) = {a \in Range(Views) : a.addr = addr}
    BY <1>1, Zenon DEF EVM!At
  <2> QED BY <1>2, <2>1 DEF Range, Rows, Views
<1>4. \A addr : \A x \in Rows(addr), y \in DOMAIN Views \ Rows(addr) : Views[x] # Views[y]
  BY <1>2, Zenon DEF Rows, Views
<1> QED BY <1>1, <1>3, <1>4, Zenon DEF RowsFit, Rows

\* The accounts the EVM reads after a step that touches one address.
LEMMA SeenPut ==
  ASSUME RowsFit(accounts), NEW addr, NEW new, new \notin DOMAIN accounts \ Rows(addr),
         DOMAIN accounts' = (DOMAIN accounts \ Rows(addr)) \cup {new},
         \A k \in DOMAIN accounts \ Rows(addr) : View(k)' = View(k)
  PROVE  World' = (World \ EVM!At(addr)) \cup {View(new)'}
<1>1. World' = Range(Views')
  BY Zenon DEF World, Views, View, Range
<1>2. /\ DOMAIN Views = DOMAIN accounts /\ DOMAIN Views' = DOMAIN accounts'
      /\ \A k \in DOMAIN accounts \ Rows(addr) : Views'[k] = Views[k]
      /\ Views'[new] = View(new)'
  BY Zenon DEF Views
<1>3. Rows(addr) \subseteq DOMAIN Views
  BY <1>2, Zenon DEF Rows
<1>4. Range(Views') = (Range(Views) \ {Views[x] : x \in Rows(addr)}) \cup {Views'[new]}
  <2>1. \A x \in Rows(addr), y \in DOMAIN Views \ Rows(addr) : Views[x] # Views[y]
    BY Seen, Zenon
  <2> HIDE DEF Views
  <2> QED BY <1>2, <1>3, <2>1, PutIn
<1> QED BY <1>1, <1>2, <1>4, Seen, Zenon

\* A row that is dropped is seen no more.
LEMMA SeenDrop ==
  ASSUME RowsFit(accounts), NEW addr, DOMAIN accounts' = DOMAIN accounts \ Rows(addr),
         \A k \in DOMAIN accounts \ Rows(addr) : View(k)' = View(k)
  PROVE  World' = World \ EVM!At(addr)
<1>1. World' = Range(Views')
  BY Zenon DEF World, Views, View, Range
<1>2. /\ DOMAIN Views = DOMAIN accounts /\ DOMAIN Views' = DOMAIN accounts'
      /\ \A k \in DOMAIN accounts \ Rows(addr) : Views'[k] = Views[k]
  BY Zenon DEF Views
<1>3. Rows(addr) \subseteq DOMAIN Views
  BY <1>2, Zenon DEF Rows
<1>4. Range(Views') = Range(Views) \ {Views[x] : x \in Rows(addr)}
  <2>1. \A x \in Rows(addr), y \in DOMAIN Views \ Rows(addr) : Views[x] # Views[y]
    BY Seen, Zenon
  <2> HIDE DEF Views
  <2> QED BY <1>2, <1>3, <2>1, TakenOut
<1> QED BY <1>1, <1>4, Seen, Zenon

\* Nothing changes for the EVM when no account and no table of one does.
LEMMA SeenSame ==
  ASSUME DOMAIN accounts' = DOMAIN accounts, \A k \in DOMAIN accounts : View(k)' = View(k)
  PROVE  World' = World
BY Zenon DEF World, View

\* The account of an address as the EVM reads it.
LEMMA SeenAt ==
  ASSUME RowsFit(accounts), NEW addr
  PROVE  /\ Rows(addr) = {} => EVM!At(addr) = {}
         /\ \A id \in Rows(addr) : EVM!At(addr) = {View(id)} /\ Rows(addr) = {id}
         /\ Writable(addr) => EVM!Writable(addr)
<1>1. \A id \in Rows(addr) : Rows(addr) = {id} /\ Views[id] = View(id)
  BY Seen DEF Rows, Views
<1>2. /\ Rows(addr) = {} => EVM!At(addr) = {}
      /\ \A id \in Rows(addr) : EVM!At(addr) = {View(id)} /\ Rows(addr) = {id}
  BY <1>1, Seen
<1>3. \A id : View(id).frozen = accounts[id].frozen
  BY Zenon DEF View
<1>4. Writable(addr) => EVM!Writable(addr)
  BY <1>2, <1>3, Zenon DEF Writable, EVM!Writable
<1> QED BY <1>2, <1>4, Zenon

\* An account is made under an id that was not in use.
LEMMA Created ==
  ASSUME Inv, RowsFit(accounts), NEW addr, Writable(addr), NEW h, NEW loc,
         NEW new \in Ids, new \notin Given, Given \subseteq Given', new \in Given',
         DOMAIN accounts' = (DOMAIN accounts \ Rows(addr)) \cup {new},
         accounts'[new].addr = addr, accounts'[new].frozen = FALSE, CodeHash(new)' = h,
         \A k \in DOMAIN accounts \ Rows(addr) :
           accounts'[k] = accounts[k] /\ CodeHash(k)' = CodeHash(k),
         \A id \in Ids \ {new} : storage'[id] = storage[id],
         storage'[new] = storage[new] \cup loc
  PROVE  EVM!Create(addr, h, loc)
<1>1. World' = (World \ EVM!At(addr)) \cup {View(new)'}
  <2>1. \A k \in DOMAIN accounts \ Rows(addr) : View(k)' = View(k)
    BY Zenon DEF View, Inv, TablesOK, Given
  <2> QED BY <2>1, SeenPut, Zenon DEF Given
<1>2. View(new)' = EVM!Account(addr, h, storage[new] \cup loc)
  BY Zenon DEF View, EVM!Account
<1>3. storage[new] \in SUBSET Stray
  BY Zenon DEF Stray, Given
<1>4. Stray' \subseteq Stray
  BY DEF Stray, Given
<1> QED BY <1>1, <1>2, <1>3, <1>4, SeenAt, Zenon DEF EVM!Create

\* One account changes: its code, its storage or its flag.
LEMMA Changed ==
  ASSUME RowsFit(accounts), NEW addr, NEW id \in Rows(addr),
         DOMAIN accounts' = DOMAIN accounts, UNCHANGED Stray,
         \A k \in DOMAIN accounts \ {id} : View(k)' = View(k),
         NEW view, View(id)' = view
  PROVE  EVM!Change(View(id), view)
<1>1. Rows(addr) = {id} /\ EVM!At(addr) = {View(id)}
  BY SeenAt, Zenon
<1>2. World' = (World \ EVM!At(addr)) \cup {view}
  BY <1>1, SeenPut DEF Rows
<1> QED BY <1>1, <1>2, Zenon DEF EVM!Change

\* The row an account gets.
LEMMA EmplacedRow ==
  ASSUME Inv, NEW rows, NEW addr, NEW code, Emplace(rows, addr, code),
         DOMAIN rows \subseteq DOMAIN accounts, rows = accounts \/ DOMAIN accounts # {}
  PROVE  \E new \in Ids :
           /\ new = NextAccountId(rows) /\ new \notin Given /\ new \notin DOMAIN rows
           /\ DOMAIN accounts' = DOMAIN rows \cup {new}
           /\ accounts'[new] = [addr |-> addr, code |-> code, frozen |-> FALSE]
           /\ \A id \in DOMAIN rows : accounts'[id] = rows[id]
<1>1. PICK new \in Ids : /\ new = NextAccountId(rows) /\ new \notin Given
                         /\ DOMAIN accounts' = DOMAIN rows \cup {new}
  BY Emplaced, Zenon
<1>2. new \notin DOMAIN rows
  BY <1>1, Zenon DEF Given
<1>3. accounts' = [id \in DOMAIN rows \cup {new} |->
                     IF id = new THEN [addr |-> addr, code |-> code, frozen |-> FALSE]
                     ELSE rows[id]]
  BY <1>1, Zenon DEF Emplace
<1> QED BY <1>1, <1>2, <1>3, Zenon

Refines == EVM!Next \/ UNCHANGED <<World, Stray, writing>>

\* update_account of a new account
LEMMA UpdateNew ==
  ASSUME Inv, Fit, NEW addr \in Addrs, Writable(addr), Rows(addr) = {},
         Emplace(accounts, addr, None), NEW loc \in SUBSET Locations,
         storage' = [storage EXCEPT ![NextAccountId(accounts)] = @ \cup loc],
         UNCHANGED <<codes, gcstore, writing, byHand>>
  PROVE  Fit' /\ EVM!Create(addr, None, loc)
<1>1. PICK new \in Ids :
           /\ new = NextAccountId(accounts) /\ new \notin Given /\ new \notin DOMAIN accounts
           /\ DOMAIN accounts' = DOMAIN accounts \cup {new}
           /\ accounts'[new] = [addr |-> addr, code |-> None, frozen |-> FALSE]
           /\ \A id \in DOMAIN accounts : accounts'[id] = accounts[id]
  BY EmplacedRow, Zenon
<1>2. RowsFit(accounts') /\ CodesFit(accounts', codes)
  <2>1. \A id \in DOMAIN accounts : accounts[id].addr # addr
    BY Zenon DEF Rows
  <2> QED BY <1>1, <2>1, Places, Zenon DEF Fit
<1>3. Fit'
  BY <1>2, Zenon DEF Fit, Writable
<1>4. /\ CodeHash(new)' = None
      /\ \A k \in DOMAIN accounts : CodeHash(k)' = CodeHash(k)
  BY <1>1 DEF CodeHash, Fit, KeysFit, None
<1>5. /\ \A id \in Ids \ {new} : storage'[id] = storage[id]
      /\ storage'[new] = storage[new] \cup loc
  BY <1>1, Zenon DEF Inv, TablesOK
<1>6. Given' = Given \cup {new}
  BY <1>1, Zenon DEF Given, Queued
<1>7. accounts'[new].addr = addr /\ accounts'[new].frozen = FALSE
  BY <1>1
<1> QED BY <1>1, <1>3, <1>4, <1>5, <1>6, <1>7, Created, Zenon DEF Fit

\* update_account with another incarnation
LEMMA UpdateReincarnated ==
  ASSUME Inv, Fit, NEW addr \in Addrs, Writable(addr), NEW id \in Rows(addr), Removal(id),
         Emplace(Without(accounts, id), addr, None), UNCHANGED <<storage, writing, byHand>>
  PROVE  Fit' /\ EVM!Create(addr, None, {})
<1> DEFINE rows == Without(accounts, id)
<1>1. /\ id \in DOMAIN accounts /\ DOMAIN accounts \subseteq Ids
      /\ Rows(addr) = {id} /\ accounts[id].addr = addr
  BY SeenAt, Zenon DEF Rows, Fit, Inv, TablesOK
<1>2. /\ RowsFit(rows) /\ KeysFit(codes') /\ CodesFit(rows, codes')
      /\ \A k \in DOMAIN accounts \ {id} : CodeHash(k) =
           IF accounts[k].code \in DOMAIN codes' THEN codes'[accounts[k].code].hash ELSE None
  BY <1>1, Releases, Zenon
<1>3. DOMAIN rows = DOMAIN accounts \ {id} /\ \A k \in DOMAIN rows : rows[k] = accounts[k]
  BY Zenon DEF Without, Restrict
<1> HIDE DEF rows
<1>4. PICK new \in Ids :
           /\ new = NextAccountId(rows) /\ new \notin Given /\ new \notin DOMAIN rows
           /\ DOMAIN accounts' = DOMAIN rows \cup {new}
           /\ accounts'[new] = [addr |-> addr, code |-> None, frozen |-> FALSE]
           /\ \A k \in DOMAIN rows : accounts'[k] = rows[k]
  <2>1. Emplace(rows, addr, None)
    BY Zenon DEF rows
  <2>2. DOMAIN rows \subseteq DOMAIN accounts /\ DOMAIN accounts # {}
    BY <1>1, <1>3, Zenon
  <2> QED BY <2>1, <2>2, EmplacedRow, Zenon
<1>5. RowsFit(accounts') /\ CodesFit(accounts', codes')
  <2>1. \A k \in DOMAIN rows : rows[k].addr # addr
    BY <1>1, <1>3, Zenon DEF Rows
  <2> QED BY <1>2, <1>4, <2>1, Places, Zenon
<1>6. Fit'
  BY <1>2, <1>5, Zenon DEF Fit, Writable
<1>7. /\ CodeHash(new)' = None
      /\ \A k \in DOMAIN accounts \ {id} : CodeHash(k)' = CodeHash(k)
  <2>1. None \notin DOMAIN codes'
    BY <1>2 DEF KeysFit, None
  <2> QED BY <1>2, <1>3, <1>4, <2>1 DEF CodeHash
<1>8. Given' = Given \cup {new}
  BY <1>1, <1>3, <1>4, Removed DEF Given
<1>9. accounts'[new].addr = addr /\ accounts'[new].frozen = FALSE
  BY <1>4
<1> QED BY <1>1, <1>3, <1>4, <1>6, <1>7, <1>8, <1>9, Created, Zenon DEF Fit

\* An account is removed, by the EVM or by rmaccount.
LEMMA RemovesRow ==
  ASSUME Inv, Fit, NEW id \in DOMAIN accounts, Removal(id), accounts' = Without(accounts, id),
         UNCHANGED <<storage, cached, writing, byHand>>
  PROVE  Fit' /\ accounts[id].addr \in Addrs /\ EVM!Remove(accounts[id].addr)
<1> DEFINE addr == accounts[id].addr
<1>1. /\ DOMAIN accounts \subseteq Ids /\ addr \in Addrs
      /\ Rows(addr) = {id} /\ EVM!At(addr) = {View(id)}
  <2>1. id \in Rows(addr)
    BY Zenon DEF Rows
  <2> QED BY <2>1, SeenAt, Zenon DEF Fit, RowsFit, Inv, TablesOK
<1>2. /\ RowsFit(accounts') /\ KeysFit(codes') /\ CodesFit(accounts', codes')
      /\ \A k \in DOMAIN accounts \ {id} : CodeHash(k) =
           IF accounts[k].code \in DOMAIN codes' THEN codes'[accounts[k].code].hash ELSE None
  BY <1>1, Releases, Zenon
<1>3. /\ DOMAIN accounts' = DOMAIN accounts \ {id}
      /\ \A k \in DOMAIN accounts' : accounts'[k] = accounts[k]
  BY Zenon DEF Without, Restrict
<1>4. Fit'
  BY <1>2, Zenon DEF Fit
<1>5. \A k \in DOMAIN accounts \ {id} : View(k)' = View(k)
  BY <1>2, <1>3, Zenon DEF View, CodeHash
<1>6. World' = World \ EVM!At(addr)
  BY <1>1, <1>3, <1>5, SeenDrop, Zenon DEF Fit
<1>7. Given' = Given
  BY <1>3, Removed, Zenon DEF Given
<1>8. Stray' = Stray
  BY <1>7, Zenon DEF Stray, Given
<1> QED BY <1>1, <1>4, <1>6, <1>8, Zenon DEF EVM!Remove

\* update_account_code, which makes the account row if there is none
LEMMA SetsCode ==
  ASSUME Inv, Fit, NEW addr \in Addrs, NEW hash \in CodeHashes, UpdateAccountCode(addr, hash)
  PROVE  Fit' /\ (\/ EVM!At(addr) = {} /\ EVM!Create(addr, hash, {})
                  \/ EVM!SetCode(addr, hash))
<1>1. /\ Writable(addr) /\ \A id \in Rows(addr) : accounts[id].code = None
      /\ UNCHANGED <<storage, gcstore, config2, writing, byHand>>
      /\ DOMAIN accounts \subseteq Ids /\ RowsFit(accounts)
  BY Zenon DEF UpdateAccountCode, Inv, TablesOK, Fit
<1>2. PICK c \in CodeId(hash) :
       /\ codes' = Referred(c, hash)
       /\ \/ Rows(addr) = {} /\ Emplace(accounts, addr, c)
          \/ /\ \E id \in Rows(addr) : accounts' = [accounts EXCEPT ![id].code = c]
             /\ UNCHANGED cached
  BY Zenon DEF UpdateAccountCode, Referred
<1>3. CASE Rows(addr) = {} /\ Emplace(accounts, addr, c)
  <2>1. PICK new \in Ids :
           /\ new = NextAccountId(accounts) /\ new \notin Given /\ new \notin DOMAIN accounts
           /\ DOMAIN accounts' = DOMAIN accounts \cup {new}
           /\ accounts'[new] = [addr |-> addr, code |-> c, frozen |-> FALSE]
           /\ \A id \in DOMAIN accounts : accounts'[id] = accounts[id]
    BY <1>3, EmplacedRow, Zenon
  <2>2. /\ accounts'[new].addr = addr /\ accounts'[new].code = c
        /\ accounts'[new].frozen = FALSE
    BY <2>1
  <2>3. /\ c \in Nat /\ KeysFit(codes') /\ CodesFit(accounts', codes')
        /\ c \in DOMAIN codes' /\ codes'[c].hash = hash
        /\ \A k \in DOMAIN accounts : CodeHash(k)' = CodeHash(k)
    BY <1>1, <1>2, <2>1, <2>2, Refers
  <2>4. RowsFit(accounts')
    <3>1. accounts'[new] \in [addr : Addrs, code : Nat \cup {None}, frozen : BOOLEAN]
      <4>1. accounts'[new] = [addr |-> addr, code |-> c, frozen |-> FALSE] /\ c \in Nat /\ addr \in Addrs
        BY <2>1, <2>3, Zenon
      <4> QED  BY ONLY <4>1
    <3>2. \A id \in DOMAIN accounts : accounts'[id].addr # addr
      BY <1>3, <2>1, Zenon DEF Rows
    <3>3. \A i, j \in DOMAIN accounts' : accounts'[i].addr = accounts'[j].addr => i = j
      BY <1>1, <2>1, <2>2, <3>2, Zenon DEF RowsFit
    <3> QED BY <1>1, <2>1, <3>1, <3>3, Zenon DEF RowsFit
  <2>5. Fit'
    BY <1>1, <2>3, <2>4, Zenon DEF Fit, Writable
  <2>6. CodeHash(new)' = hash
    BY <2>2, <2>3, Zenon DEF CodeHash
  <2>7. Given' = Given \cup {new}
    BY <1>1, <2>1, Zenon DEF Given, Queued
  <2>8. EVM!Create(addr, hash, {})
    BY <1>1, <1>3, <2>1, <2>2, <2>3, <2>6, <2>7, Created, Zenon
  <2> QED BY <1>1, <1>3, <2>5, <2>8, SeenAt, Zenon
<1>4. ASSUME NEW id \in Rows(addr), accounts' = [accounts EXCEPT ![id].code = c],
             UNCHANGED cached
      PROVE  Fit' /\ EVM!SetCode(addr, hash)
  <2>1. /\ id \in DOMAIN accounts /\ Rows(addr) = {id} /\ EVM!At(addr) = {View(id)}
        /\ DOMAIN accounts' = DOMAIN accounts
        /\ accounts[id] \in [addr : Addrs, code : Nat \cup {None}, frozen : BOOLEAN]
    BY <1>1, <1>4, SeenAt, Zenon DEF Rows, RowsFit
  <2>2. /\ accounts'[id] = [accounts[id] EXCEPT !.code = c]
        /\ \A k \in DOMAIN accounts \ {id} : accounts'[k] = accounts[k]
    BY <1>4, <2>1, Zenon
  <2>3. /\ accounts'[id].addr = accounts[id].addr /\ accounts'[id].code = c
        /\ accounts'[id].frozen = accounts[id].frozen
    BY <2>1, <2>2, Zenon
  <2>4. /\ c \in Nat /\ KeysFit(codes') /\ CodesFit(accounts', codes')
        /\ c \in DOMAIN codes' /\ codes'[c].hash = hash
        /\ \A k \in DOMAIN accounts \ {id} : CodeHash(k)' = CodeHash(k)
    BY <1>1, <1>2, <2>1, <2>2, <2>3, Refers
  <2>5. RowsFit(accounts')
    <3>1. accounts'[id] \in [addr : Addrs, code : Nat \cup {None}, frozen : BOOLEAN]
      BY <2>1, <2>2, <2>4, Zenon
    <3>2. \A i \in DOMAIN accounts : accounts'[i].addr = accounts[i].addr
      BY <2>2, <2>3, Zenon
    <3> QED BY <1>1, <2>1, <2>2, <3>1, <3>2, Zenon DEF RowsFit
  <2>6. Fit'
    BY <1>1, <1>4, <2>4, <2>5, Zenon DEF Fit
  <2>7. /\ View(id).code = None /\ View(id)' = [View(id) EXCEPT !.code = hash]
        /\ \A k \in DOMAIN accounts \ {id} : View(k)' = View(k)
    <3>1. CodeHash(id) = None /\ CodeHash(id)' = hash
      <4>1. None \notin DOMAIN codes
        BY NoneIsNoKey, Zenon DEF Fit
      <4>2. accounts[id].code = None
        BY <1>1, <2>1, Zenon
      <4> QED  BY <2>3, <2>4, <4>1, <4>2, Zenon DEF CodeHash
    <3>2. \A k \in DOMAIN accounts \ {id} : CodeHash(k)' = CodeHash(k) /\ accounts'[k] = accounts[k]
      BY <2>2, <2>4, Zenon
    <3> QED BY <1>1, <2>2, <2>3, <3>1, <3>2 DEF View
  <2>8. Stray' = Stray
    BY <1>1, <2>1, Zenon DEF Stray, Queued
  <2>9. EVM!Change(View(id), [View(id) EXCEPT !.code = hash])
    BY <1>1, <2>1, <2>7, <2>8, Changed, Zenon
  <2> QED BY <1>1, <2>1, <2>6, <2>7, <2>9, SeenAt, Zenon DEF EVM!SetCode
<1> QED BY <1>2, <1>3, <1>4, Zenon

\* A value is put into, or taken from, the table of an account.
LEMMA SetsSlot ==
  ASSUME Inv, Fit, NEW addr, NEW id \in Rows(addr), NEW loc, NEW slots,
         storage' = [storage EXCEPT ![id] = slots],
         slots \in {storage[id] \cup {loc}, storage[id] \ {loc}},
         UNCHANGED <<accounts, codes, gcstore, cached, writing, byHand>>
  PROVE  Fit' /\ EVM!SetSlot(addr, loc)
<1>1. /\ id \in DOMAIN accounts /\ Rows(addr) = {id} /\ EVM!At(addr) = {View(id)}
      /\ DOMAIN accounts \subseteq Ids /\ storage \in [Ids -> SUBSET Locations]
  BY SeenAt, Zenon DEF Rows, Fit, Inv, TablesOK
<1>2. Fit'
  BY Zenon DEF Fit
<1>3. /\ storage'[id] = slots /\ \A k \in Ids \ {id} : storage'[k] = storage[k]
  BY <1>1, Zenon
<1>4. \A k \in DOMAIN accounts : CodeHash(k)' = CodeHash(k)
  BY Zenon DEF CodeHash
<1>5. /\ View(id)' = [View(id) EXCEPT !.slots = slots] /\ View(id).slots = storage[id]
      /\ \A k \in DOMAIN accounts \ {id} : View(k)' = View(k)
  BY <1>1, <1>3, <1>4 DEF View
<1>6. Stray' = Stray
  BY <1>1, <1>3 DEF Stray, Queued
<1>7. EVM!Change(View(id), [View(id) EXCEPT !.slots = slots])
  BY <1>1, <1>5, <1>6, Changed, Zenon DEF Fit
<1> QED BY <1>1, <1>2, <1>5, <1>7, Zenon DEF EVM!SetSlot

\* freezeaccnt
LEMMA SetsFrozen ==
  ASSUME Inv, Fit, NEW id, NEW value \in BOOLEAN, FreezeAccnt(id, value)
  PROVE  Fit' /\ EVM!SetFrozen(accounts[id].addr, value)
<1> DEFINE addr == accounts[id].addr
<1>1. /\ id \in DOMAIN accounts /\ RowsFit(accounts)
      /\ accounts' = [accounts EXCEPT ![id].frozen = value]
      /\ UNCHANGED <<codes, storage, gcstore, cached, writing, byHand>>
      /\ accounts[id] \in [addr : Addrs, code : Nat \cup {None}, frozen : BOOLEAN]
  BY Zenon DEF FreezeAccnt, Fit, RowsFit
<1>2. id \in Rows(addr) /\ EVM!At(addr) = {View(id)}
  <2>1. id \in Rows(addr)
    BY <1>1, Zenon DEF Rows
  <2> QED BY <1>1, <2>1, SeenAt, Zenon
<1>3. /\ DOMAIN accounts' = DOMAIN accounts
      /\ accounts'[id] = [accounts[id] EXCEPT !.frozen = value]
      /\ \A k \in DOMAIN accounts \ {id} : accounts'[k] = accounts[k]
  BY <1>1, Zenon
<1>4. /\ \A k \in DOMAIN accounts : /\ accounts'[k].addr = accounts[k].addr
                                    /\ accounts'[k].code = accounts[k].code
      /\ accounts'[id].frozen = value
      /\ accounts'[id] \in [addr : Addrs, code : Nat \cup {None}, frozen : BOOLEAN]
  BY <1>1, <1>3, Zenon
<1>5. Fit'
  <2>1. RowsFit(accounts')
    BY <1>1, <1>3, <1>4 DEF RowsFit
  <2>2. \A c : Refs(accounts', c) = Refs(accounts, c)
    BY <1>3, <1>4, Zenon DEF Refs
  <2>3. CodesFit(accounts', codes)
    BY <1>3, <1>4, <2>2, Zenon DEF Fit, CodesFit
  <2> QED BY <1>1, <2>1, <2>3, Zenon DEF Fit
<1>6. \A k \in DOMAIN accounts : CodeHash(k)' = CodeHash(k)
  BY <1>1, <1>3, <1>4, Zenon DEF CodeHash
<1>7. /\ View(id)' = [View(id) EXCEPT !.frozen = value]
      /\ \A k \in DOMAIN accounts \ {id} : View(k)' = View(k)
  BY <1>1, <1>3, <1>4, <1>6 DEF View
<1>8. Stray' = Stray
  BY <1>1, <1>3 DEF Stray, Queued
<1>9. EVM!Change(View(id), [View(id) EXCEPT !.frozen = value])
  <2> HIDE DEF addr
  <2> QED BY <1>1, <1>2, <1>3, <1>7, <1>8, Changed, Zenon
<1> QED BY <1>2, <1>5, <1>9, Zenon DEF EVM!SetFrozen

\* Garbage collection takes nothing from a live account.
LEMMA CollectsUnseen ==
  ASSUME Inv, NEW max, Gc(max)
  PROVE  World' = World
<1>1. PICK n \in 0 .. Len(gcstore) :
        \E left : storage' = [id \in Ids |->
               IF \E i \in 1..n : gcstore[i] = id THEN {}
               ELSE IF n < Len(gcstore) /\ gcstore[n + 1] = id THEN left
               ELSE storage[id]]
  BY Zenon DEF Gc
<1>2. PICK left : storage' = [id \in Ids |->
               IF \E i \in 1..n : gcstore[i] = id THEN {}
               ELSE IF n < Len(gcstore) /\ gcstore[n + 1] = id THEN left
               ELSE storage[id]]
  BY <1>1, Zenon
<1>3. \A id \in DOMAIN accounts : id \in Ids /\ \A i \in 1 .. Len(gcstore) : gcstore[i] # id
  BY DEF Inv, TablesOK, StorageUnshared, Queued, Range
<1>4. n \in Nat /\ n <= Len(gcstore) /\ Len(gcstore) \in Nat
  BY DEF Inv, TablesOK
<1>5. \A id \in DOMAIN accounts : storage'[id] = storage[id]
  BY <1>2, <1>3, <1>4
<1>6. \A id \in DOMAIN accounts : View(id)' = View(id)
  BY <1>5, Zenon DEF View, CodeHash, Gc
<1> QED BY <1>6, SeenSame, Zenon DEF Gc

\* Every step keeps the tables fit, and is a step of EvmState or invisible.
LEMMA Steps ==
  ASSUME Inv, Fit, Next
  PROVE  Fit' /\ Refines
<1>0. Inv' /\ storage \in [Ids -> SUBSET Locations] /\ RowsFit(accounts)
  BY Inductive, Zenon DEF Inv, TablesOK, Fit
<1>1. CASE BeginWrite
  <2>1. World' = World /\ Stray' = Stray
    BY <1>1, Zenon DEF BeginWrite, World, CodeHash, Stray, Queued
  <2> QED BY <1>1, <2>1, Zenon DEF BeginWrite, Fit, Refines, EVM!Next, EVM!Turn
<1>2. CASE EndWrite
  <2>1. World' = World /\ Stray' = Stray
    BY <1>2, Zenon DEF EndWrite, World, CodeHash, Stray, Queued
  <2> QED BY <1>2, <2>1, Zenon DEF EndWrite, Fit, Refines, EVM!Next, EVM!Turn
<1>3. ASSUME NEW addr \in Addrs, NEW reincarnated \in BOOLEAN, UpdateAccount(addr, reincarnated)
      PROVE  Fit' /\ Refines
  <2>1. Writable(addr) /\ writing /\ UNCHANGED <<storage, config2, writing, byHand>>
    BY <1>3, Zenon DEF UpdateAccount, Writable
  <2>2. CASE Rows(addr) = {} /\ Emplace(accounts, addr, None) /\ UNCHANGED <<codes, gcstore>>
    <3>1. storage' = [storage EXCEPT ![NextAccountId(accounts)] = @ \cup {}]
      BY <1>0, <2>1, Zenon
    <3>2. Fit' /\ EVM!Create(addr, None, {})
      BY <2>1, <2>2, <3>1, UpdateNew, Zenon
    <3> QED BY <1>0, <2>1, <3>2, SeenAt, Zenon DEF Refines, EVM!Next, EVM!Transaction
  <2>3. ASSUME NEW id \in Rows(addr), Removal(id), Emplace(Without(accounts, id), addr, None)
        PROVE  Fit' /\ Refines
    <3>1. Fit' /\ EVM!Create(addr, None, {})
      BY <2>1, <2>3, UpdateReincarnated, Zenon
    <3> QED BY <1>0, <2>1, <3>1, SeenAt, Zenon DEF Refines, EVM!Next, EVM!Transaction
  <2>4. CASE UNCHANGED <<accounts, codes, gcstore, cached>>
    BY <2>1, <2>4, Zenon DEF Refines, Fit, World, CodeHash, Stray, Queued
  <2> QED BY <1>3, <2>2, <2>3, <2>4, Zenon DEF UpdateAccount
<1>4. ASSUME NEW addr \in Addrs, RemoveAccount(addr)
      PROVE  Fit' /\ Refines
  <2>1. Writable(addr) /\ writing /\ UNCHANGED <<storage, cached, writing, byHand>>
    BY <1>4, Zenon DEF RemoveAccount, Writable
  <2>2. PICK id \in Rows(addr) : Removal(id) /\ accounts' = Without(accounts, id)
    BY <1>4, Zenon DEF RemoveAccount
  <2>3. Fit' /\ EVM!Remove(addr)
    BY <2>1, <2>2, RemovesRow, Zenon DEF Rows
  <2> QED BY <1>0, <2>1, <2>3, SeenAt, Zenon DEF Refines, EVM!Next, EVM!Transaction
<1>5. ASSUME NEW addr \in Addrs, NEW hash \in CodeHashes, UpdateAccountCode(addr, hash)
      PROVE  Fit' /\ Refines
  <2>1. Writable(addr) /\ writing /\ UNCHANGED writing
    BY <1>5, Zenon DEF UpdateAccountCode, Writable
  <2> QED BY <1>0, <1>5, <2>1, SetsCode, SeenAt, Zenon DEF Refines, EVM!Next, EVM!Transaction
<1>6. ASSUME NEW addr \in Addrs, NEW loc \in Locations, StoreValue(addr, loc)
      PROVE  Fit' /\ Refines
  <2>1. Writable(addr) /\ writing /\ UNCHANGED <<codes, gcstore, writing, byHand>>
    BY <1>6, Zenon DEF StoreValue, Writable
  <2>2. CASE /\ Rows(addr) = {} /\ Emplace(accounts, addr, None)
             /\ storage' = [storage EXCEPT ![NextAccountId(accounts)] = @ \cup {loc}]
    <3>1. Fit' /\ EVM!Create(addr, None, {loc})
      BY <2>1, <2>2, UpdateNew, Zenon
    <3> QED BY <1>0, <2>1, <2>2, <3>1, SeenAt, Zenon DEF Refines, EVM!Next, EVM!Transaction
  <2>3. ASSUME NEW id \in Rows(addr), storage' = [storage EXCEPT ![id] = @ \cup {loc}],
               UNCHANGED <<accounts, cached>>
        PROVE  Fit' /\ Refines
    <3>1. Fit' /\ EVM!SetSlot(addr, loc)
      BY <2>1, <2>3, SetsSlot, Zenon
    <3> QED BY <1>0, <2>1, <3>1, SeenAt, Zenon DEF Refines, EVM!Next, EVM!Transaction
  <2> QED BY <1>6, <2>2, <2>3, Zenon DEF StoreValue
<1>7. ASSUME NEW addr \in Addrs, NEW loc \in Locations, StoreZero(addr, loc)
      PROVE  Fit' /\ Refines
  <2>1. /\ Writable(addr) /\ writing
        /\ UNCHANGED <<accounts, codes, gcstore, cached, writing, byHand>>
    BY <1>7, Zenon DEF StoreZero, Writable
  <2>2. PICK id \in Rows(addr) : storage' = [storage EXCEPT ![id] = @ \ {loc}]
    BY <1>7, Zenon DEF StoreZero
  <2>3. Fit' /\ EVM!SetSlot(addr, loc)
    BY <2>1, <2>2, SetsSlot, Zenon
  <2> QED BY <1>0, <2>1, <2>3, SeenAt, Zenon DEF Refines, EVM!Next, EVM!Transaction
<1>8. Stray' \subseteq Locations
  BY <1>0, Zenon DEF Inv, TablesOK, Stray
<1>9. ASSUME NEW max \in Portions, Gc(max)
      PROVE  Fit' /\ Refines
  <2>1. ~writing /\ UNCHANGED <<accounts, codes, config2, cached, writing, byHand>>
    BY <1>9, Zenon DEF Gc
  <2> QED BY <1>8, <1>9, <2>1, CollectsUnseen, Zenon
          DEF Fit, Refines, EVM!Next, EVM!Administration
<1>10. ASSUME NEW id \in Ids, RmAccount(id)
       PROVE  Fit' /\ Refines
  <2>1. /\ ~writing /\ id \in DOMAIN accounts /\ Removal(id) /\ accounts' = Without(accounts, id)
        /\ UNCHANGED <<storage, cached, writing, byHand>>
    BY <1>10, Zenon DEF RmAccount
  <2>2. Fit' /\ accounts[id].addr \in Addrs /\ EVM!Remove(accounts[id].addr)
    BY <2>1, RemovesRow, Zenon
  <2> QED BY <2>1, <2>2 DEF Refines, EVM!Next, EVM!Administration
<1>11. ASSUME NEW i \in DOMAIN gcstore, RmGcStore(i)
       PROVE  Fit' /\ Refines
  <2>1. /\ ~writing /\ byHand' = byHand \cup {gcstore[i]}
        /\ UNCHANGED <<accounts, codes, storage, config2, cached, writing>>
    BY <1>11, Zenon DEF RmGcStore
  <2>2. gcstore[i] \in Ids
    BY DEF Inv, TablesOK
  <2>3. World' = World
    BY <2>1, Zenon DEF World, CodeHash
  <2> QED BY <1>8, <2>1, <2>2, <2>3, Zenon DEF Fit, Refines, EVM!Next, EVM!Administration
<1>12. ASSUME NEW id \in Ids, NEW loc \in Locations, NEW value \in BOOLEAN,
              SetKvStore(id, loc, value)
       PROVE  Fit' /\ Refines
  <2>1. /\ ~writing /\ UNCHANGED <<accounts, codes, gcstore, cached, writing>>
        /\ byHand' \in {byHand, byHand \cup {id}}
        /\ id \in DOMAIN accounts => UNCHANGED byHand
    BY <1>12, Zenon DEF SetKvStore
  <2>2. PICK slots \in {storage[id] \cup {loc}, storage[id] \ {loc}} :
          storage' = [storage EXCEPT ![id] = slots]
    BY <1>12, Zenon DEF SetKvStore
  <2>3. CASE id \in DOMAIN accounts
    <3>1. accounts[id].addr \in Addrs /\ id \in Rows(accounts[id].addr)
      BY <1>0, <2>3, Zenon DEF RowsFit, Rows
    <3>2. Fit' /\ EVM!SetSlot(accounts[id].addr, loc)
      BY <2>1, <2>2, <2>3, <3>1, SetsSlot, Zenon
    <3> QED BY <2>1, <3>1, <3>2 DEF Refines, EVM!Next, EVM!Administration
  <2>4. CASE id \notin DOMAIN accounts
    <3>1. \A k \in DOMAIN accounts : View(k)' = View(k)
      BY <1>0, <2>1, <2>2, <2>4 DEF View, CodeHash
    <3>2. World' = World
      BY <2>1, <3>1, SeenSame, Zenon
    <3> QED BY <1>8, <2>1, <3>2, Zenon DEF Fit, Refines, EVM!Next, EVM!Administration
  <2> QED BY <2>3, <2>4, Zenon
<1>13. ASSUME NEW id \in Ids, NEW value \in BOOLEAN, FreezeAccnt(id, value)
       PROVE  Fit' /\ Refines
  <2>1. ~writing /\ UNCHANGED writing /\ id \in DOMAIN accounts
    BY <1>13, Zenon DEF FreezeAccnt
  <2>2. Fit' /\ EVM!SetFrozen(accounts[id].addr, value)
    BY <1>13, SetsFrozen, Zenon
  <2>3. accounts[id].addr \in Addrs
    BY <1>0, <2>1, Zenon DEF RowsFit
  <2> QED BY <2>1, <2>2, <2>3 DEF Refines, EVM!Next, EVM!Administration
<1> QED BY <1>1, <1>2, <1>3, <1>4, <1>5, <1>6, <1>7, <1>9, <1>10, <1>11, <1>12, <1>13, Zenon DEF Next

\* The initial tables fit, and stand for the initial state of EvmState.
LEMMA FitInitially == Init => Fit /\ EVM!Init
<1> SUFFICES ASSUME Init PROVE Fit /\ EVM!Init
  BY Zenon
<1>1. /\ DOMAIN accounts = {} /\ DOMAIN codes = {} /\ byHand = {} /\ writing = FALSE
      /\ cached = None /\ storage = [id \in Ids |-> {}]
  BY DEF Init
<1>2. Fit
  BY <1>1, Zenon DEF Fit, RowsFit, KeysFit, CodesFit
<1>3. World = {} /\ Stray = {}
  BY <1>1, Zenon DEF World, Stray
<1> QED BY <1>1, <1>2, <1>3, Zenon DEF EVM!Init

\* A step of the tables, stuttering included.
LEMMA FitSteps ==
  Inv /\ Fit /\ [Next]_vars => Fit' /\ [EVM!Next]_<<World, Stray, writing>>
<1> SUFFICES ASSUME Inv, Fit, [Next]_vars
             PROVE  Fit' /\ [EVM!Next]_<<World, Stray, writing>>
  BY Zenon
<1>1. CASE Next
  BY <1>1, Steps, Zenon DEF Refines
<1>2. CASE UNCHANGED vars
  BY <1>2, Zenon DEF vars, Fit, World, CodeHash, Stray, Queued
<1> QED BY <1>1, <1>2, Zenon

\* The tables always fit.
LEMMA AlwaysFit == Spec => [](Inv /\ Fit)
<1>1. Init => Inv /\ Fit
  BY Initially, FitInitially, Zenon
<1>2. Inv /\ Fit /\ [Next]_vars => (Inv /\ Fit)'
  BY Inductive, FitSteps, Zenon
<1> QED BY <1>1, <1>2, PTL DEF Spec

\* The tables are always well formed, with one account row per address and one code
\* row per hash: what the lookups of state.cpp by address and by hash rely on.
THEOREM TypeCorrect == Spec => []TypeOK
<1>1. Inv /\ Fit => TypeOK
  <2> SUFFICES ASSUME Inv, Fit PROVE TypeOK
    BY Zenon
  <2>1. \A id \in DOMAIN accounts :
          /\ accounts[id].addr \in Addrs /\ accounts[id].frozen \in BOOLEAN
          /\ Rows(accounts[id].addr) = {id}
    BY Zenon DEF Fit, RowsFit, Rows
  <2>2. \A c \in DOMAIN codes : CodeIds(codes[c].hash) = {c}
    BY Zenon DEF Fit, KeysFit, CodeIds
  <2>3. DOMAIN accounts \subseteq Ids /\ storage \in [Ids -> SUBSET Locations] /\ Queued \subseteq Ids
    BY DEF Inv, TablesOK, Queued, Range
  <2> QED BY <2>1, <2>2, <2>3, Zenon DEF TypeOK, Fit
<1> QED BY <1>1, AlwaysFit, PTL

\* ref_count of a code row is always the number of accounts that refer to it, and
\* no account refers to a code row that has been erased.
THEOREM ReferencesExact == Spec => []CodesCounted
<1>1. Fit => CodesCounted
  <2> SUFFICES ASSUME Fit PROVE CodesCounted
    BY Zenon
  <2>1. \A c : Refs(accounts, c) = {id \in DOMAIN accounts : accounts[id].code = c}
    BY Zenon DEF Refs
  <2>2. \A c \in DOMAIN codes : /\ codes[c].refs = Cardinality(Refs(accounts, c))
                                /\ codes[c].refs > 0
    BY Zenon DEF Fit, CodesFit
  <2>3. \A id \in DOMAIN accounts : accounts[id].code # None => accounts[id].code \in DOMAIN codes
    BY Zenon DEF Fit, CodesFit
  <2> QED BY <2>1, <2>2, <2>3, Zenon DEF CodesCounted
<1> QED BY <1>1, AlwaysFit, PTL

\* update_account, update_account_code, update_storage, gc and the administration
\* actions change what the EVM reads as EvmState allows: one account at a time, and
\* never through an id, a code row or a storage table that another account uses.
THEOREM Refinement == Spec => ImplementsEvmState
<1>1. Init => EVM!Init
  BY FitInitially, Zenon
<1>2. Inv /\ Fit /\ [Next]_vars => [EVM!Next]_<<World, Stray, writing>>
  BY FitSteps, Zenon
<1> QED BY <1>1, <1>2, AlwaysFit, PTL DEF Spec, ImplementsEvmState, EVM!Spec
=============================================================================
