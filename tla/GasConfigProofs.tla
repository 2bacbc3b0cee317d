-------------------------- MODULE GasConfigProofs ---------------------------
(***************************************************************************)
(* The configuration invariants, for every grace period, price and         *)
(* parameter set and for any number of blocks.                             *)
(***************************************************************************)
EXTENDS GasConfig, DataLemmas, TLAPS

\* The prices and their queues: no row sets a storage price of 0, the queue of
\* version 3 is empty before it, and the front, which may be left over from the
\* other queue, lies within the grace period.
PricingOK ==
  /\ gasPrice \in Prices \cup {0} /\ gasPrices \in PricesOrUnset /\ front \in Nat
  /\ DOMAIN priceQueue \subseteq Nat /\ DOMAIN pricesQueue \subseteq Nat
  /\ \A k \in DOMAIN priceQueue : priceQueue[k] \in Prices
  /\ \A k \in DOMAIN pricesQueue : pricesQueue[k] \in PricesOrUnset
  /\ \A k \in DOMAIN priceQueue \cup DOMAIN pricesQueue : k <= ActivationBlock
  /\ front <= ActivationBlock
  /\ \A k \in DOMAIN pricesQueue : pricesQueue[k].storage # 0
  /\ EvmVersion < 3 => DOMAIN pricesQueue = {}
  /\ NoChangeHidden

\* The invariant that is inductive.  A pending version is above the cached one,
\* so time alone never lowers the version in force, and parameters are pending
\* only at version 1 or later.
Inv ==
  /\ TypeOK
  /\ PricingOK
  /\ version.cached <= version.pending
  /\ params.since # Unset => EvmVersion >= 1
  /\ Version3HasStoragePrice
  /\ NoCutFromVersion1

\* value_promoter: promoting or updating keeps the type and never changes the
\* value in force at that moment.
LEMMA Promotion ==
  ASSUME NEW S, NEW p \in Promoters(S), NEW v \in S, NEW now \in Nat
  PROVE  /\ GetValue(p, now) \in S
         /\ MaybePromote(p, now) \in Promoters(S)
         /\ Update(p, v, now) \in Promoters(S)
         /\ GetValue(MaybePromote(p, now), now) = GetValue(p, now)
         /\ GetValue(Update(p, v, now), now) = GetValue(p, now)
         /\ MaybePromote(p, now).since \in {Unset, p.since}
         /\ Update(p, v, now).cached = GetValue(p, now)
         /\ Update(p, v, now).pending = v
         /\ MaybePromote(p, now).cached = GetValue(p, now)
         /\ MaybePromote(p, now).pending = p.pending
<1> DEFINE P == MaybePromote(p, now)
           U == Update(p, v, now)
<1>1. /\ p.cached \in S /\ p.pending \in S /\ p.since \in Nat \cup {Unset}
      /\ p = [cached |-> p.cached, pending |-> p.pending, since |-> p.since]
  BY Zenon DEF Promoters
<1>2. P = [cached |-> GetValue(p, now), pending |-> p.pending,
           since |-> IF IsActive(p, now) THEN Unset ELSE p.since]
  BY <1>1, Zenon DEF GetValue, MaybePromote, Promoter
<1>3. U = [cached |-> GetValue(p, now), pending |-> v, since |-> now]
  <2>1. U = [P EXCEPT !.pending = v, !.since = now]
    BY Zenon DEF Update
  <2> HIDE DEF P, U
  <2>2. PICK c, d, e : /\ P = [cached |-> c, pending |-> d, since |-> e]
                       /\ c = GetValue(p, now)
    BY <1>2, Zenon
  <2> QED  BY <2>1, <2>2, Zenon
<1>4. GetValue(p, now) \in S
  BY <1>1, Zenon DEF GetValue
<1>5. P \in Promoters(S) /\ U \in Promoters(S)
  BY <1>1, <1>2, <1>3, <1>4 DEF Promoters
<1>6. GetValue(U, now) = GetValue(p, now)
  BY <1>3 DEF GetValue, IsActive
<1>7. GetValue(P, now) = GetValue(p, now)
  <2>1. CASE IsActive(p, now)
    BY <1>2, <2>1 DEF GetValue, IsActive
  <2>2. CASE ~IsActive(p, now)
    BY <1>1, <2>2, Zenon DEF GetValue, MaybePromote
  <2> QED  BY <2>1, <2>2, Zenon
<1> QED  BY <1>2, <1>3, <1>4, <1>5, <1>6, <1>7

\* The same for the version, which the actions promote or update.
LEMMA VersionPromotion ==
  ASSUME version \in Promoters(0..MaxVersion), block \in Nat,
         NEW v \in 0..MaxVersion
  PROVE  LET m == MaybePromote(version, block)
             u == Update(version, v, block)
         IN  /\ m \in Promoters(0..MaxVersion) /\ u \in Promoters(0..MaxVersion)
             /\ m.cached = EvmVersion /\ m.pending = version.pending
             /\ u.cached = EvmVersion /\ u.pending = v
             /\ GetValue(m, block) = EvmVersion /\ GetValue(u, block) = EvmVersion
<1> DEFINE S == 0..MaxVersion
<1>1. version \in Promoters(S) /\ v \in S
  BY Zenon
<1> HIDE DEF S
<1>2. /\ MaybePromote(version, block) \in Promoters(S)
      /\ Update(version, v, block) \in Promoters(S)
      /\ GetValue(MaybePromote(version, block), block) = GetValue(version, block)
      /\ GetValue(Update(version, v, block), block) = GetValue(version, block)
      /\ Update(version, v, block).cached = GetValue(version, block)
      /\ Update(version, v, block).pending = v
      /\ MaybePromote(version, block).cached = GetValue(version, block)
      /\ MaybePromote(version, block).pending = version.pending
  BY <1>1, Promotion, SMTT(30)
<1> QED  BY <1>2, Zenon DEF EvmVersion, S

\* The facts about a queue that the two queue operations need and keep.
QueueOK(q) ==
  /\ DOMAIN q \subseteq Nat
  /\ \A k \in DOMAIN q : k <= ActivationBlock
  /\ FrontCoversQueue(q)

\* enqueue: the front still covers the queue, also when it is a left-over one.
LEMMA EnqueueKeeps ==
  ASSUME block \in Nat, front \in Nat, front <= ActivationBlock,
         NEW q, QueueOK(q), NEW value, NEW isCurrent \in BOOLEAN
  PROVE  LET r == Enqueued(q, value, isCurrent)
             f == FrontAfterEnqueue(q, value, isCurrent)
         IN  /\ DOMAIN r \subseteq Nat
             /\ f \in Nat /\ f <= ActivationBlock
             /\ \A k \in DOMAIN r :
                  /\ k <= ActivationBlock /\ 0 < f /\ f <= k
                  /\ r[k] = value \/ (k \in DOMAIN q /\ r[k] = q[k])
<1>1. ActivationBlock \in Nat /\ 0 < ActivationBlock
  BY GasConfigAssumption DEF ActivationBlock
<1>2. CASE Unnecessary(q, value, isCurrent)
  BY <1>1, <1>2, Zenon DEF Enqueued, FrontAfterEnqueue, QueueOK, FrontCoversQueue
<1>3. CASE ~Unnecessary(q, value, isCurrent)
  BY <1>1, <1>3 DEF Enqueued, FrontAfterEnqueue, QueueOK, FrontCoversQueue
<1> QED  BY <1>2, <1>3, Zenon

\* process_queue: the rows left are covered by the new front.
LEMMA ProcessKeeps ==
  ASSUME block \in Nat, front \in Nat, front <= ActivationBlock,
         NEW q, QueueOK(q)
  PROVE  LET r == Remaining(q)
             f == FrontAfter(q)
         IN  /\ DOMAIN r \subseteq DOMAIN q
             /\ f \in Nat /\ f <= ActivationBlock
             /\ \A k \in DOMAIN r : 0 < f /\ f <= k /\ r[k] = q[k]
<1>1. ActivationBlock \in Nat /\ DOMAIN q \subseteq Nat
  BY GasConfigAssumption DEF ActivationBlock, QueueOK
<1>2. /\ DOMAIN Remaining(q) = DOMAIN q \ Due(q)
      /\ \A k \in DOMAIN Remaining(q) : Remaining(q)[k] = q[k]
  BY Zenon DEF Remaining, Restrict
<1>3. CASE Due(q) = {}
  BY <1>2, <1>3, Zenon DEF FrontAfter, QueueOK, FrontCoversQueue
<1>4. CASE Due(q) # {} /\ DOMAIN q = Due(q)
  BY <1>1, <1>2, <1>4 DEF FrontAfter
<1>5. CASE Due(q) # {} /\ DOMAIN q # Due(q)
  <2> DEFINE rest == DOMAIN q \ Due(q)
  <2>1. rest \in SUBSET Nat /\ rest # {}
    BY <1>1, <1>5, Zenon DEF Due
  <2>2. Min(rest) \in rest /\ \A k \in rest : Min(rest) <= k
    BY <2>1, MinExists, Zenon
  <2>3. FrontAfter(q) = Min(rest)
    BY <1>5, Zenon DEF FrontAfter
  <2> HIDE DEF rest
  <2>4. rest \subseteq DOMAIN q
    BY Zenon DEF rest
  <2>5. 0 < Min(rest) /\ Min(rest) <= ActivationBlock /\ Min(rest) \in Nat
    BY <1>1, <2>2, <2>4 DEF QueueOK, FrontCoversQueue
  <2> QED  BY <1>2, <2>2, <2>3, <2>4, <2>5, Zenon DEF rest
<1> QED  BY <1>3, <1>4, <1>5, Zenon

\* What the due rows leave in gas_price is a price, and a storage price never
\* becomes 0 or unset again.
LEMMA ProcessedPrices ==
  ASSUME TypeOK
  PROVE  /\ PriceAfter \in Prices \cup {0}
         /\ \A field \in {"overhead", "storage"} :
              /\ PricesAfter(field) \in Prices \cup {Unset}
              /\ \/ PricesAfter(field) = gasPrices[field]
                 \/ /\ PricesAfter(field) # Unset
                    /\ \E k \in DOMAIN pricesQueue :
                         PricesAfter(field) = pricesQueue[k][field]
<1>1. /\ block \in Nat
      /\ DOMAIN priceQueue \subseteq Nat /\ DOMAIN pricesQueue \subseteq Nat
  BY Zenon DEF TypeOK
<1>2. PriceAfter \in Prices \cup {0}
  <2> DEFINE rows == Due(priceQueue)
  <2>1. rows \in SUBSET Nat /\ rows \subseteq DOMAIN priceQueue
        /\ \A k \in rows : k <= block
    BY <1>1, Zenon DEF Due, IsDue
  <2>2. rows # {} => Max(rows) \in rows
    BY <1>1, <2>1, MaxExists, Zenon
  <2>3. PriceAfter = IF rows = {} THEN gasPrice ELSE priceQueue[Max(rows)]
    BY Zenon DEF PriceAfter
  <2> HIDE DEF rows
  <2> QED  BY <2>1, <2>2, <2>3, Zenon DEF TypeOK
<1>3. ASSUME NEW field \in {"overhead", "storage"}
      PROVE  /\ PricesAfter(field) \in Prices \cup {Unset}
             /\ \/ PricesAfter(field) = gasPrices[field]
                \/ /\ PricesAfter(field) # Unset
                   /\ \E k \in DOMAIN pricesQueue :
                        PricesAfter(field) = pricesQueue[k][field]
  <2> DEFINE rows == {k \in Due(pricesQueue) : pricesQueue[k][field] # Unset}
  <2>1. /\ rows \in SUBSET Nat /\ rows \subseteq DOMAIN pricesQueue
        /\ \A k \in rows : k <= block /\ pricesQueue[k][field] # Unset
    BY <1>1, Zenon DEF Due, IsDue
  <2>2. rows # {} => Max(rows) \in rows
    BY <1>1, <2>1, MaxExists, Zenon
  <2>3. PricesAfter(field) =
          IF rows = {} THEN gasPrices[field] ELSE pricesQueue[Max(rows)][field]
    BY Zenon DEF PricesAfter
  <2>4. /\ gasPrices[field] \in Prices \cup {Unset}
        /\ \A k \in DOMAIN pricesQueue : pricesQueue[k][field] \in Prices \cup {Unset}
    BY <1>3, Zenon DEF TypeOK, PricesOrUnset
  <2> HIDE DEF rows
  <2> QED  BY <2>1, <2>2, <2>3, <2>4, Zenon
<1> QED  BY <1>2, <1>3, Zenon

\* No action that leaves the block and the version in force as they are breaks
\* the facts about prices, or takes a storage price away.
LEMMA PricingSteps ==
  ASSUME Inv, block' = block, EvmVersion' = EvmVersion
  PROVE  /\ UNCHANGED pricing => PricingOK'
         /\ \A price \in Prices :
              EvmVersion < 3 /\ EnqueueGasPrice(price) => PricingOK'
         /\ \A prices \in PricesOrUnset :
              prices.storage # 0 /\ EvmVersion >= 3 /\ EnqueueGasPrices(prices)
                => PricingOK'
         /\ ProcessPriceQueue =>
              PricingOK' /\ (gasPrices.storage > 0 => gasPrices'.storage > 0)
<1>1. /\ TypeOK /\ PricingOK /\ ActivationBlock' = ActivationBlock
      /\ block \in Nat /\ front \in Nat /\ front <= ActivationBlock
      /\ EvmVersion \in 0..3
  BY Promotion, Zenon DEF Inv, PricingOK, TypeOK, ActivationBlock, EvmVersion, MaxVersion
<1>2. /\ EvmVersion < 3 => QueueOK(priceQueue)
      /\ EvmVersion >= 3 => QueueOK(pricesQueue)
  BY <1>1, Zenon DEF PricingOK, QueueOK, NoChangeHidden
<1>3. ASSUME UNCHANGED pricing
      PROVE  PricingOK'
  BY <1>1, <1>3, Zenon DEF PricingOK, pricing, NoChangeHidden, FrontCoversQueue
<1>4. ASSUME NEW price \in Prices, EvmVersion < 3, EnqueueGasPrice(price)
      PROVE  PricingOK'
  <2> DEFINE same == price = gasPrice
             r == Enqueued(priceQueue, price, same)
             f == FrontAfterEnqueue(priceQueue, price, same)
  <2>1. /\ priceQueue' = r /\ front' = f
        /\ UNCHANGED <<gasPrice, gasPrices, pricesQueue>>
    BY <1>4, Zenon DEF EnqueueGasPrice
  <2>2. same \in BOOLEAN
    BY Zenon
  <2> HIDE DEF same
  <2>3. /\ DOMAIN r \subseteq Nat /\ f \in Nat /\ f <= ActivationBlock
        /\ \A k \in DOMAIN r :
             /\ k <= ActivationBlock /\ 0 < f /\ f <= k
             /\ r[k] = price \/ (k \in DOMAIN priceQueue /\ r[k] = priceQueue[k])
    BY <1>1, <1>2, <1>4, <2>2, EnqueueKeeps, Zenon
  <2> HIDE DEF r, f
  <2> QED  BY <1>1, <1>4, <2>1, <2>3, Zenon DEF PricingOK, NoChangeHidden, FrontCoversQueue
<1>5. ASSUME NEW prices \in PricesOrUnset, prices.storage # 0, EvmVersion >= 3,
             EnqueueGasPrices(prices)
      PROVE  PricingOK'
  <2> DEFINE same == Merge(gasPrices, prices) = gasPrices
             r == Enqueued(pricesQueue, prices, same)
             f == FrontAfterEnqueue(pricesQueue, prices, same)
  <2>1. /\ pricesQueue' = r /\ front' = f
        /\ UNCHANGED <<gasPrice, gasPrices, priceQueue>>
    BY <1>5, Zenon DEF EnqueueGasPrices
  <2>2. same \in BOOLEAN
    BY Zenon
  <2> HIDE DEF same
  <2>3. /\ DOMAIN r \subseteq Nat /\ f \in Nat /\ f <= ActivationBlock
        /\ \A k \in DOMAIN r :
             /\ k <= ActivationBlock /\ 0 < f /\ f <= k
             /\ r[k] = prices \/ (k \in DOMAIN pricesQueue /\ r[k] = pricesQueue[k])
    BY <1>1, <1>2, <1>5, <2>2, EnqueueKeeps, Zenon
  <2> HIDE DEF r, f
  <2> QED  BY <1>1, <1>5, <2>1, <2>3 DEF PricingOK, NoChangeHidden, FrontCoversQueue
<1>6. ASSUME ProcessPriceQueue
      PROVE  PricingOK' /\ (gasPrices.storage > 0 => gasPrices'.storage > 0)
  <2>1. CASE EvmVersion >= 3
    <3> DEFINE r == Remaining(pricesQueue)
               f == FrontAfter(pricesQueue)
    <3>1. /\ gasPrices' = [overhead |-> PricesAfter("overhead"),
                           storage |-> PricesAfter("storage")]
          /\ pricesQueue' = r /\ front' = f /\ UNCHANGED <<gasPrice, priceQueue>>
      BY <1>1, <1>6, <2>1 DEF ProcessPriceQueue
    <3>2. /\ DOMAIN r \subseteq DOMAIN pricesQueue /\ f \in Nat /\ f <= ActivationBlock
          /\ \A k \in DOMAIN r : 0 < f /\ f <= k /\ r[k] = pricesQueue[k]
      BY <1>1, <1>2, <2>1, ProcessKeeps, Zenon
    <3>3. /\ PricesAfter("overhead") \in Prices \cup {Unset}
          /\ PricesAfter("storage") \in Prices \cup {Unset}
          /\ \/ PricesAfter("storage") = gasPrices["storage"]
             \/ /\ PricesAfter("storage") # Unset
                /\ \E k \in DOMAIN pricesQueue :
                     PricesAfter("storage") = pricesQueue[k]["storage"]
      BY <1>1, ProcessedPrices, Zenon
    <3> HIDE DEF r, f
    <3>4. gasPrices' \in PricesOrUnset
      BY <3>1, <3>3, Zenon DEF PricesOrUnset
    <3>5. gasPrices.storage > 0 => gasPrices'.storage > 0
      <4>1. \A x \in Prices \cup {Unset} : x # 0 /\ x # Unset => x > 0
        BY GasConfigAssumption DEF Unset
      <4>2. gasPrices'.storage = PricesAfter("storage")
        BY <3>1, Zenon
      <4>3. \A k \in DOMAIN pricesQueue : pricesQueue[k]["storage"] # 0
        BY <1>1, Zenon DEF PricingOK
      <4> QED  BY <3>3, <4>1, <4>2, <4>3, Zenon
    <3> QED
      BY <1>1, <2>1, <3>1, <3>2, <3>4, <3>5 DEF PricingOK, NoChangeHidden, FrontCoversQueue
  <2>2. CASE EvmVersion \in {1, 2}
    <3> DEFINE r == Remaining(priceQueue)
               f == FrontAfter(priceQueue)
    <3>1. /\ gasPrice' = PriceAfter /\ priceQueue' = r /\ front' = f
          /\ UNCHANGED <<gasPrices, pricesQueue>>
      BY <1>1, <1>6, <2>2 DEF ProcessPriceQueue
    <3>2. /\ DOMAIN r \subseteq DOMAIN priceQueue /\ f \in Nat /\ f <= ActivationBlock
          /\ \A k \in DOMAIN r : 0 < f /\ f <= k /\ r[k] = priceQueue[k]
      BY <1>1, <1>2, <2>2, ProcessKeeps
    <3>3. PriceAfter \in Prices \cup {0}
      BY <1>1, ProcessedPrices, Zenon
    <3> HIDE DEF r, f
    <3> QED
      BY <1>1, <2>2, <3>1, <3>2, <3>3 DEF PricingOK, NoChangeHidden, FrontCoversQueue
  <2>3. CASE EvmVersion = 0
    BY <1>3, <1>6, <2>3 DEF ProcessPriceQueue, pricing
  <2> QED  BY <1>1, <2>1, <2>2, <2>3
<1> QED  BY <1>3, <1>4, <1>5, <1>6, Zenon

\* init establishes the invariant.
LEMMA Initially == Init => Inv
BY GasConfigAssumption
   DEF Init, Inv, TypeOK, PricingOK, NoTx, Promoter, Promoters, PricesOrUnset,
       EvmVersion, GetValue, IsActive, Unset, ActivationBlock, NoChangeHidden,
       FrontCoversQueue, Version3HasStoragePrice, NoCutFromVersion1, MaxVersion

\* Every action keeps the invariant, and none lowers the version in force.
LEMMA Inductive ==
  ASSUME Inv, [Next]_vars
  PROVE  Inv' /\ EvmVersion' >= EvmVersion
<1> USE DEF Inv
<1> DEFINE RanType == [block : Nat, version : 0..MaxVersion, base : Nat,
                       params : ParamSets]
           Rest == minerCut \in {0, 1} /\ announced \in ParamSets /\ ran \in RanType
<1>1. /\ block \in Nat /\ version \in Promoters(0..MaxVersion)
      /\ params \in Promoters(ParamSets) /\ Rest
      /\ version.cached \in 0..3 /\ version.pending \in 0..3 /\ EvmVersion \in 0..3
      /\ version.cached <= EvmVersion /\ EvmVersion <= version.pending
      /\ EvmVersion = GetValue(version, block) /\ PricingOK /\ TypeOK
  BY DEF TypeOK, Promoters, EvmVersion, GetValue, MaxVersion
<1>2. CASE Tick
  <2>1. /\ block' = block + 1
        /\ UNCHANGED <<version, params, minerCut, announced, ran>>
        /\ UNCHANGED <<gasPrice, gasPrices, priceQueue, pricesQueue, front>>
    BY <1>2, Zenon DEF Tick, pricing, history
  <2>2. EvmVersion' >= EvmVersion /\ EvmVersion' \in 0..3
    BY <1>1, <2>1 DEF EvmVersion, GetValue, IsActive, Promoters, Unset
  <2>3. ActivationBlock \in Nat /\ ActivationBlock' = ActivationBlock + 1
    BY <1>1, <2>1, GasConfigAssumption DEF ActivationBlock
  <2>4. PricingOK'
    BY <1>1, <2>1, <2>2, <2>3 DEF PricingOK, NoChangeHidden, FrontCoversQueue
  <2>5. TypeOK'
    BY <1>1, <2>1, <2>4 DEF TypeOK
  <2> QED
    BY <1>1, <2>1, <2>2, <2>4, <2>5 DEF Version3HasStoragePrice, NoCutFromVersion1
<1>3. /\ CutAfterPromotion \in {0, 1}
      /\ EvmVersion >= 1 => CutAfterPromotion = 0
  BY <1>1, Zenon DEF CutAfterPromotion, EvmVersion, GetValue, NoCutFromVersion1
<1>4. ASSUME version' = MaybePromote(version, block), block' = block
       PROVE  /\ version' \in Promoters(0..MaxVersion) /\ EvmVersion' = EvmVersion
              /\ version'.cached = EvmVersion /\ version'.pending = version.pending
  <2> DEFINE m == MaybePromote(version, block)
  <2>1. /\ m \in Promoters(0..MaxVersion) /\ m.cached = EvmVersion
        /\ GetValue(m, block) = EvmVersion /\ m.pending = version.pending
    <3>1. 0 \in 0..MaxVersion
      BY DEF MaxVersion
    <3> QED  BY <1>1, <3>1, VersionPromotion, Zenon
  <2> HIDE DEF m
  <2>2. version' = m
    BY <1>4, Zenon DEF m
  <2> QED  BY <1>4, <2>1, <2>2, Zenon DEF EvmVersion
<1>5. ASSUME NEW v \in 0..MaxVersion + 1, SetVersion(v)
      PROVE  Inv' /\ EvmVersion' >= EvmVersion
  <2>1. /\ v \in 0..MaxVersion /\ v > EvmVersion
        /\ v = 3 => front = 0 /\ ValueOr0(gasPrices.storage) # 0
        /\ version' = Update(version, v, block) /\ minerCut' = CutAfterPromotion
        /\ gasPrice' \in {0, gasPrice}
        /\ UNCHANGED <<block, params, announced, ran>>
        /\ UNCHANGED <<gasPrices, priceQueue, pricesQueue, front>>
    BY <1>5 DEF SetVersion, VersionAllowed, history, MaxVersion
  <2>2. /\ version' \in Promoters(0..MaxVersion) /\ EvmVersion' = EvmVersion
        /\ version'.cached = EvmVersion /\ version'.pending = v
    <3> DEFINE u == Update(version, v, block)
    <3>1. /\ u \in Promoters(0..MaxVersion) /\ u.cached = EvmVersion
          /\ GetValue(u, block) = EvmVersion /\ u.pending = v
      BY <1>1, <2>1, VersionPromotion, Zenon
    <3> HIDE DEF u
    <3>2. version' = u /\ block' = block
      BY <2>1, Zenon DEF u
    <3> QED  BY <3>1, <3>2, Zenon DEF EvmVersion
  <2>3. PricingOK'
    BY <1>1, <2>1, <2>2, Zenon DEF PricingOK, NoChangeHidden, FrontCoversQueue, ActivationBlock
  <2>4. TypeOK'
    BY <1>1, <1>3, <2>1, <2>2, <2>3, Zenon DEF TypeOK, PricingOK
  <2>5. Version3HasStoragePrice'
    <3>1. gasPrices.storage \in Nat \cup {Unset}
      BY <1>1, GasConfigAssumption, Zenon DEF PricingOK, PricesOrUnset
    <3>2. v = 3 => gasPrices.storage > 0
      BY <2>1, <3>1 DEF ValueOr0, Unset
    <3> QED  BY <1>1, <2>1, <2>2, <3>2 DEF Version3HasStoragePrice
  <2> QED  BY <1>1, <1>3, <2>1, <2>2, <2>3, <2>4, <2>5 DEF NoCutFromVersion1
<1>6. ASSUME NEW price \in Prices \cup {Unset}, NEW cut \in {Unset, 0, 1},
             SetFeeParams(price, cut)
      PROVE  Inv' /\ EvmVersion' >= EvmVersion
  <2>1. /\ UNCHANGED <<block, version, params, announced, ran>>
        /\ EvmVersion' = EvmVersion
        /\ minerCut' \in {0, 1} /\ (EvmVersion = 0 \/ minerCut' = minerCut)
    BY <1>1, <1>6, Zenon DEF SetFeeParams, history, EvmVersion
  <2>2. PricingOK' /\ gasPrices' = gasPrices
    <3>1. CASE UNCHANGED pricing
      BY <2>1, <3>1, PricingSteps, Zenon DEF pricing
    <3>2. CASE price # Unset /\ EvmVersion \in {1, 2} /\ EnqueueGasPrice(price)
      BY <2>1, <3>2, PricingSteps DEF EnqueueGasPrice
    <3>3. CASE /\ price # Unset /\ gasPrice' = price
               /\ UNCHANGED <<gasPrices, priceQueue, pricesQueue, front>>
      BY <1>1, <2>1, <3>3, Zenon DEF PricingOK, NoChangeHidden, FrontCoversQueue, ActivationBlock
    <3> QED  BY <1>6, <3>1, <3>2, <3>3, Zenon DEF SetFeeParams
  <2>3. TypeOK'
    BY <1>1, <2>1, <2>2, Zenon DEF TypeOK, PricingOK
  <2> QED
    BY <1>1, <2>1, <2>2, <2>3 DEF Version3HasStoragePrice, NoCutFromVersion1
<1>7. ASSUME NEW prices \in PricesOrUnset, SetGasPrices(prices)
      PROVE  Inv' /\ EvmVersion' >= EvmVersion
  <2>1. /\ prices.storage # 0
        /\ version' = MaybePromote(version, block) /\ minerCut' = CutAfterPromotion
        /\ UNCHANGED <<block, params, announced, ran>>
    BY <1>7, Zenon DEF SetGasPrices, PromoteVersion, history
  <2>2. /\ version' \in Promoters(0..MaxVersion) /\ EvmVersion' = EvmVersion
        /\ version'.cached = EvmVersion /\ version'.pending = version.pending
    BY <1>4, <2>1, Zenon
  <2>3. PricingOK' /\ (gasPrices.storage > 0 => gasPrices'.storage > 0)
    <3>1. CASE EvmVersion >= 3 /\ EnqueueGasPrices(prices)
      BY <2>1, <2>2, <3>1, PricingSteps, Zenon DEF EnqueueGasPrices
    <3>2. CASE /\ gasPrices' = Merge(gasPrices, prices)
               /\ UNCHANGED <<gasPrice, priceQueue, pricesQueue, front>>
      <4>1. /\ gasPrices.overhead \in Prices \cup {Unset}
            /\ gasPrices.storage \in Prices \cup {Unset}
            /\ prices.overhead \in Prices \cup {Unset}
            /\ prices.storage \in Prices \cup {Unset}
        BY <1>1, Zenon DEF PricingOK, PricesOrUnset
      <4>2. gasPrices' \in PricesOrUnset
        BY <3>2, <4>1, Zenon DEF Merge, PricesOrUnset
      <4>3. gasPrices.storage > 0 => gasPrices'.storage > 0
        <5>1. gasPrices'.storage = IF prices.storage = Unset THEN gasPrices.storage
                                                            ELSE prices.storage
          BY <3>2, Zenon DEF Merge
        <5>2. prices.storage # Unset => prices.storage > 0
          <6>1. prices.storage # Unset => prices.storage \in Nat
            BY <4>1, GasConfigAssumption, Zenon
          <6> QED  BY <2>1, <6>1
        <5> QED  BY <5>1, <5>2, Zenon
      <4> QED
        BY <1>1, <2>1, <2>2, <3>2, <4>2, <4>3, Zenon
           DEF PricingOK, NoChangeHidden, FrontCoversQueue, ActivationBlock
    <3> QED  BY <1>7, <3>1, <3>2, Zenon DEF SetGasPrices
  <2>4. TypeOK'
    BY <1>1, <1>3, <2>1, <2>2, <2>3, Zenon DEF TypeOK, PricingOK
  <2>5. Version3HasStoragePrice'
    BY <1>1, <2>2, <2>3 DEF Version3HasStoragePrice
  <2> QED  BY <1>1, <1>3, <2>1, <2>2, <2>3, <2>4, <2>5 DEF NoCutFromVersion1
<1>8. ASSUME NEW p \in ParamSets, UpdateConsensusParameters2(p), PricingOK',
             gasPrices' = gasPrices,
             UNCHANGED <<block, version, minerCut, announced, ran>>
      PROVE  Inv' /\ EvmVersion' >= EvmVersion
  <2>1. EvmVersion >= 1 /\ params' \in Promoters(ParamSets) /\ EvmVersion' = EvmVersion
    BY <1>1, <1>8, Promotion, Zenon DEF UpdateConsensusParameters2, EvmVersion
  <2>2. TypeOK'
    BY <1>1, <1>8, <2>1, Zenon DEF TypeOK, PricingOK
  <2> QED
    BY <1>1, <1>8, <2>1, <2>2 DEF Version3HasStoragePrice, NoCutFromVersion1
<1>9. ASSUME NEW p \in ParamSets, SetGasParam(p)
      PROVE  Inv' /\ EvmVersion' >= EvmVersion
  <2>1. /\ UpdateConsensusParameters2(p) /\ UNCHANGED pricing
        /\ UNCHANGED <<block, version, minerCut, announced, ran>>
    BY <1>9, Zenon DEF SetGasParam, history
  <2>2. EvmVersion' = EvmVersion
    BY <2>1, Zenon DEF EvmVersion
  <2> QED  BY <1>8, <2>1, <2>2, PricingSteps, Zenon DEF pricing
<1>10. ASSUME NEW p \in ParamSets, NEW price \in Prices, UpdtGasParam(p, price)
      PROVE  Inv' /\ EvmVersion' >= EvmVersion
  <2> DEFINE prices == [overhead |-> Unset, storage |-> price]
  <2>1. /\ UpdateConsensusParameters2(p) /\ price > 0
        /\ \/ EvmVersion >= 3 /\ EnqueueGasPrices(prices)
           \/ EvmVersion < 3 /\ EnqueueGasPrice(price)
        /\ UNCHANGED <<block, version, minerCut, announced, ran>>
    BY <1>10, Zenon DEF UpdtGasParam, history
  <2>2. EvmVersion' = EvmVersion
    BY <2>1, Zenon DEF EvmVersion
  <2>3. prices \in PricesOrUnset /\ prices.storage # 0
    BY <2>1, GasConfigAssumption DEF PricesOrUnset
  <2> HIDE DEF prices
  <2>4. PricingOK' /\ gasPrices' = gasPrices
    BY <2>1, <2>2, <2>3, PricingSteps, Zenon DEF EnqueueGasPrices, EnqueueGasPrice
  <2> QED  BY <1>8, <2>1, <2>4, Zenon
<1>11. CASE PushTx
  <2>1. /\ ProcessPriceQueue
        /\ version' = MaybePromote(version, block) /\ minerCut' = CutAfterPromotion
        /\ params' = MaybePromote(params, block) /\ UNCHANGED block
        /\ announced' \in {params.pending, announced}
        /\ ran' = [block |-> block, version |-> EvmVersion,
                   base |-> GasPriceAt(EvmVersion, gasPrice', gasPrices'),
                   params |-> GetValue(params, block)]
    BY <1>11, Zenon DEF PushTx, PromoteVersion
  <2>2. /\ version' \in Promoters(0..MaxVersion) /\ EvmVersion' = EvmVersion
        /\ version'.cached = EvmVersion /\ version'.pending = version.pending
    BY <1>4, <2>1, Zenon
  <2>3. /\ params' \in Promoters(ParamSets) /\ params'.since \in {Unset, params.since}
        /\ GetValue(params, block) \in ParamSets /\ params.pending \in ParamSets
    BY <1>1, <2>1, Promotion, GasConfigAssumption, Zenon DEF Promoters
  <2>4. PricingOK' /\ (gasPrices.storage > 0 => gasPrices'.storage > 0)
    BY <2>1, <2>2, PricingSteps, Zenon
  <2>5. GasPriceAt(EvmVersion, gasPrice', gasPrices') \in Nat
    <3>1. /\ gasPrice' \in Nat
          /\ ValueOr0(gasPrices'.overhead) \in Nat /\ ValueOr0(gasPrices'.storage) \in Nat
      BY <2>4, GasConfigAssumption, Zenon DEF PricingOK, PricesOrUnset, ValueOr0
    <3>2. BasePrice(gasPrices') \in Nat
      BY <3>1, MaxExists DEF BasePrice
    <3> QED  BY <3>1, <3>2, Zenon DEF GasPriceAt
  <2>6. ran' \in RanType
    BY <1>1, <2>1, <2>3, <2>5, Zenon DEF MaxVersion
  <2>7. TypeOK'
    BY <1>1, <1>3, <2>1, <2>2, <2>3, <2>4, <2>6, Zenon DEF TypeOK, PricingOK
  <2>8. Version3HasStoragePrice'
    BY <1>1, <2>2, <2>4 DEF Version3HasStoragePrice
  <2> QED  BY <1>1, <1>3, <2>1, <2>2, <2>3, <2>4, <2>7, <2>8 DEF NoCutFromVersion1
<1>12. CASE Deposit
  <2>1. /\ ProcessPriceQueue
        /\ UNCHANGED <<block, version, params, minerCut, announced, ran>>
        /\ EvmVersion' = EvmVersion
    BY <1>12, Zenon DEF Deposit, history, EvmVersion
  <2>2. PricingOK' /\ (gasPrices.storage > 0 => gasPrices'.storage > 0)
    BY <2>1, PricingSteps, Zenon
  <2>3. TypeOK'
    BY <1>1, <2>1, <2>2, Zenon DEF TypeOK, PricingOK
  <2> QED
    BY <1>1, <2>1, <2>2, <2>3 DEF Version3HasStoragePrice, NoCutFromVersion1
<1>13. CASE UNCHANGED vars
  <2>1. /\ UNCHANGED <<block, version, params, minerCut, announced, ran>>
        /\ UNCHANGED pricing /\ EvmVersion' = EvmVersion
    BY <1>13, Zenon DEF vars, pricing, EvmVersion
  <2>2. PricingOK'
    BY <2>1, PricingSteps, Zenon
  <2>3. TypeOK'
    BY <1>1, <2>1, <2>2, Zenon DEF TypeOK, pricing, PricingOK
  <2> QED
    BY <1>1, <2>1, <2>2, <2>3 DEF Version3HasStoragePrice, NoCutFromVersion1, pricing
<1> QED
  BY <1>2, <1>5, <1>6, <1>7, <1>9, <1>10, <1>11, <1>12, <1>13, Zenon DEF Next

\* What a step does to version and parameters: they are kept, updated or promoted.
LEMMA ParameterSteps ==
  ASSUME Inv, [Next]_vars
  PROVE  \/ params' = params
         \/ block' = block /\ params' = MaybePromote(params, block)
         \/ \E p \in ParamSets : /\ UpdateConsensusParameters2(p)
                                /\ UNCHANGED <<block, version>>
BY Zenon DEF Next, Tick, SetVersion, SetFeeParams, SetGasPrices, SetGasParam, UpdtGasParam,
       PushTx, Deposit, vars, history

\* The check of gas_sset stays good: the version in force does not go back.
LEMMA SsetSteps ==
  ASSUME Inv, SsetAboveMinimum, [Next]_vars
  PROVE  SsetAboveMinimum'
<1>1. /\ EvmVersion' >= EvmVersion /\ EvmVersion \in Int /\ EvmVersion' \in Int
      /\ block \in Nat /\ params \in Promoters(ParamSets)
  BY Inductive DEF Inv, TypeOK, Promoters, EvmVersion, GetValue, MaxVersion
<1>2. CASE params' = params
  BY <1>1, <1>2 DEF SsetAboveMinimum
<1>3. CASE block' = block /\ params' = MaybePromote(params, block)
  BY <1>1, <1>3 DEF SsetAboveMinimum, MaybePromote, Promoter
<1>4. ASSUME NEW p \in ParamSets, UpdateConsensusParameters2(p),
             UNCHANGED <<block, version>>
      PROVE  SsetAboveMinimum'
  <2>1. /\ params' = Update(params, p, block) /\ EvmVersion' = EvmVersion
        /\ p \in SmallSset => EvmVersion >= 3
    BY <1>4, Zenon DEF UpdateConsensusParameters2, EvmVersion
  <2>2. params'.pending = p /\ params'.cached = GetValue(params, block)
    BY <1>1, <2>1, Promotion
  <2> QED  BY <1>1, <2>1, <2>2 DEF SsetAboveMinimum, GetValue
<1> QED  BY <1>2, <1>3, <1>4, ParameterSteps, Zenon

\* Which rows a call of process_queue leaves, and what a queue without due rows does.
LEMMA NothingDueLeft ==
  ASSUME block \in Nat, front \in Nat, NEW q, QueueOK(q)
  PROVE  /\ \A k \in DOMAIN Remaining(q) : k \in DOMAIN q /\ k > block
         /\ (\A k \in DOMAIN q : k > block) => Due(q) = {}
<1>1. DOMAIN q \subseteq Nat /\ DOMAIN Remaining(q) = DOMAIN q \ Due(q)
  BY Zenon DEF QueueOK, Remaining, Restrict
<1>2. \A k \in DOMAIN q : k <= block => k \in Due(q)
  BY <1>1 DEF Due, IsDue, QueueOK, FrontCoversQueue
<1>3. (\A k \in DOMAIN q : k > block) => Due(q) = {}
  BY <1>1 DEF Due, IsDue
<1> QED  BY <1>1, <1>2, <1>3

\* base is the price in force, up to a gas price zeroed by setversion, and the row
\* that is due next lies in a later block.
HeldPrices(base) ==
  /\ EvmVersion \in {1, 2} =>
       gasPrice \in {base, 0} /\ \A k \in DOMAIN priceQueue : k > block
  /\ EvmVersion >= 3 =>
       BasePrice(gasPrices) = base /\ \A k \in DOMAIN pricesQueue : k > block

\* What the last transaction of the current block saw is what the next one is
\* going to see.
Header ==
  /\ ran.block <= block
  /\ ran.block = block =>
       /\ ran.version = EvmVersion /\ ran.params = GetValue(params, block)
       /\ HeldPrices(ran.base)

\* Within a block, administration does not disturb the prices that were seen.
LEMMA EnqueueHolds ==
  ASSUME Inv, NEW base, HeldPrices(base), block' = block, EvmVersion' = EvmVersion
  PROVE  /\ \A price \in Prices :
              EvmVersion \in {1, 2} /\ EnqueueGasPrice(price) => HeldPrices(base)'
         /\ \A prices \in PricesOrUnset :
              EvmVersion >= 3 /\ EnqueueGasPrices(prices) => HeldPrices(base)'
<1>1. /\ block \in Nat /\ ActivationBlock > block /\ EvmVersion \in 0..3
      /\ DOMAIN priceQueue \subseteq Nat /\ DOMAIN pricesQueue \subseteq Nat
  BY GasConfigAssumption
     DEF Inv, TypeOK, ActivationBlock, EvmVersion, GetValue, Promoters, MaxVersion
<1>2. ASSUME NEW q, NEW value, NEW same, \A k \in DOMAIN q : k > block
      PROVE  \A k \in DOMAIN Enqueued(q, value, same) : k > block
  BY <1>1, <1>2, Zenon DEF Enqueued
<1>3. ASSUME NEW price \in Prices, EvmVersion \in {1, 2}, EnqueueGasPrice(price)
      PROVE  HeldPrices(base)'
  BY <1>1, <1>2, <1>3, Zenon DEF HeldPrices, EnqueueGasPrice
<1>4. ASSUME NEW prices \in PricesOrUnset, EvmVersion >= 3, EnqueueGasPrices(prices)
      PROVE  HeldPrices(base)'
  BY <1>1, <1>2, <1>4, Zenon DEF HeldPrices, EnqueueGasPrices
<1> QED  BY <1>3, <1>4, Zenon

\* process_price_queue finds nothing to do when the prices were seen in this block,
\* and leaves nothing to do.
LEMMA ProcessHolds ==
  ASSUME Inv, ProcessPriceQueue, block' = block, EvmVersion' = EvmVersion
  PROVE  /\ HeldPrices(GasPriceAt(EvmVersion, gasPrice, gasPrices))'
         /\ \A base : EvmVersion >= 1 /\ HeldPrices(base) =>
              /\ HeldPrices(base)'
              /\ GasPriceAt(EvmVersion, gasPrice', gasPrices') \in {base, 0}
<1>1. /\ block \in Nat /\ front \in Nat /\ EvmVersion \in 0..3
      /\ EvmVersion < 3 => QueueOK(priceQueue)
      /\ EvmVersion >= 3 => QueueOK(pricesQueue)
  BY Zenon DEF Inv, TypeOK, EvmVersion, GetValue, Promoters, MaxVersion, PricingOK, QueueOK,
         NoChangeHidden
<1>2. CASE EvmVersion >= 3
  <2>1. /\ gasPrices' = [overhead |-> PricesAfter("overhead"),
                         storage |-> PricesAfter("storage")]
        /\ pricesQueue' = Remaining(pricesQueue)
    BY <1>1, <1>2 DEF ProcessPriceQueue
  <2>2. \A k \in DOMAIN pricesQueue' : k > block
    BY <1>1, <1>2, <2>1, NothingDueLeft, Zenon
  <2>3. ASSUME \A k \in DOMAIN pricesQueue : k > block
        PROVE  BasePrice(gasPrices') = BasePrice(gasPrices)
    <3>1. Due(pricesQueue) = {}
      BY <1>1, <1>2, <2>3, NothingDueLeft, Zenon
    <3>2. /\ PricesAfter("overhead") = gasPrices["overhead"]
          /\ PricesAfter("storage") = gasPrices["storage"]
      BY <3>1, Zenon DEF PricesAfter
    <3> QED  BY <2>1, <3>2, Zenon DEF BasePrice
  <2> QED  BY <1>1, <1>2, <2>2, <2>3 DEF HeldPrices, GasPriceAt
<1>3. CASE EvmVersion \in {1, 2}
  <2>1. gasPrice' = PriceAfter /\ priceQueue' = Remaining(priceQueue)
    BY <1>1, <1>3 DEF ProcessPriceQueue
  <2>2. \A k \in DOMAIN priceQueue' : k > block
    BY <1>1, <1>3, <2>1, NothingDueLeft
  <2>3. ASSUME \A k \in DOMAIN priceQueue : k > block
        PROVE  gasPrice' = gasPrice
    <3>1. Due(priceQueue) = {}
      BY <1>1, <1>3, <2>3, NothingDueLeft
    <3> QED  BY <2>1, <3>1, Zenon DEF PriceAfter
  <2> QED  BY <1>1, <1>3, <2>2, <2>3 DEF HeldPrices, GasPriceAt
<1>4. CASE EvmVersion = 0
  BY <1>4 DEF HeldPrices
<1> QED  BY <1>1, <1>2, <1>3, <1>4

\* No step but a transaction changes what transactions of the block see, and a
\* transaction sees what the last one saw.
LEMMA HeaderSteps ==
  ASSUME Inv, Header, [Next]_vars
  PROVE  /\ Header'
         /\ ran' # ran /\ ran'.block = ran.block =>
              /\ ran'.version = ran.version /\ ran'.params = ran.params
              /\ ran.version >= 1 => ran'.base \in {ran.base, 0}
<1>1. /\ block \in Nat /\ version \in Promoters(0..MaxVersion)
      /\ params \in Promoters(ParamSets) /\ EvmVersion \in 0..3 /\ ran.block \in Nat
      /\ 0 \in 0..MaxVersion /\ 0 \in ParamSets
  BY GasConfigAssumption DEF Inv, TypeOK, EvmVersion, GetValue, Promoters, MaxVersion
<1> DEFINE Held == HeldPrices(ran.base)
<1>2. CASE Tick
  BY <1>1, <1>2 DEF Tick, history, Header
<1>3. /\ version' = MaybePromote(version, block) => GetValue(version', block) = EvmVersion
      /\ \A v \in 0..MaxVersion : version' = Update(version, v, block) =>
                                   GetValue(version', block) = EvmVersion
  BY <1>1, VersionPromotion, Zenon
<1>4. /\ params' = MaybePromote(params, block) =>
           GetValue(params', block) = GetValue(params, block)
      /\ \A p \in ParamSets : params' = Update(params, p, block) =>
                               GetValue(params', block) = GetValue(params, block)
  <2>1. \A p \in ParamSets :
          /\ GetValue(MaybePromote(params, block), block) = GetValue(params, block)
          /\ GetValue(Update(params, p, block), block) = GetValue(params, block)
    <3> TAKE p \in ParamSets
    <3>1. params \in Promoters(ParamSets) /\ block \in Nat
      BY <1>1, Zenon
    <3> QED  BY <3>1, Promotion, SMTT(60)
  <2> QED  BY <1>1, <2>1, Zenon
<1>5. ASSUME block' = block, ran' = ran, EvmVersion' = EvmVersion,
             GetValue(params', block) = GetValue(params, block),
             Held => Held'
      PROVE  Header'
  <2>1. ran'.block = ran.block /\ ran'.version = ran.version /\ ran'.params = ran.params
    BY <1>5, Zenon
  <2> HIDE DEF Held
  <2>2. ran.block = block => Held
    BY Zenon DEF Header, Held
  <2>3. ran'.block = block' => Held'
    BY <1>5, <2>1, <2>2, Zenon
  <2> QED  BY <1>5, <2>1, <2>3, Zenon DEF Header, Held
<1>6. ASSUME UNCHANGED <<block, gasPrice, priceQueue, ran>>, EvmVersion' = EvmVersion,
             EvmVersion < 3 \/ (gasPrices' = gasPrices /\ pricesQueue' = pricesQueue)
      PROVE  Held => Held'
  BY <1>1, <1>6 DEF HeldPrices
<1>7. ASSUME NEW v \in 0..MaxVersion + 1, SetVersion(v)
      PROVE  Header' /\ ran' = ran
  <2>1. /\ v \in 0..MaxVersion /\ version' = Update(version, v, block)
        /\ gasPrice' \in {gasPrice, 0}
        /\ UNCHANGED <<block, params, ran, gasPrices, priceQueue, pricesQueue>>
    BY <1>7 DEF SetVersion, VersionAllowed, history, MaxVersion
  <2>2. EvmVersion' = EvmVersion
    BY <1>3, <2>1, Zenon DEF EvmVersion
  <2>3. Held => Held'
    BY <2>1, <2>2, Zenon DEF HeldPrices
  <2> HIDE DEF Held
  <2> QED  BY <1>5, <2>1, <2>2, <2>3, Zenon
<1>8. ASSUME NEW price \in Prices \cup {Unset}, NEW cut \in {Unset, 0, 1},
             SetFeeParams(price, cut)
      PROVE  Header' /\ ran' = ran
  <2>1. UNCHANGED <<block, version, params, ran>> /\ EvmVersion' = EvmVersion
    BY <1>8, Zenon DEF SetFeeParams, history, EvmVersion
  <2>2. CASE UNCHANGED pricing
    BY <1>5, <1>6, <2>1, <2>2, Zenon DEF pricing
  <2>3. CASE price # Unset /\ EvmVersion \in {1, 2} /\ EnqueueGasPrice(price)
    BY <1>5, <2>1, <2>3, EnqueueHolds, Zenon
  <2>4. CASE EvmVersion = 0
    BY <1>5, <2>1, <2>4 DEF HeldPrices
  <2> QED  BY <1>8, <2>2, <2>3, <2>4, Zenon DEF SetFeeParams
<1>9. ASSUME NEW prices \in PricesOrUnset, SetGasPrices(prices)
      PROVE  Header' /\ ran' = ran
  <2>1. UNCHANGED <<block, params, ran>> /\ EvmVersion' = EvmVersion
    BY <1>3, <1>9, Zenon DEF SetGasPrices, PromoteVersion, history, EvmVersion
  <2>2. CASE EvmVersion >= 3 /\ EnqueueGasPrices(prices)
    BY <1>5, <2>1, <2>2, EnqueueHolds, Zenon
  <2>3. CASE EvmVersion < 3 /\ UNCHANGED <<gasPrice, priceQueue>>
    BY <1>5, <1>6, <2>1, <2>3, Zenon
  <2> QED  BY <1>9, <2>2, <2>3, Zenon DEF SetGasPrices
<1>10. ASSUME NEW p \in ParamSets, SetGasParam(p)
       PROVE  Header' /\ ran' = ran
  BY <1>4, <1>5, <1>6, <1>10, Zenon
     DEF SetGasParam, UpdateConsensusParameters2, pricing, history, EvmVersion
<1>11. ASSUME NEW p \in ParamSets, NEW price \in Prices, UpdtGasParam(p, price)
       PROVE  Header' /\ ran' = ran
  <2> DEFINE prices == [overhead |-> Unset, storage |-> price]
  <2>1. /\ UNCHANGED <<block, version, ran>> /\ EvmVersion' = EvmVersion
        /\ EvmVersion >= 1 /\ params' = Update(params, p, block)
        /\ \/ EvmVersion >= 3 /\ EnqueueGasPrices(prices)
           \/ EvmVersion < 3 /\ EnqueueGasPrice(price)
    BY <1>11, Zenon DEF UpdtGasParam, UpdateConsensusParameters2, history, EvmVersion
  <2>2. prices \in PricesOrUnset
    BY Zenon DEF PricesOrUnset
  <2> HIDE DEF prices
  <2>3. Held => Held'
    BY <1>1, <2>1, <2>2, EnqueueHolds
  <2> QED  BY <1>4, <1>5, <2>1, <2>3, Zenon
<1>12. CASE PushTx
  <2>1. /\ ProcessPriceQueue /\ block' = block
        /\ version' = MaybePromote(version, block)
        /\ params' = MaybePromote(params, block)
        /\ ran'.block = block /\ ran'.version = EvmVersion
        /\ ran'.base = GasPriceAt(EvmVersion, gasPrice', gasPrices')
        /\ ran'.params = GetValue(params, block)
    BY <1>12, Zenon DEF PushTx, PromoteVersion
  <2>2. EvmVersion' = EvmVersion /\ GetValue(params', block) = GetValue(params, block)
    BY <1>3, <1>4, <2>1, Zenon DEF EvmVersion
  <2>3. HeldPrices(GasPriceAt(EvmVersion, gasPrice, gasPrices))'
    BY <2>1, <2>2, ProcessHolds, Zenon
  <2>4. Header'
    <3>1. Held'
      BY <2>1, <2>2, <2>3, Zenon DEF HeldPrices
    <3> QED  BY <1>1, <2>1, <2>2, <3>1 DEF Header
  <2>5. ASSUME ran.block = block
        PROVE  /\ ran'.version = ran.version /\ ran'.params = ran.params
               /\ ran.version >= 1 => ran'.base \in {ran.base, 0}
    <3>1. Held /\ ran.version = EvmVersion /\ ran.params = GetValue(params, block)
      BY <2>5, Zenon DEF Header
    <3>2. EvmVersion >= 1 =>
            GasPriceAt(EvmVersion, gasPrice', gasPrices') \in {ran.base, 0}
      BY <2>1, <2>2, <3>1, ProcessHolds, Zenon
    <3> QED  BY <2>1, <3>1, <3>2, Zenon
  <2> QED  BY <2>1, <2>4, <2>5, Zenon
<1>13. CASE Deposit
  <2>1. /\ ProcessPriceQueue /\ UNCHANGED <<block, version, params, ran>>
        /\ EvmVersion' = EvmVersion
    BY <1>13, Zenon DEF Deposit, history, EvmVersion
  <2>2. Held => Held'
    <3>1. CASE EvmVersion >= 1
      <4>1. \A base : HeldPrices(base) => HeldPrices(base)'
        BY <2>1, <3>1, ProcessHolds, Zenon
      <4> QED  BY <2>1, <4>1, Zenon
    <3>2. CASE EvmVersion = 0
      BY <2>1, <3>2 DEF HeldPrices
    <3> QED  BY <1>1, <3>1, <3>2
  <2> HIDE DEF Held
  <2> QED  BY <1>5, <2>1, <2>2, Zenon
<1>14. CASE UNCHANGED vars
  BY <1>5, <1>6, <1>14, Zenon DEF vars, EvmVersion
<1> HIDE DEF Held
<1> QED
  BY <1>2, <1>7, <1>8, <1>9, <1>10, <1>11, <1>12, <1>13, <1>14, Zenon DEF Next, Tick, history

\* Removing the rows up to block n leaves the last row what it was, if any is left.
LEMMA LastRow ==
  ASSUME NEW R \in SUBSET Nat, NEW k \in Nat, \A y \in R : y <= k,
         NEW n \in Nat, NEW D, D = {y \in R : y <= n}
  PROVE  /\ R \ D = {} => R = D
         /\ R \ D # {} => Max(R \ D) = Max(R) /\ Max(R) \in R \ D
<1>1. ASSUME R \ D # {}
      PROVE  Max(R \ D) = Max(R) /\ Max(R) \in R \ D
  <2>1. PICK y \in R \ D : TRUE
    BY <1>1, Zenon
  <2>2. Max(R) \in R /\ \A z \in R : Max(R) >= z
    <3>1. R # {}
      BY <2>1, Zenon
    <3> QED  BY <3>1, MaxGreatest, Zenon
  <2>3. Max(R) \in R \ D
    <3>1. y \in R /\ y \in Nat /\ Max(R) \in Nat /\ ~(y <= n)
      BY <2>1, <2>2, Zenon
    <3>2. ~(Max(R) <= n)
      BY <2>2, <3>1
    <3> QED  BY <2>2, <3>2, Zenon
  <2>4. \A x \in R \ D : (\A z \in R \ D : x >= z) => x = Max(R)
    <3> TAKE x \in R \ D
    <3>1. x \in Nat /\ Max(R) \in Nat /\ Max(R) >= x
      BY <2>2, Zenon
    <3> QED  BY <2>3, <3>1
  <2>5. \E x \in R \ D : \A z \in R \ D : x >= z
    BY <2>2, <2>3, Zenon
  <2>6. Max(R \ D) \in R \ D /\ \A z \in R \ D : Max(R \ D) >= z
    BY <2>5, Zenon DEF Max
  <2> QED  BY <2>3, <2>4, <2>6, Zenon
<1> QED  BY <1>1, Zenon

\* A queued change leaves the prices of the grace period alone.
LEMMA EnqueueGivesNotice ==
  ASSUME Inv
  PROVE  /\ \A price \in Prices : EnqueueGasPrice(price) =>
              \A k \in block..block + Grace : PriceAt(k)' = PriceAt(k)
         /\ \A prices \in PricesOrUnset : EnqueueGasPrices(prices) =>
              \A k \in block..block + Grace, field \in {"overhead", "storage"} :
                PricesAt(k, field)' = PricesAt(k, field)
<1>1. /\ block \in Nat /\ Grace \in Nat /\ ActivationBlock = block + Grace + 1
      /\ DOMAIN priceQueue \subseteq Nat /\ DOMAIN pricesQueue \subseteq Nat
  BY GasConfigAssumption, Zenon DEF Inv, TypeOK, ActivationBlock
<1>2. ASSUME NEW q, DOMAIN q \subseteq Nat, NEW value, NEW same,
             NEW k \in block..block + Grace
      PROVE  LET r == Enqueued(q, value, same)
             IN  \A j : j <= k => /\ j \in DOMAIN r <=> j \in DOMAIN q
                                  /\ j \in DOMAIN q => r[j] = q[j]
  BY <1>1, <1>2 DEF Enqueued
<1>3. ASSUME NEW price \in Prices, EnqueueGasPrice(price),
             NEW k \in block..block + Grace
      PROVE  PriceAt(k)' = PriceAt(k)
  <2> DEFINE rows == {j \in DOMAIN priceQueue : j <= k}
  <2>1. /\ \A j : j <= k => /\ j \in DOMAIN priceQueue' <=> j \in DOMAIN priceQueue
                            /\ j \in DOMAIN priceQueue => priceQueue'[j] = priceQueue[j]
        /\ gasPrice' = gasPrice
    BY <1>1, <1>2, <1>3 DEF EnqueueGasPrice
  <2>2. {j \in DOMAIN priceQueue' : j <= k} = rows
    BY <2>1, Zenon
  <2>3. rows # {} => Max(rows) \in rows
    <3>1. k \in Nat /\ rows \in SUBSET Nat /\ \A j \in rows : j <= k
      BY <1>1, <1>3
    <3> HIDE DEF rows
    <3> QED  BY <3>1, MaxExists, Zenon
  <2>4. rows # {} => priceQueue'[Max(rows)] = priceQueue[Max(rows)]
    BY <2>1, <2>3, Zenon
  <2>5. PriceAt(k) = IF rows = {} THEN gasPrice ELSE priceQueue[Max(rows)]
    BY Zenon DEF PriceAt
  <2>6. PriceAt(k)' = IF rows = {} THEN gasPrice' ELSE priceQueue'[Max(rows)]
    BY <2>2, Zenon DEF PriceAt
  <2> QED  BY <2>1, <2>4, <2>5, <2>6
<1>4. ASSUME NEW prices \in PricesOrUnset, EnqueueGasPrices(prices),
             NEW k \in block..block + Grace, NEW field \in {"overhead", "storage"}
      PROVE  PricesAt(k, field)' = PricesAt(k, field)
  <2> DEFINE rows == {j \in DOMAIN pricesQueue : j <= k /\ pricesQueue[j][field] # Unset}
  <2>1. /\ \A j : j <= k =>
             /\ j \in DOMAIN pricesQueue' <=> j \in DOMAIN pricesQueue
             /\ j \in DOMAIN pricesQueue => pricesQueue'[j] = pricesQueue[j]
        /\ gasPrices' = gasPrices
    BY <1>1, <1>2, <1>4 DEF EnqueueGasPrices
  <2>2. {j \in DOMAIN pricesQueue' : j <= k /\ pricesQueue'[j][field] # Unset} = rows
    BY <2>1, Zenon
  <2>3. rows # {} => Max(rows) \in rows
    <3>1. k \in Nat /\ rows \in SUBSET Nat /\ \A j \in rows : j <= k
      BY <1>1, <1>4
    <3> HIDE DEF rows
    <3> QED  BY <3>1, MaxExists, Zenon
  <2>4. rows # {} => pricesQueue'[Max(rows)] = pricesQueue[Max(rows)]
    BY <2>1, <2>3, Zenon
  <2>5. PricesAt(k, field) =
          IF rows = {} THEN gasPrices[field] ELSE pricesQueue[Max(rows)][field]
    BY Zenon DEF PricesAt
  <2>6. PricesAt(k, field)' =
          IF rows = {} THEN gasPrices'[field] ELSE pricesQueue'[Max(rows)][field]
    BY <2>2, Zenon DEF PricesAt
  <2> QED  BY <2>1, <2>4, <2>5, <2>6
<1> QED  BY <1>3, <1>4, Zenon

\* Processing the queue applies what was going to apply in any case.
LEMMA ProcessGivesNotice ==
  ASSUME Inv, ProcessPriceQueue, NEW k \in Nat, block <= k
  PROVE  /\ EvmVersion \in {1, 2} => PriceAt(k)' = PriceAt(k)
         /\ EvmVersion >= 3 =>
              \A field \in {"overhead", "storage"} :
                PricesAt(k, field)' = PricesAt(k, field)
<1>1. /\ block \in Nat /\ front \in Nat /\ EvmVersion \in 0..3
      /\ DOMAIN priceQueue \subseteq Nat /\ DOMAIN pricesQueue \subseteq Nat
      /\ EvmVersion < 3 => QueueOK(priceQueue)
      /\ EvmVersion >= 3 => QueueOK(pricesQueue)
  BY Zenon DEF Inv, TypeOK, EvmVersion, GetValue, Promoters, MaxVersion, PricingOK, QueueOK,
         NoChangeHidden
<1>2. ASSUME NEW q, QueueOK(q)
      PROVE  /\ DOMAIN Remaining(q) = DOMAIN q \ Due(q)
             /\ \A j \in DOMAIN q \ Due(q) : Remaining(q)[j] = q[j]
             /\ \A j \in DOMAIN q : j \in Due(q) <=> j <= block
  BY <1>1, <1>2 DEF Remaining, Restrict, Due, IsDue, QueueOK, FrontCoversQueue
<1>3. ASSUME EvmVersion \in {1, 2}
      PROVE  PriceAt(k)' = PriceAt(k)
  <2> DEFINE R == {j \in DOMAIN priceQueue : j <= k}
             D == Due(priceQueue)
  <2>1. gasPrice' = PriceAfter /\ priceQueue' = Remaining(priceQueue)
    BY <1>1, <1>3 DEF ProcessPriceQueue
  <2>2. /\ DOMAIN priceQueue' = DOMAIN priceQueue \ D
        /\ \A j \in DOMAIN priceQueue \ D : priceQueue'[j] = priceQueue[j]
        /\ \A j \in DOMAIN priceQueue : j \in D <=> j <= block
        /\ D \subseteq DOMAIN priceQueue
    BY <1>1, <1>2, <1>3, <2>1 DEF Due
  <2>3. D = {y \in R : y <= block}
    BY <1>1, <2>2
  <2>4. {j \in DOMAIN priceQueue' : j <= k} = R \ D
    BY <2>2, Zenon
  <2>5. PriceAt(k)' = IF R \ D = {} THEN gasPrice' ELSE priceQueue'[Max(R \ D)]
    BY <2>4, Zenon DEF PriceAt
  <2>6. PriceAt(k) = IF R = {} THEN gasPrice ELSE priceQueue[Max(R)]
    BY Zenon DEF PriceAt
  <2>7. PriceAfter = IF D = {} THEN gasPrice ELSE priceQueue[Max(D)]
    BY Zenon DEF PriceAfter
  <2>8. R \in SUBSET Nat /\ \A y \in R : y <= k
    BY <1>1, Zenon
  <2>9. R \subseteq DOMAIN priceQueue
    BY Zenon
  <2> HIDE DEF R, D
  <2>10. /\ R \ D = {} => R = D
         /\ R \ D # {} => Max(R \ D) = Max(R) /\ Max(R) \in R \ D
    <3>1. block \in Nat
      BY <1>1, Zenon
    <3> QED  BY <2>3, <2>8, <3>1, LastRow, SMTT(30)
  <2>11. CASE R \ D = {}
    BY <2>1, <2>5, <2>6, <2>7, <2>10, <2>11, Zenon
  <2>12. CASE R \ D # {}
    BY <2>2, <2>5, <2>6, <2>9, <2>10, <2>12, Zenon
  <2> QED  BY <2>11, <2>12, Zenon
<1>4. ASSUME EvmVersion >= 3, NEW field \in {"overhead", "storage"}
      PROVE  PricesAt(k, field)' = PricesAt(k, field)
  <2> DEFINE R == {j \in DOMAIN pricesQueue : j <= k /\ pricesQueue[j][field] # Unset}
             D == {j \in Due(pricesQueue) : pricesQueue[j][field] # Unset}
  <2>1. gasPrices'[field] = PricesAfter(field) /\ pricesQueue' = Remaining(pricesQueue)
    BY <1>1, <1>4 DEF ProcessPriceQueue
  <2>2. /\ DOMAIN pricesQueue' = DOMAIN pricesQueue \ Due(pricesQueue)
        /\ \A j \in DOMAIN pricesQueue \ Due(pricesQueue) :
             pricesQueue'[j] = pricesQueue[j]
        /\ \A j \in DOMAIN pricesQueue : j \in Due(pricesQueue) <=> j <= block
        /\ Due(pricesQueue) \subseteq DOMAIN pricesQueue
    BY <1>1, <1>2, <1>4, <2>1, Zenon DEF Due
  <2>3. D = {y \in R : y <= block}
    BY <1>1, <2>2
  <2>4. {j \in DOMAIN pricesQueue' : j <= k /\ pricesQueue'[j][field] # Unset} = R \ D
    BY <2>2, Zenon
  <2>5. PricesAt(k, field)' =
          IF R \ D = {} THEN gasPrices'[field] ELSE pricesQueue'[Max(R \ D)][field]
    BY <2>4, Zenon DEF PricesAt
  <2>6. PricesAt(k, field) =
          IF R = {} THEN gasPrices[field] ELSE pricesQueue[Max(R)][field]
    BY Zenon DEF PricesAt
  <2>7. PricesAfter(field) =
          IF D = {} THEN gasPrices[field] ELSE pricesQueue[Max(D)][field]
    BY Zenon DEF PricesAfter
  <2>8. R \in SUBSET Nat /\ \A y \in R : y <= k
    BY <1>1, Zenon
  <2>9. R \ D \subseteq DOMAIN pricesQueue \ Due(pricesQueue)
    BY <2>2, Zenon
  <2> HIDE DEF R, D
  <2>10. /\ R \ D = {} => R = D
         /\ R \ D # {} => Max(R \ D) = Max(R) /\ Max(R) \in R \ D
    <3>1. block \in Nat
      BY <1>1, Zenon
    <3> QED  BY <2>3, <2>8, <3>1, LastRow, SMTT(30)
  <2>11. CASE R \ D = {}
    BY <2>1, <2>5, <2>6, <2>7, <2>10, <2>11, Zenon
  <2>12. CASE R \ D # {}
    BY <2>2, <2>5, <2>6, <2>9, <2>10, <2>12, Zenon
  <2> QED  BY <2>11, <2>12, Zenon
<1> QED  BY <1>3, <1>4, Zenon

\* No step changes a price within the grace period.
LEMMA NoticeSteps ==
  ASSUME Inv, [Next]_vars
  PROVE  /\ EvmVersion \in {1, 2} /\ EvmVersion' \in {1, 2} /\ ~SetVersion(3) =>
              \A k \in block'..block + Grace : PriceAt(k)' = PriceAt(k)
         /\ EvmVersion >= 3 =>
              \A k \in block'..block + Grace, field \in {"overhead", "storage"} :
                PricesAt(k, field)' = PricesAt(k, field)
<1>1. /\ block \in Nat /\ Grace \in Nat /\ block' \in Nat /\ block <= block'
      /\ EvmVersion \in 0..3
  <2>1. block \in Nat /\ Grace \in Nat /\ EvmVersion \in 0..3
    BY GasConfigAssumption, Zenon DEF Inv, TypeOK, EvmVersion, GetValue, Promoters, MaxVersion
  <2>2. block' \in {block, block + 1}
    BY Zenon DEF Next, Tick, SetVersion, SetFeeParams, SetGasPrices, SetGasParam,
           UpdtGasParam, PushTx, Deposit, vars
  <2> QED  BY <2>1, <2>2
<1> SUFFICES ASSUME NEW k \in block'..block + Grace
             PROVE  /\ EvmVersion \in {1, 2} /\ ~SetVersion(3) => PriceAt(k)' = PriceAt(k)
                    /\ EvmVersion >= 3 =>
                         \A field \in {"overhead", "storage"} :
                           PricesAt(k, field)' = PricesAt(k, field)
  BY Zenon
<1>2. k \in block..block + Grace /\ k \in Nat /\ block <= k
  BY <1>1
<1>3. gasPrice' = gasPrice /\ priceQueue' = priceQueue => PriceAt(k)' = PriceAt(k)
  BY Zenon DEF PriceAt
<1>4. gasPrices' = gasPrices /\ pricesQueue' = pricesQueue =>
        \A field \in {"overhead", "storage"} : PricesAt(k, field)' = PricesAt(k, field)
  BY Zenon DEF PricesAt
<1>5. CASE ProcessPriceQueue
  BY <1>2, <1>5, ProcessGivesNotice, Zenon
<1>6. ASSUME NEW price \in Prices, EvmVersion < 3, EnqueueGasPrice(price)
      PROVE  PriceAt(k)' = PriceAt(k)
  BY <1>2, <1>6, EnqueueGivesNotice, Zenon
<1>7. ASSUME NEW prices \in PricesOrUnset, EnqueueGasPrices(prices),
             NEW field \in {"overhead", "storage"}
      PROVE  PricesAt(k, field)' = PricesAt(k, field)
  BY <1>2, <1>7, EnqueueGivesNotice, Zenon
<1>8. CASE Tick \/ UNCHANGED vars \/ \E p \in ParamSets : SetGasParam(p)
  BY <1>3, <1>4, <1>8, Zenon DEF Tick, SetGasParam, pricing, vars
<1>9. ASSUME NEW v \in 0..MaxVersion + 1, SetVersion(v)
      PROVE  /\ v # 3 => gasPrice' = gasPrice
             /\ UNCHANGED <<gasPrices, priceQueue, pricesQueue>>
  BY <1>9, Zenon DEF SetVersion
<1>10. ASSUME NEW price \in Prices \cup {Unset}, NEW cut \in {Unset, 0, 1},
              SetFeeParams(price, cut)
       PROVE  /\ EvmVersion \in {1, 2} => PriceAt(k)' = PriceAt(k)
              /\ EvmVersion >= 3 => UNCHANGED <<gasPrices, pricesQueue>>
  BY <1>1, <1>3, <1>6, <1>10 DEF SetFeeParams, pricing
<1>11. ASSUME NEW prices \in PricesOrUnset, SetGasPrices(prices)
       PROVE  /\ EvmVersion < 3 => UNCHANGED <<gasPrice, priceQueue>>
              /\ EvmVersion >= 3 => EnqueueGasPrices(prices)
  BY <1>1, <1>11 DEF SetGasPrices
<1>12. ASSUME NEW p \in ParamSets, NEW price \in Prices, UpdtGasParam(p, price)
       PROVE  /\ EvmVersion < 3 => EnqueueGasPrice(price)
              /\ EvmVersion >= 3 => EnqueueGasPrices([overhead |-> Unset, storage |-> price])
              /\ [overhead |-> Unset, storage |-> price] \in PricesOrUnset
  BY <1>1, <1>12 DEF UpdtGasParam, PricesOrUnset
<1>13. CASE \E v \in 0..MaxVersion + 1 : SetVersion(v)
  BY <1>3, <1>4, <1>9, <1>13, Zenon
<1>14. CASE \E price \in Prices \cup {Unset}, cut \in {Unset, 0, 1} :
              SetFeeParams(price, cut)
  BY <1>4, <1>10, <1>14, Zenon
<1>15. CASE \E prices \in PricesOrUnset : SetGasPrices(prices)
  BY <1>1, <1>3, <1>7, <1>11, <1>15
<1>16. CASE \E p \in ParamSets, price \in Prices : UpdtGasParam(p, price)
  <2>1. PICK p \in ParamSets, price \in Prices : UpdtGasParam(p, price)
    BY <1>16, Zenon
  <2>2. /\ EvmVersion < 3 => PriceAt(k)' = PriceAt(k)
        /\ EvmVersion >= 3 => \A field \in {"overhead", "storage"} :
                                PricesAt(k, field)' = PricesAt(k, field)
    BY <1>6, <1>7, <1>12, <2>1, Zenon
  <2> QED  BY <1>1, <2>2
<1>17. CASE PushTx \/ Deposit
  BY <1>5, <1>17, Zenon DEF PushTx, Deposit
<1> QED  BY <1>8, <1>13, <1>14, <1>15, <1>16, <1>17, Zenon DEF Next

\* The invariant holds in every reachable configuration.
THEOREM Invariance == Spec => []Inv
<1>1. Inv /\ [Next]_vars => Inv'
  BY Inductive, Zenon
<1> QED  BY Initially, <1>1, PTL DEF Spec

\* Type correctness: promotion, queueing and queue processing keep every field
\* of the configuration and every queue row in its domain.
THEOREM TypeCorrect == Spec => []TypeOK
<1>1. Inv => TypeOK
  BY Zenon DEF Inv
<1> QED  BY Invariance, <1>1, PTL

\* enqueue's "internal error" and process_tx's "should not happen" never occur.
THEOREM ChecksPass == Spec => []ImpossibleChecksPass
<1>1. Inv => ImpossibleChecksPass
  BY Zenon DEF Inv, PricingOK, ImpossibleChecksPass, IsActive
<1> QED  BY Invariance, <1>1, PTL

\* Once set_evm_version accepted version 3, a storage price is always set.
THEOREM StoragePriceStays == Spec => []Version3HasStoragePrice
<1>1. Inv => Version3HasStoragePrice
  BY Zenon DEF Inv
<1> QED  BY Invariance, <1>1, PTL

\* process_queue never gives up on a queue_front_block that hides a queued change.
THEOREM FrontNeverHides == Spec => []NoChangeHidden
<1>1. Inv => NoChangeHidden
  BY Zenon DEF Inv, PricingOK
<1> QED  BY Invariance, <1>1, PTL

\* The miner cut is gone whenever version 1 or later has been promoted.
THEOREM CutEnds == Spec => []NoCutFromVersion1
<1>1. Inv => NoCutFromVersion1
  BY Zenon DEF Inv
<1> QED  BY Invariance, <1>1, PTL

\* Neither time nor setversion, which may replace a pending version by a lower
\* one, lowers the version in force.
THEOREM VersionMonotone == Spec => VersionNeverDecreases
<1>1. Inv /\ [Next]_vars => [EvmVersion' >= EvmVersion]_vars
  BY Inductive, Zenon
<1> QED  BY Invariance, <1>1, PTL DEF Spec, VersionNeverDecreases

\* Before version 3 gas_sset is never, now or later, below its minimum.
THEOREM SsetStaysAbove == Spec => []SsetAboveMinimum
<1>1. Init => SsetAboveMinimum
  BY GasConfigAssumption DEF Init, SsetAboveMinimum, Promoter
<1>2. Inv /\ SsetAboveMinimum /\ [Next]_vars => SsetAboveMinimum'
  BY SsetSteps, Zenon
<1> QED  BY Invariance, <1>1, <1>2, PTL DEF Spec

\* All transactions of an EVM block run with one version, one set of parameters and
\* one base fee, but for the fall to 0 that setversion(3) may cause.
THEOREM HeaderHolds == Spec => OneHeaderPerBlock
<1>1. Init => Header
  BY DEF Init, Header, NoTx
<1>2. Inv /\ Header /\ [Next]_vars => Header'
  BY HeaderSteps, Zenon
<1>3. Inv /\ Header /\ [Next]_vars =>
        [ran'.block = ran.block =>
           /\ ran'.version = ran.version /\ ran'.params = ran.params
           /\ ran.version >= 1 => ran'.base \in {ran.base, 0}]_ran
  BY HeaderSteps, Zenon
<1> QED  BY Invariance, <1>1, <1>2, <1>3, PTL DEF Spec, OneHeaderPerBlock

\* A change of a price is known a grace period before it is charged.
THEOREM NoticeHolds == Spec => NoticeGiven
<1>1. Inv /\ [Next]_vars =>
        [/\ EvmVersion \in {1, 2} /\ EvmVersion' \in {1, 2} /\ ~SetVersion(3) =>
              \A k \in block'..block + Grace : PriceAt(k)' = PriceAt(k)
         /\ EvmVersion >= 3 =>
              \A k \in block'..block + Grace, field \in {"overhead", "storage"} :
                PricesAt(k, field)' = PricesAt(k, field)]_vars
  BY NoticeSteps, Zenon
<1> QED  BY Invariance, <1>1, PTL DEF Spec, NoticeGiven
=============================================================================
