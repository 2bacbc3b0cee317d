----------------------------- MODULE GasConfig ------------------------------
(***************************************************************************)
(* The configuration singleton over time: EVM version, consensus (gas)     *)
(* parameters, gas price of versions 1 and 2 and gas prices of version 3,  *)
(* with the two queues that delay price changes.  Everything is written at *)
(* some moment and used at a later one: versions and parameters from the   *)
(* next EVM block on, prices after a grace period, and both only when a    *)
(* transaction looks.  Time is the EVM block number, which is all the code *)
(* compares (block_mapping).                                               *)
(***************************************************************************)
EXTENDS Integers, FiniteSetsExt, Functions, ValuePromoter

CONSTANTS Grace,       \* EVM blocks in grace_period_seconds (180)
          Prices,      \* prices the administration sets
          ParamSets,   \* consensus parameter settings; 0 is the default one
          SmallSset,   \* the settings whose gas_sset is below gas_sset_min
          MaxBlock     \* bound of the exploration

\* max_eos_evm_version
MaxVersion == 3

ASSUME GasConfigAssumption ==
  /\ Grace \in Nat /\ MaxBlock \in Nat
  /\ Prices \subseteq Nat /\ ParamSets \subseteq Nat /\ 0 \in ParamSets
  /\ SmallSset \subseteq ParamSets \ {0}

VARIABLES
  block,       \* EVM block of the current time
  version,     \* promoter of evm_version
  params,      \* promoter of consensus_parameter
  gasPrice,    \* gas_price
  gasPrices,   \* gas_prices: overhead and storage price, each may be Unset
  minerCut,    \* miner_cut: 0, or 1 for any other
  priceQueue,  \* price_queue table: activation block -> price
  pricesQueue, \* prices_queue table: activation block -> prices
  front,       \* queue_front_block, 0 when no change is queued
  announced,   \* parameters of the last configchange event (history)
  ran          \* block, version, base fee and parameters of the last EVM
               \* transaction (history)

vars == <<block, version, params, gasPrice, gasPrices, minerCut, priceQueue,
          pricesQueue, front, announced, ran>>

NoTx == [block |-> 0, version |-> 0, base |-> 0, params |-> 0]

\* After init, which sets gas_price and miner_cut directly.
Init ==
  /\ block = 1
  /\ version = Promoter(0) /\ params = Promoter(0)
  /\ gasPrice \in Prices /\ minerCut \in {0, 1}
  /\ gasPrices = [overhead |-> Unset, storage |-> Unset]
  /\ priceQueue = <<>> /\ pricesQueue = <<>> /\ front = 0
  /\ announced = 0 /\ ran = NoTx

EvmVersion == GetValue(version, block)

ValueOr0(price) == IF price = Unset THEN 0 ELSE price

\* gas_prices_type::get_base_price, and evm_contract::get_gas_price
BasePrice(prices) == Max({ValueOr0(prices.overhead), ValueOr0(prices.storage)})
GasPriceAt(v, price, prices) == IF v >= 3 THEN BasePrice(prices) ELSE price

\* set_gas_prices: only the given prices change.
Merge(prices, new) ==
  [overhead |-> IF new.overhead = Unset THEN prices.overhead ELSE new.overhead,
   storage  |-> IF new.storage = Unset THEN prices.storage ELSE new.storage]

-----------------------------------------------------------------------------
(* The queues *)

\* A change that takes effect in the next EVM block
ActivationBlockNext == block + 1

ActivationBlock == block + Grace + 1

IsLast(q, k) == k \in DOMAIN q /\ \A j \in DOMAIN q : j <= k

\* enqueue: nothing to do when the prices are in force and no change is queued
\* (is_same_as_current_price), or when they are what the last row sets; a row
\* of the same activation block is overwritten.
Unnecessary(q, value, isCurrent) ==
  \/ front = 0 /\ isCurrent
  \/ \E k \in DOMAIN q : IsLast(q, k) /\ q[k] = value
EnqueueAllowed(q, value, isCurrent) ==
  Unnecessary(q, value, isCurrent) \/ \A k \in DOMAIN q : ActivationBlock >= k
Enqueued(q, value, isCurrent) ==
  IF Unnecessary(q, value, isCurrent) THEN q
  ELSE [k \in DOMAIN q \cup {ActivationBlock} |->
          IF k = ActivationBlock THEN value ELSE q[k]]
FrontMoved(q, value, isCurrent) ==  \* also when an earlier change is queued
  IF Unnecessary(q, value, isCurrent) THEN front ELSE ActivationBlock
FrontAfterEnqueue(q, value, isCurrent) ==
  IF /\ ~Unnecessary(q, value, isCurrent)
     /\ ActivationBlock \notin DOMAIN q
     /\ front = 0
  THEN ActivationBlock ELSE front

EnqueueGasPrice(price) ==
  /\ EnqueueAllowed(priceQueue, price, price = gasPrice)
  /\ priceQueue' = Enqueued(priceQueue, price, price = gasPrice)
  /\ front' = FrontAfterEnqueue(priceQueue, price, price = gasPrice)
  /\ UNCHANGED <<gasPrice, gasPrices, pricesQueue>>

EnqueueGasPrices(prices) ==
  LET isCurrent == Merge(gasPrices, prices) = gasPrices IN
  /\ EnqueueAllowed(pricesQueue, prices, isCurrent)
  /\ pricesQueue' = Enqueued(pricesQueue, prices, isCurrent)
  /\ front' = FrontAfterEnqueue(pricesQueue, prices, isCurrent)
  /\ UNCHANGED <<gasPrice, gasPrices, priceQueue>>

\* process_queue: every row that is due is applied and erased.
IsDue(k) == front # 0 /\ block >= front /\ block >= k
Due(q) == {k \in DOMAIN q : IsDue(k)}
Remaining(q) == Restrict(q, DOMAIN q \ Due(q))
FrontAfter(q) ==
  CASE Due(q) = {} -> front
    [] Due(q) # {} /\ DOMAIN q = Due(q) -> 0
    [] OTHER -> Min(DOMAIN q \ Due(q))

\* What the due rows leave in gas_price, and in one of the gas_prices: the
\* value of the last row that sets it.
PriceAfter ==
  LET rows == Due(priceQueue)
  IN  IF rows = {} THEN gasPrice ELSE priceQueue[Max(rows)]
PricesAfter(field) ==
  LET rows == {k \in Due(pricesQueue) : pricesQueue[k][field] # Unset}
  IN  IF rows = {} THEN gasPrices[field] ELSE pricesQueue[Max(rows)][field]

\* process_price_queue, which pushtx and deposits call from version 1 on
ProcessPriceQueue ==
  \/ /\ EvmVersion >= 3
     /\ gasPrices' = [overhead |-> PricesAfter("overhead"),
                      storage |-> PricesAfter("storage")]
     /\ pricesQueue' = Remaining(pricesQueue)
     /\ front' = FrontAfter(pricesQueue)
     /\ UNCHANGED <<gasPrice, priceQueue>>
  \/ /\ EvmVersion \in {1, 2}
     /\ gasPrice' = PriceAfter
     /\ priceQueue' = Remaining(priceQueue)
     /\ front' = FrontAfter(priceQueue)
     /\ UNCHANGED <<gasPrices, pricesQueue>>
  \/ EvmVersion = 0 /\ UNCHANGED <<gasPrice, gasPrices, priceQueue, pricesQueue, front>>

-----------------------------------------------------------------------------
(* Versions and parameters *)

\* Promotes without looking at the miner cut
CutKept == minerCut

\* get_evm_version_and_maybe_promote: version 1 ends the miner cut.
CutAfterPromotion ==
  IF IsActive(version, block) /\ EvmVersion >= 1 THEN 0 ELSE minerCut
PromoteVersion ==
  /\ version' = MaybePromote(version, block)
  /\ minerCut' = CutAfterPromotion

pricing == <<gasPrice, gasPrices, priceQueue, pricesQueue, front>>
history == <<announced, ran>>

\* The change of the EVM block under the contract's feet.
Tick ==
  /\ block < MaxBlock
  /\ block' = block + 1
  /\ UNCHANGED <<version, params, minerCut, pricing, history>>

\* The checks of set_evm_version, without the one of the storage price, the one of
\* the highest version and the one of the active version; then all of them.
VersionAllowedUnpriced(v) == v <= MaxVersion /\ (v = 3 => front = 0) /\ v > EvmVersion
VersionAllowedUnbounded(v) ==
  /\ v = 3 => front = 0 /\ ValueOr0(gasPrices.storage) # 0
  /\ v > EvmVersion
VersionAllowedDown(v) ==
  /\ v <= MaxVersion
  /\ v = 3 => front = 0 /\ ValueOr0(gasPrices.storage) # 0
VersionAllowed(v) ==
  /\ v <= MaxVersion
  /\ v = 3 => front = 0 /\ ValueOr0(gasPrices.storage) # 0
  /\ v > EvmVersion

\* setversion: version 3 also clears the old gas price, at once.
SetVersion(v) ==
  /\ VersionAllowed(v)
  /\ version' = Update(version, v, block)
  /\ minerCut' = CutAfterPromotion
  /\ gasPrice' = IF v = 3 THEN 0 ELSE gasPrice
  /\ UNCHANGED <<block, params, gasPrices, priceQueue, pricesQueue, front,
                 history>>

\* setfeeparams with a gas price, a miner cut or both; the ingress bridge fee
\* it may also set is part of BridgeLedger.
SetFeeParams(price, cut) ==
  /\ \/ price = Unset /\ UNCHANGED pricing
     \/ price # Unset /\ EvmVersion \in {1, 2} /\ EnqueueGasPrice(price)
     \/ /\ price # Unset /\ EvmVersion = 0
        /\ gasPrice' = price
        /\ UNCHANGED <<gasPrices, priceQueue, pricesQueue, front>>
  /\ \/ cut = Unset /\ UNCHANGED minerCut
     \/ cut # Unset /\ EvmVersion = 0 /\ minerCut' = cut
  /\ UNCHANGED <<block, version, params, history>>

\* setgasprices
SetGasPrices(prices) ==
  /\ prices.overhead # Unset \/ prices.storage # Unset
  /\ prices.storage # 0
  /\ PromoteVersion
  /\ \/ EvmVersion >= 3 /\ EnqueueGasPrices(prices)
     \/ /\ EvmVersion < 3
        /\ gasPrices' = Merge(gasPrices, prices)
        /\ UNCHANGED <<gasPrice, priceQueue, pricesQueue, front>>
  /\ UNCHANGED <<block, params, history>>

\* Without the check of the version, and with the version that is pending taken
\* for the one in force
UpdateParametersAnyVersion(p) == params' = Update(params, p, block)
UpdateParametersPending(p) ==
  /\ EvmVersion >= 1
  /\ p \in SmallSset => version.pending >= 3
  /\ params' = Update(params, p, block)

\* update_consensus_parameters2: before version 3 a write to a clean slot costs at
\* least gas_sset_min.
UpdateConsensusParameters2(p) ==
  /\ EvmVersion >= 1
  /\ p \in SmallSset => EvmVersion >= 3
  /\ params' = Update(params, p, block)

\* setgasparam
SetGasParam(p) ==
  /\ UpdateConsensusParameters2(p)
  /\ UNCHANGED <<block, version, minerCut, pricing, history>>

\* updtgasparam: the parameters are derived from the price of RAM and the storage
\* price (see GasParameters), and the storage price changes with them.
UpdtGasParam(p, price) ==
  /\ price > 0
  /\ UpdateConsensusParameters2(p)
  /\ \/ EvmVersion >= 3 /\ EnqueueGasPrices([overhead |-> Unset, storage |-> price])
     \/ EvmVersion < 3 /\ EnqueueGasPrice(price)
  /\ UNCHANGED <<block, version, minerCut, history>>

\* pushtx and process_tx: the queue is processed, version and parameters are
\* promoted and a promotion of the parameters is announced (configchange).
PushTx ==
  /\ ProcessPriceQueue
  /\ PromoteVersion
  /\ params' = MaybePromote(params, block)
  /\ IsActive(params, block) => EvmVersion >= 1
  /\ announced' = IF IsActive(params, block) THEN params.pending ELSE announced
  /\ ran' = [block |-> block, version |-> EvmVersion,
             base |-> GasPriceAt(EvmVersion, gasPrice', gasPrices'),
             params |-> GetValue(params, block)]
  /\ UNCHANGED block

\* A deposit to an account (handle_account_transfer) only processes the queue.
Deposit ==
  /\ ProcessPriceQueue
  /\ UNCHANGED <<block, version, params, minerCut, history>>

PricesOrUnset == [overhead : Prices \cup {Unset}, storage : Prices \cup {Unset}]

Next ==
  \/ Tick
  \/ \E v \in 0..MaxVersion + 1 : SetVersion(v)
  \/ \E price \in Prices \cup {Unset}, cut \in {Unset, 0, 1} : SetFeeParams(price, cut)
  \/ \E prices \in PricesOrUnset : SetGasPrices(prices)
  \/ \E p \in ParamSets : SetGasParam(p)
  \/ \E p \in ParamSets, price \in Prices : UpdtGasParam(p, price)
  \/ PushTx
  \/ Deposit

Spec == Init /\ [][Next]_vars

-----------------------------------------------------------------------------
(* Properties *)

Promoters(values) ==
  [cached : values, pending : values, since : Nat \cup {Unset}]

\* Versions stay within what the contract knows, prices within what was set, and
\* promoters, queues and queue_front_block are well formed after any sequence of
\* administration actions and transactions.
TypeOK ==
  /\ block \in Nat
  /\ version \in Promoters(0..MaxVersion) /\ params \in Promoters(ParamSets)
  /\ gasPrice \in Prices \cup {0} /\ gasPrices \in PricesOrUnset
  /\ minerCut \in {0, 1} /\ front \in Nat
  /\ DOMAIN priceQueue \subseteq Nat /\ DOMAIN pricesQueue \subseteq Nat
  /\ \A k \in DOMAIN priceQueue : priceQueue[k] \in Prices
  /\ \A k \in DOMAIN pricesQueue : pricesQueue[k] \in PricesOrUnset
  /\ announced \in ParamSets
  /\ ran \in [block : Nat, version : 0..MaxVersion, base : Nat, params : ParamSets]

\* The checks the code calls impossible never fail: enqueue finds no row that
\* activates later than the new one ("internal error"), and process_tx promotes
\* no parameters while the version is still 0 ("should not happen").
ImpossibleChecksPass ==
  /\ \A k \in DOMAIN priceQueue \cup DOMAIN pricesQueue : k <= ActivationBlock
  /\ IsActive(params, block) => EvmVersion >= 1

\* Version 3 is never in force, nor about to be, without a storage price: the
\* check of set_evm_version looks at the price of that moment, and no later
\* setgasprices, updtgasparam or queue processing takes it away.
Version3HasStoragePrice ==
  3 \in {version.cached, version.pending} => gasPrices.storage > 0

\* The summary field queue_front_block, the only thing process_queue looks at
\* before it gives up, never hides a row of the queue of the version in force,
\* although the two queues share it.
FrontCoversQueue(q) == \A k \in DOMAIN q : 0 < front /\ front <= k
NoChangeHidden ==
  /\ EvmVersion < 3 => FrontCoversQueue(priceQueue)
  /\ EvmVersion >= 3 => FrontCoversQueue(pricesQueue)

\* From version 1 on no share of the fee is kept for the miner cut: the promotion
\* that makes a version the cached one also clears miner_cut, whichever action
\* promotes it, and setfeeparams cannot set it again.
NoCutFromVersion1 == version.cached >= 1 => minerCut = 0

\* What the price is going to be at EVM block k if nothing else is set.
PriceAt(k) ==
  LET rows == {j \in DOMAIN priceQueue : j <= k}
  IN  IF rows = {} THEN gasPrice ELSE priceQueue[Max(rows)]
PricesAt(k, field) ==
  LET rows == {j \in DOMAIN pricesQueue : j <= k /\ pricesQueue[j][field] # Unset}
  IN  IF rows = {} THEN gasPrices[field] ELSE pricesQueue[Max(rows)][field]

\* Once changes are queued (version 1 on) a price change gives notice: no step,
\* neither a new change nor the processing of the queue, alters what the price
\* will be in any block up to the end of the grace period.  The one exception is
\* setversion(3), which zeroes gas_price at once.  The overhead and storage prices
\* are queued from version 3 on; until then setgasprices sets them at once.
NoticeGiven ==
  [][/\ EvmVersion \in {1, 2} /\ EvmVersion' \in {1, 2} /\ ~SetVersion(3) =>
          \A k \in block'..block + Grace : PriceAt(k)' = PriceAt(k)
     /\ EvmVersion >= 3 =>
          \A k \in block'..block + Grace, field \in {"overhead", "storage"} :
            PricesAt(k, field)' = PricesAt(k, field)]_vars

\* All transactions of an EVM block see one version, one set of parameters and,
\* from version 1 on, one base fee, whatever the administration does between
\* them; only setversion(3) may drop the base fee to 0 (see MinimumPriceEnforced).
OneHeaderPerBlock ==
  [][ran'.block = ran.block =>
       /\ ran'.version = ran.version /\ ran'.params = ran.params
       /\ ran.version >= 1 => ran'.base \in {ran.base, 0}]_ran

\* While version 1 or 2 is in force no transaction, now or in a later block, runs
\* with a gas_sset below gas_sset_min: the check is made when the parameters are
\* set, they are used blocks later, and a pending version can be replaced in
\* between.
SsetAboveMinimum ==
  EvmVersion < 3 => params.cached \notin SmallSset /\ params.pending \notin SmallSset

\* The version in force never goes back, not even when a pending one is replaced.
VersionNeverDecreases == [][EvmVersion' >= EvmVersion]_vars

\* tests/gas_param_tests.cpp:155 expects a configchange event before the
\* transactions that use new parameters: the parameters of the last transaction
\* are the ones last announced.
ParametersAnnounced == ran.params = announced

\* tests/gas_fee_tests.cpp:446, and the message of set_evm_version: no change is
\* queued for the old gas price once version 3 is in force.
QueueEmptyAtVersion3 == EvmVersion >= 3 => DOMAIN priceQueue = {}

\* types.hpp:102: the gas price is a minimum that is enforced on all
\* transactions, so with positive prices none runs at 0.
MinimumPriceEnforced == ran # NoTx => ran.base > 0
=============================================================================
