# A TLA+ model of the EOS EVM contract

The contract keeps an Ethereum virtual machine inside an Antelope smart
contract. Its own code is a bridge: token deposits become balances of opened
accounts or of EVM addresses, EVM transactions move value between them, and
withdrawals and egress turn it back into token transfers. Around it are a
configuration that changes with delay, the tables that hold the EVM state, and
two actions that replace the token the bridge runs on. These modules model that
code, TLC checks them on small instances, and TLAPS proves, for all instances,
nearly all safety properties, those about sums of money over any number of rows
included.

## The system and its modules

| Part | Source | Module | State of the work |
| --- | --- | --- | --- |
| Balance row arithmetic | `include/evm_runtime/tables.hpp` (`balance_with_dust`) | `BalanceWithDust`, implements `BoundedCounter` | modelled, proved |
| Ledger of the bridge | `src/actions.cpp`, part of `src/admin_actions.cpp` | `BridgeLedger` | modelled, proved |
| EVM transaction handling | `src/actions.cpp` (`process_tx`, `execute_tx`) | `BridgeLedger` (`ProcessTx`, `Settle`) | value movements modelled, proved |
| Gas token swap | `src/actions.cpp` (`swapgastoken`, `migratebal`) | `TokenSwap` | modelled, safety proved but for one property |
| Bridge message decoding | `include/evm_runtime/bridge.hpp` | `BridgeMessage` | modelled, checked |
| Delayed settings | `include/evm_runtime/value_promoter.hpp` | `ValuePromoter` | modelled, proved with `GasConfig` |
| Versions, parameters, gas prices | `src/config_wrapper.cpp` | `GasConfig` | modelled, proved |
| Gas parameters from the price of RAM | `src/config_wrapper.cpp` (`update_consensus_parameters`, `check_gas_overflow`) | `GasParameters` | modelled, proved |
| EVM state store | `src/state.cpp`, rest of `src/admin_actions.cpp` | `StateStore`, implements `EvmState` | modelled, proved |

How they fit together. `BridgeLedger` is about amounts and takes three things as
given that other modules show: a row is an exact number (`BalanceWithDust`), a
delivered message is what the EVM contract encoded (`BridgeMessage`), and
settings may be anything (`GasConfig` says what they can be). `TokenSwap` follows
the symbols that go with the amounts. `StateStore` is the EVM's own state, of
which the ledger sees the balances only.

### How a contract becomes a state machine

An action of the contract runs to its end without interruption, so it is one
step. A failed `eosio::check` undoes the whole transaction. If nothing of the
transaction happened before, that is the same as the step not being enabled. If
earlier actions of the same transaction did happen, `Abort` of `BridgeLedger`
and `TokenSwap` puts the tables back. Inline actions run after the action that
sent them, depth first, and other contracts get control in between: `inline`
holds what is still to run, and an account in `Contracts` may act while it is not
empty.

### BalanceWithDust

A row is an `int64` amount of natively representable units and a `uint64` dust
word. `PlusAssign` and `MinusAssign` are `operator+=` and `operator-=` with the
words they compute, wrap-around included (`Word`, `Int64`), and each of their
checks. `HalfWord` stands for 2^63. `BoundedCounter` is the abstract
specification: one exact number in `0..Cap`.

### BridgeLedger

`balances`, `nextnonces`, `inevm`, `msgreceivers` and `egresslist` are the tables
of those names; `evm` is the balance of each EVM account; `custody` is the
contract's balance in the token contract; `income` is the statistics row. Rows
hold exact numbers, which is what `BalanceWithDust` justifies. An account name
also stands for its reserved EVM address. A transaction carries a payload: the
value movements its execution makes if it succeeds. A movement spends the value
that the sender sent along (`src` is `None`) or what an EVM account holds, as a
contract does that the transaction calls. Gas used, success and, from version 3
on, the inclusion fee are any the limits allow. `Settle` is the part of
`execute_tx` after the execution followed by `process_filtered_messages`, in the
order of the code.

`Withdraw` takes positive quantities. `withdraw` does not exclude a negative one
itself: the token contract refuses it in the inline transfer, and the transaction
is undone.

The history variables are `burned` (destroyed inside the EVM), `removed` (the
balances of EVM accounts that `rmaccount` erased), `adjusted` (what other
administration actions and a swap deposit changed without a matching token or
claim) and `spendable` (what the authorisations of the last step cover).

`cfg` is any record of a finite set and changes between transactions: the ledger
must be right whatever the configuration does, and how the configuration itself
behaves is the subject of `GasConfig`. The ingress gas limit can also change in
the middle of a transaction: `setgaslimit` asks for no authority, so a contract
that is notified may call it (`SetGasLimit`), and an abort puts it back.

### GasConfig

The configuration over time. Time is the number of the EVM block, the only thing
the code compares. The grace period is a constant number of EVM blocks: the code
adds 180 seconds to the present time, and the block of the sum is `Grace` blocks
after the present one because EVM blocks last one second. `announced` and
`ran` are history: the parameters of the last `configchange` event, and what the
last EVM transaction ran under. Gas parameters are opaque settings; `SmallSset`
are those whose `gas_sset` is below `gas_sset_min`. A miner cut is zero or not.

### GasParameters

What `updtgasparam` computes before it hands parameters to `GasConfig`. The
numbers of the code (the limit 2^63 - 1, the bytes of an account, a contract and
a slot, the size of the largest code) are constants, and products wrap as
`uint64_t` does. A `double` that is computed is any number within one part in
`Precision` of the exact fraction: seven operations round on the way to
`gas_per_byte`, each by a part in 2^53, so 2^50 is right for the code. A check on
`double`s that rounding can decide either way lets the call pass. `cast` and
`settings` are history: the last converted number, also if the checks then fail,
and the calls that passed.

### TokenSwap

`token` is the token contract and symbol of the configuration; `rows`, `inevm`,
`statistics` and `receivers` are the tables that repeat the symbol. `swapgastoken`
rewrites all of them but the balances of others, which `MigrateBal` rewrites in
portions. Deposits, withdrawals and the ingress and egress of EVM transactions are
there as far as they read or write a symbol: `asset` arithmetic and comparison
need equal symbols, `balance_with_dust` works on plain numbers. Names are numbers,
because `migratebal` goes through them in order. The contract that exchanges old
tokens for new ones, one to one, is external (`SwapAccount`, `RunExchange`), or
the exchange is made by hand later (`ExchangeByHand`).

### BridgeMessage

`decode_message` reads a call `bridgeMsgV0(string,bool,bytes)` word by word; each
check or read is a step, and `stream` is what has been read. Lengths are computed
in `uint32_t`, with wrap-around. `Process` is the lookup of the receiver in
`process_filtered_messages`. Words and bytes are small.

### StateStore

`accounts`, `codes`, `storage`, `gcstore` and `config2` are the tables; `cached`
is the copy of `config2` in the state object of the running transaction, which
only its destructor (`EndWrite`) saves. Each callback of the EVM is a step, and
they come in any order, since the order is silkworm's. That no callback writes a
frozen account also rests on silkworm, which has read every account it writes:
`read_account` is where the code tests the flag (`Writable`). Values, nonces and
balances are left out; what `rmaccount` does to balances is in `BridgeLedger`. `byHand` is history: the tables without an account that
`rmgcstore` took out of the queue or `setkvstore` wrote to (the code does not ask
whether the account exists). `Gc` is stated by its result: the longest prefix
of the queue the portion pays for, and a part of the next table. The frozen flag
of the contract, which stops transactions and `gc`, is in `BridgeLedger`.
The initial state is a new deployment: tables written before there was a
`config2`, by a contract of an older release, are not considered.

`EvmState` is what the EVM may rely on: accounts by address, each with a code and
storage of its own. `World` is the refinement mapping: what `read_account` and
`read_storage` return for every address. Ids, code rows and the garbage queue do
not appear in it. `Stray` is what `setkvstore` or `rmgcstore` have left under ids
of no account, which a new account can find.

## What is checked

| Run | Question | States |
| --- | --- | --- |
| `dust` | Is two-word arithmetic exact, and does it refuse only what does not fit? All values of a small word, all amounts up to twice its capacity. | 155 |
| `ledger_v0` | Is every token accounted for when calls run as inline `pushtx`, a contract with code is notified, the gas limit of deposits changes in between, and transactions abort half way? Are nonces unique? | 458,280 |
| `ledger_v1` | Is nobody debited more than they agreed to, with miners, gas payers, bridge messages and a receiver that acts while they are delivered? Is recorded income backed? | 369,464 |
| `ledger_upgrade` | Do version changes, price changes, freezing, corrections and the removal of an EVM account keep the books, and is the total in the EVM off by the removed balances only? | 438,839 |
| `gas` | Do the price queues give notice and hide nothing, does one EVM block have one header, are versions and parameters promoted consistently, and are the impossible checks impossible? | 252,630 |
| `store` | Is storage ever shared or leaked, are code references counted right, does the EVM see a plain map of accounts, and is every discarded table collected in the end, when removal, re-creation, collection and administration are interleaved? | 155,324 |
| `token_swap` | While the token is replaced and rows are migrated in portions, is every claim backed, can holders withdraw, do symbols agree wherever the code compares them, and does the migration end? | 99,280 |
| `conversions` | Are messages delivered as the ABI encodes them, and none refused that is well encoded? Are derived gas parameters exact, sufficient and free of overflow? | 71,079 |

Bounds. In the ledger one representable unit is 2, so that 1 is dust, and the
supply is three units: enough for a deposit, a fee, a withdrawal and an egress
with change. A transaction holds at most two inline actions
(`MaxInline`), which is one running and one pending, and a nonce goes up to 1
(`MaxNonce`), which distinguishes used from unused. `rmaccount` erases one unit of
dust (`MaxRemoved`). Instances differ in what they allow so that each stays small:
contracts with code in `ledger_v0` and `ledger_v1`, two gas limits in `ledger_v0`,
two accounts and two fees per gas in `ledger_v1`, administration in
`ledger_upgrade`, where the fee is enough for every price. A payload of
`ledger_v0` and one of `ledger_upgrade` spend the balance of an EVM account.
`GasConfig` runs with a grace period of one block and four blocks, so that two
queued changes, their activation and a second version change fit, and with two
prices and two sets of parameters, one of them with a small `gas_sset`. The views
(`Tables`, `View`) leave out only variables that no action and no property of the
run reads beyond the step that sets them. Larger instances passed as well: a
supply of four units in `ledger_v1` (1,608,248 states) and, with one gas limit, in
`ledger_v0` (348,201), three sets of parameters (531,150) or five blocks
(2,450,514) in `gas`, and an account with code in `token_swap` (3,902,684, safety
only).

In `store` three account ids are given out (`MaxId`), which allows two live
accounts and a re-creation. One storage location is enough for a half collected
table: its value is gone and its queue row is not.

`token_swap` has two swaps (`MaxSwaps`), there and back, so that a migrated row
becomes stale again while one that was missed is right again, and portions
smaller than the table. No account has code in it: what other contracts do in the
middle of a swap is covered by the proofs of `SymbolsAgree` and `Backed`, and by
the larger instance above. In `conversions` a word has three bytes of three values
and a `uint32_t` sixteen values: lengths on both sides of every rounding and of
the wrap-around occur, and strings of none, one and two words. `Precision` is 10,
just enough for the gas that the limit of 127 lets pass, so that rounding takes
`gas_per_byte` one below and one above the exact number.

Deadlock is checked in all runs but `conversions`, where a conversion ends. Two
runs use fairness. In `store` a transaction that has begun ends, which the
host chain guarantees, and `gc` is called again and again while its result says
that work is left (`state.hpp`: "true if all garbage has been collected"). In
`token_swap` a running transaction ends too, and whoever wants the migration to
be finished repeats `migratebal`, which anyone may call, while there is something
left. Both alternate with transactions of others, hence strong fairness.
`AllCollected` excepts the case that `setkvstore` writes to a table in the queue:
TLC shows that such writes can hold up this table and all behind it. `AllMigrated`
rests on the bound `MaxSwaps`: swaps end.

### Four places where a stated expectation does not hold

- `call_other_pay`: `callotherpay` with the caller as payer fails when the gas
  limit is fully used, since the refund must be positive.
- `parameters_announced`: parameters replaced after they have become active,
  and before a transaction looked, are used without a `configchange` event.
- `queue_empty_v3`: a price queued after `setversion(3)` in the same EVM block
  stays in the old queue under version 3.
- `minimum_price`: from `setversion(3)` to the end of the EVM block the minimum gas
  price is 0.

Further observations, which contradict no document:

- `rmaccount` erases the row of an EVM account with its balance and leaves `inevm`
  as it is, so from then on `inevm` is above the sum of the EVM accounts by what was
  erased (`InEvmExact`). The tokens stay in custody and belong to nobody. The tests
  compare `inevm` with the sum (`check_balances` in `tests/basic_evm_tester.cpp`),
  but never after an `rmaccount`.
- `setgasprices` sets the overhead and storage prices at once until version 3 is in
  force; `NoticeGiven` speaks of them from then on only.
- Under version 3 a second `setgasprices` in one EVM block replaces the whole
  queued row, so a change of the other price queued before it is dropped.
- A change left in the old queue by `queue_empty_v3` also leaves
  `queue_front_block` set, which only makes `process_queue` look at an empty queue.
- After a swap, a deposit to an opened account that has not been migrated fails
  until `migratebal`, or a withdrawal, has relabelled its row.
- `updtgasparam` sets parameters for the next EVM block, derived from a storage
  price that takes effect only after the grace period.
- `check_gas_overflow` multiplies the creation gas, not the gas per byte, by the
  size of the code. For derived parameters this is the stricter condition
  (`ChargesFit`).
- That a length near 2^32 is harmless, although its padding wraps around to 0,
  rests on the memory limit of WASM and, for the account, on the length of a name.

## What is proved

Proofs are in the `...Proofs` modules, in `BridgeTransactions`, `BridgeMoney` and
`DataLemmas`. They assume the named assumptions on constants, which TLC evaluates
for the instances it checks, and in two theorems a condition that is written in
the theorem.

- `DataLemmas`: the facts the other proofs share, about the least and the largest
  of a set of numbers, finite sets, and sums over sets, functions and sequences.
  The provers cannot instantiate an induction rule with a predicate, so each
  induction is about a set: a family of subsets of a finite set that contains the
  empty set and grows by any element contains the whole set (`GrowingFamily`).
  Sums come from the fold of the community modules; `SumAdd` is the one step all
  other lemmas about them rest on.
- `ArithmeticProofs`: the two pieces of machine arithmetic. For `BalanceWithDust`
  type correctness, no spurious abort, and the refinement of `BoundedCounter`, for
  every unit, capacity and word size with `2 * MaxAmount + 1 < HalfWord` and
  `MinAsset <= HalfWord`. The argument is the uniqueness of quotient and remainder
  (`Division`), that the words do not wrap except in the borrow (`Words`), and one
  lemma per operator. For `GasParameters` the properties `ConversionDefined`,
  `ChargesFit` and `StorageCovered`, for every word size and every size in bytes
  with the ratios of the code (an account and a slot take at most the bytes of a
  contract; `gas_sset_min` is at most what the largest code costs at one unit per
  byte) and every `Precision` that counts the gas the limit lets pass
  (`Limit <= ContractBytes * MaxCodeSize * (Precision - 2)`: 2^63 against some 2^73
  in the code). That is why the last property has a constant margin although the
  error of a `double` is relative: `check_gas_overflow` keeps `gas_per_byte` below
  `Precision - 1` (`ChargesOf`), where one part in `Precision` is less than one unit
  (`PerByte`).
- `GasConfigProofs`: every property of the run `gas`. The inductive invariant
  `Inv` adds to them what makes them inductive: queued rows and
  `queue_front_block` lie at or before the present activation block, no queued
  storage price is 0, the queue of version 3 is empty before version 3 is in
  force (which makes one front for two queues harmless), the cached version is at
  most the pending one, and parameters are pending only from version 1 on. For
  `OneHeaderPerBlock` a second invariant, `Header`, says what the last transaction
  of the present block ran under. `NoticeGiven` compares what a queue says of a
  block before and after the step, which is a matter of the largest and the least
  member of a set of block numbers.
- `BridgeLedgerProofs`: `OpenHasNonce` and `NoncesNeverReused`, for
  any accounts, payloads and length of inline actions. The invariant has to
  speak about the tables an abort puts back: they satisfy the same row
  invariant, and their nonces are not above the present ones. A frozen contract
  has no transaction under way. The second half says what the operators of the
  ledger do to sums: the messages of an execution split by receiver
  (`MessagesSplit`) and by who pays for them (`SourcesSplit`), a selection of messages keeps its total (`SelectFacts`), and
  taking from, adding to or crediting rows changes their sum by that amount.
- `BridgeTransactions` puts these together along `execute_tx` and
  `process_filtered_messages`: what ingress takes is what the execution hands out
  (to EVM accounts, reserved addresses, the miner, the contract, or destroyed),
  egress credits or transfers exactly what reserved addresses hold, and refund and
  delivery only move money between rows. `ProcessTxPays` is the outcome.
- `BridgeMoney`: every remaining property of the ledger's passing runs: `TypeOK`,
  `Solvent`, `InEvmExact`, `DebitsAuthorised`, `IncomeBacked` and
  `FrozenStopsFunds`. The inductive
  invariant is `MoneyInv`: type correctness, `Solvent`, `InEvmExact`, the nonce
  invariant, and, while a transaction runs, that the saved tables balance as well,
  with no transfer under way. Without the last part an abort, which puts these
  tables back, would not preserve `Solvent`. `Solvent` and `InEvmExact` need each
  other: that an egress does not make `inevm` negative follows from what the EVM
  accounts hold. One lemma per action shows that it is `Sound` (the books are
  balanced again) and `Fair` (no row loses more than was authorised). Accounts and
  EVM addresses are finite sets of any size, settings any record with a miner cut
  of at most 100 %, payloads any sequences of movements. `IncomeIsBacked` is stated
  for the versions before 3: from version 3 on the miner gets the inclusion fee,
  which silkworm computes, and the model leaves open how it compares with the
  gas fee.
- `TokenSwapProofs`: `TypeOK`, `SymbolsAgree` and `MigrationOnlyShrinks`, for any
  accounts, tokens, portions and number of swaps. Again the saved tables satisfy
  the invariant too, since an aborted swap puts back the old token with its rows.
  `AlwaysBacked` proves `Backed` on the condition `OneForAnother`, that two tokens
  are exchanged for one another as in the instance TLC checks. Its invariant
  `Funds` adds that tokens of the kind no longer in use leave only to be exchanged,
  and that the saved tables are backed with nothing under way.
- `StateStoreProofs`: `StorageUnshared`, `NoLeak` and `NewAccountsEmpty`, for any
  addresses, codes, locations, portions and number of ids. The invariant adds
  that the id counter, whether in the state object, in `config2` or not yet there,
  is above every id that names a live or a waiting table. Then `TypeOK`,
  `CodesCounted` and `ImplementsEvmState`: `Fit` says that `ref_count` is the number
  of referring rows and that addresses and hashes are unique. A step that touches
  one row changes one account of `World`, because views of different rows have
  different addresses (`SeenPut`, `SeenDrop`); `gc` changes none, because no live
  table waits.

Only model-checked:

- `DeliveredAsEncoded` and `EncodedIsDelivered`: what a fold over a byte string
  computes.
- `HoldersCanWithdraw` (`ENABLED`), `AllCollected` and `AllMigrated` (liveness under
  fairness).
- `IncomeBacked` and `Backed` outside the conditions above.

## Not modelled

- `exec`: read-only, writes no table; its result goes to a callback or a trace.
- `assertnonce`: compares and changes nothing.
- Events (`evmtx`, except that `configchange` is recorded as `announced`), RLP and
  byte conversions, the lazy transaction wrapper, logging and tracing: no state.
- What the EVM computes (silkworm and evmone) is external. `BridgeLedger` takes its
  result from a finite set of payloads, each a sequence of movements of the sender's
  value or of what EVM accounts hold (the proofs: any such set), executed in full or
  not at all, and `StateStore` its writes in any order.
- The caches inside the state object: the EVM has read what it needs before it
  writes.
- Changes of precision in a swap: `swapgastoken` converts no amounts.
- Test actions, and tables left by older releases of the contract.
