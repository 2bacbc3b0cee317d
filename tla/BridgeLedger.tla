---------------------------- MODULE BridgeLedger ----------------------------
(***************************************************************************)
(* The money of the EVM bridge.  The contract account (Self) holds tokens  *)
(* in the token contract; against them it keeps one row per opened account *)
(* (balances), the total inside the EVM (inevm) and the EVM accounts.      *)
(* Deposits, withdrawals, calls and EVM transactions move amounts between  *)
(* them, and some of the moves are finished by inline actions that run     *)
(* later in the same transaction, with other contracts taking control in   *)
(* between.                                                                *)
(*                                                                         *)
(* A step is one action of one transaction.  A failed eosio::check aborts  *)
(* the transaction: the failing step is not enabled, and Abort puts back   *)
(* what the transaction had changed.  Rows hold exact amounts, which       *)
(* BalanceWithDust shows is what balance_with_dust computes.               *)
(***************************************************************************)
EXTENDS Integers, Sequences, FiniteSets, FiniteSetsExt, Functions

CONSTANTS
  Accounts,        \* account names other than the contract's own
  Self,            \* get_self(): the contract's account
  Existing,        \* the names is_account() is true of
  Contracts,       \* accounts with code: they get control when notified
  EvmAddrs,        \* EVM addresses outside the reserved range
  None,            \* no payer, no receiver
  MinAsset,        \* minimum_natively_representable
  HundredPercent,  \* hundred_percent of miner_cut
  MaxTransfers,    \* transfers to one non-open account in a transaction (5)
  Configs,         \* what version and fee settings the ledger meets
  Payloads,        \* what EVM transactions do: sequences of value movements
  GasLimits, Fees, \* gas limits and prices per gas of transactions
  Quantities,      \* token quantities deposited and withdrawn
  Receivers,       \* names the administration registers for bridge messages
  Listable,        \* contracts the administration may list for egress
  AdminSenders,    \* addresses admincall is used for
  FreezeValues,    \* what freeze is called with
  Supply,          \* tokens in existence
  MaxNonce, MaxIncome, MaxInline, MaxAdjust, MaxRemoved  \* bounds of the exploration

Names == Accounts \cup {Self}

\* What the parameters range over: value movements of EVM transactions, and
\* settings (miner_cut is at most hundred_percent).
Movements ==
  {m \in [kind : {"call", "payout", "burn"}, to : Names \cup EvmAddrs \cup {None},
          value : Nat, src : EvmAddrs \cup {None}, recv : Names \cup {None}] :
     m.kind # "burn" => m.to # None}
Settings == [version : Nat, price : Nat, minerCut : 0..HundredPercent, ingressFee : Nat,
             ingressGas : Nat, newAccountGas : Nat]

ASSUME LedgerAssumption ==
  /\ Self \notin Accounts /\ Names \cap EvmAddrs = {}
  /\ None \notin Names \cup EvmAddrs
  /\ IsFiniteSet(Accounts) /\ IsFiniteSet(EvmAddrs)
  /\ Self \in Existing /\ Existing \subseteq Names /\ Contracts \subseteq Existing
  /\ MinAsset \in Nat \ {0} /\ HundredPercent \in Nat \ {0}
  /\ MaxTransfers \in Nat /\ Supply \in Nat
  /\ Receivers \subseteq Names /\ Listable \subseteq Accounts
  /\ AdminSenders \subseteq Names \cup EvmAddrs /\ FreezeValues \subseteq BOOLEAN
  /\ Payloads \subseteq Seq(Movements) /\ Configs \subseteq Settings
  /\ GasLimits \subseteq Nat /\ Fees \subseteq Nat /\ Quantities \subseteq Nat
  /\ MaxNonce \in Nat /\ MaxIncome \in Nat /\ MaxInline \in Nat /\ MaxAdjust \in Nat
  /\ MaxRemoved \in Nat

VARIABLES
  balances,     \* opened accounts -> amount
  nextnonces,   \* accounts -> nonce of their next bridge transaction
  inevm,        \* the inevm singleton
  evm,          \* EVM account balances
  burned,       \* destroyed inside the EVM (history)
  removed,      \* erased with EVM accounts by rmaccount (history)
  custody,      \* tokens of Self in the token contract
  income,       \* statistics: gas fees and ingress bridge fees
  msgreceivers, \* registered bridge message receivers -> min_fee
  egresslist,   \* contracts allowed for egress while not opened
  frozen,       \* status flag frozen
  cfg,          \* version and fee settings in force
  inline,       \* inline actions of the running transaction still to run
  saved,        \* the tables as the running transaction found them
  adjusted,     \* claims administration created without tokens (history)
  spendable     \* what the last step was authorised to debit (history)

tables == <<balances, nextnonces, inevm, evm, burned, removed, custody, income,
            msgreceivers, egresslist, adjusted>>
vars == <<tables, frozen, cfg, inline, saved, spendable>>

NoDebits == [n \in Names |-> 0]

\* The tables after init: only the contract's own row is open.
Init ==
  /\ balances = [n \in {Self} |-> 0] /\ nextnonces = [n \in {Self} |-> 0]
  /\ inevm = 0 /\ evm = [e \in EvmAddrs |-> 0] /\ burned = 0
  /\ removed = 0 /\ custody = 0
  /\ income = [gas |-> 0, ingress |-> 0]
  /\ msgreceivers = <<>> /\ egresslist = {}
  /\ frozen = FALSE /\ cfg \in Configs
  /\ inline = <<>> /\ saved = None /\ adjusted = 0 /\ spendable = NoDebits

-----------------------------------------------------------------------------
(* Transactions of the host chain *)

Snapshot == [balances |-> balances, nextnonces |-> nextnonces, inevm |-> inevm,
             evm |-> evm, burned |-> burned, removed |-> removed, custody |-> custody,
             income |-> income, msgreceivers |-> msgreceivers,
             egresslist |-> egresslist, adjusted |-> adjusted, cfg |-> cfg]

\* The step sends actions, which run before what the transaction still has
\* to run (rest).  The transaction commits when nothing is left.
Continue(actions, rest) ==
  /\ Len(actions \o rest) <= MaxInline
  /\ inline' = actions \o rest
  /\ saved' = IF inline' = <<>> THEN None
              ELSE IF inline = <<>> THEN Snapshot ELSE saved

\* Who can act now: anyone with a transaction of their own, or a contract
\* that the running transaction has notified or called.
MayAct(who) == inline = <<>> \/ who \in Contracts

\* A check failed, or another contract refused: nothing of it happened.
Abort ==
  /\ inline # <<>>
  /\ balances' = saved.balances /\ nextnonces' = saved.nextnonces
  /\ inevm' = saved.inevm /\ evm' = saved.evm /\ burned' = saved.burned
  /\ removed' = saved.removed /\ custody' = saved.custody /\ income' = saved.income
  /\ msgreceivers' = saved.msgreceivers /\ egresslist' = saved.egresslist
  /\ adjusted' = saved.adjusted /\ cfg' = saved.cfg
  /\ inline' = <<>> /\ saved' = None /\ spendable' = NoDebits
  /\ UNCHANGED frozen

-----------------------------------------------------------------------------
(* EVM transactions.  tx.from is an EVM address or, for the transactions   *)
(* the bridge itself builds, the name whose reserved address sends it;     *)
(* tx.bridge tells a bridge ("special") signature, under which a failing   *)
(* execution aborts; tx.payer is rc.gas_payer.  A payload is the sequence  *)
(* of the value movements a successful execution makes: a call (captured   *)
(* as a filtered message when its target is a reserved address), a payout  *)
(* without a message, or a burn.  A movement is made with tx.value (m.src  *)
(* is None) or by an EVM contract out of its own balance (m.src).  m.recv  *)
(* is the account a bridge message is for, None when the call carries no   *)
(* data.                                                                   *)

Total(msgs, Test(_)) ==
  SumFunctionOnSet([i \in DOMAIN msgs |-> msgs[i].value], {i \in DOMAIN msgs : Test(msgs[i])})

\* The messages at the chosen positions, in their order.
Select(msgs, chosen) ==
  LET sel[i \in 0..Len(msgs)] ==
        IF i = 0 THEN <<>>
        ELSE IF i \in chosen THEN Append(sel[i - 1], msgs[i]) ELSE sel[i - 1]
  IN  sel[Len(msgs)]

\* tx.value is what the payload moves on behalf of the sender.
OfSender(m) == m.src = None
TxValue(tx) == Total(tx.payload, OfSender)
MaxGasCost(tx) == tx.gas * tx.maxFee

\* Price per gas: base fee plus priority fee, or before version 1 the whole
\* max_fee_per_gas.
PriorityFee(tx) == Min({tx.prio, tx.maxFee - cfg.price})
GasPrice(tx) == IF cfg.version >= 1 THEN cfg.price + PriorityFee(tx) ELSE tx.maxFee

\* process_tx's own checks on prices, and pre_validate_transaction's.
PriceAccepted(tx, minInclusion) ==
  IF cfg.version >= 1
  THEN tx.prio <= tx.maxFee /\ tx.maxFee >= cfg.price /\ PriorityFee(tx) >= minInclusion
  ELSE tx.prio = tx.maxFee /\ tx.maxFee >= cfg.price /\ minInclusion = 0

\* balance_with_dust's -= without its check
HasRow(b, n, x) == n \in DOMAIN b

CanTake(b, n, x) == n \in DOMAIN b /\ b[n] >= x
Take(b, n, x) == [b EXCEPT ![n] = @ - x]
Give(b, n, x) == [b EXCEPT ![n] = @ + x]

\* Debits the sender also when there is a gas payer
IngressFromSender(b, tx) == Take(b, tx.from, TxValue(tx) + MaxGasCost(tx))

\* The debit of the sender's row, or of the payer's and the sender's, before
\* the execution.
IngressAllowed(b, tx) ==
  IF tx.payer = None
  THEN CanTake(b, tx.from, TxValue(tx) + MaxGasCost(tx))
  ELSE /\ CanTake(b, tx.payer, MaxGasCost(tx))
       /\ TxValue(tx) > 0 => CanTake(Take(b, tx.payer, MaxGasCost(tx)), tx.from, TxValue(tx))
Ingress(b, tx) ==
  IF tx.payer = None
  THEN Take(b, tx.from, TxValue(tx) + MaxGasCost(tx))
  ELSE LET paid == Take(b, tx.payer, MaxGasCost(tx))
       IN  IF TxValue(tx) = 0 THEN paid ELSE Take(paid, tx.from, TxValue(tx))

\* validate_transaction and execute_transaction: the sender pays the gas used
\* to the contract's reserved address (the beneficiary) and, on success, the
\* payload is carried out.  held is what reserved addresses then hold.  No
\* account goes below 0: the EVM fails a call its caller cannot pay for.
Execution(tx, gasUsed, success) ==
  LET done  == IF success THEN tx.payload ELSE <<>>
      fee   == gasUsed * GasPrice(tx)
      spent == fee + Total(done, OfSender)
      To(x) == Total(done, LAMBDA m : m.kind # "burn" /\ m.to = x)
      From(e) == Total(done, LAMBDA m : m.src = e)
      Left(n) == IF n = tx.from THEN TxValue(tx) + MaxGasCost(tx) - spent ELSE 0
  IN  [gas    |-> gasUsed,
       fee    |-> fee,
       done   |-> done,
       held   |-> [n \in Names |-> To(n) + Left(n) + (IF n = Self THEN fee ELSE 0)],
       evm    |-> [e \in EvmAddrs |-> evm[e] + To(e) - From(e)
                                        - (IF e = tx.from THEN spent ELSE 0)],
       burned |-> Total(done, LAMBDA m : m.kind = "burn")]

\* Gives the miner the base fee too
MinerPortionWhole(tx, miner, gasUsed, inclusionFee) ==
  IF miner = Self THEN 0 ELSE gasUsed * GasPrice(tx)

\* The part of the gas fee for a miner other than the contract.  From version
\* 3 on the EVM computes it (inclusionFee).
MinerPortion(tx, miner, gasUsed, inclusionFee) ==
  CASE miner = Self -> 0
    [] miner # Self /\ cfg.version >= 3 -> inclusionFee
    [] miner # Self /\ cfg.version \in {1, 2} -> gasUsed * PriorityFee(tx)
    [] OTHER -> (gasUsed * tx.maxFee * cfg.minerCut) \div HundredPercent

\* Messages to reserved addresses, which the EVM message filter captures.
IsCall(m) == m.kind = "call"
NotOpen(b, held) == {n \in Names \ DOMAIN b : held[n] > 0}

\* The checks of the egress loop of execute_tx.
EgressAllowed(b, ex, portion) ==
  /\ portion > 0 => ex.held[Self] > 0
  /\ b[Self] + ex.held[Self] >= portion
  /\ \A n \in NotOpen(b, ex.held) :
       LET mine == {i \in DOMAIN ex.done : IsCall(ex.done[i]) /\ ex.done[i].to = n}
       IN  /\ n \in Existing
           /\ n \in Contracts => n \in egresslist
           /\ Cardinality(mine) <= MaxTransfers
           /\ \A i \in mine : ex.done[i].value % MinAsset = 0
           /\ Total(ex.done, LAMBDA m : IsCall(m) /\ m.to = n) = ex.held[n]

\* Gives the miner its portion without debiting the contract's row
EgressUndebited(b, ex, miner, portion) ==
  LET credited == [n \in DOMAIN b |-> b[n] + ex.held[n]]
  IN  IF portion = 0 THEN credited ELSE Give(credited, miner, portion)

\* Opened accounts are credited what their reserved addresses hold, the
\* contract's row gives the miner its portion, and the others are sent
\* token transfers, in the order of the messages.
Egress(b, ex, miner, portion) ==
  LET credited == [n \in DOMAIN b |-> b[n] + ex.held[n]]
  IN  IF portion = 0 THEN credited ELSE Give(Take(credited, Self, portion), miner, portion)
EgressTransfers(b, ex) ==
  LET msgs == Select(ex.done, {i \in DOMAIN ex.done : /\ IsCall(ex.done[i])
                                                      /\ ex.done[i].to \in NotOpen(b, ex.held)})
  IN  [i \in DOMAIN msgs |->
         [type |-> "transfer", to |-> msgs[i].to, quantity |-> msgs[i].value \div MinAsset]]

\* Counts only what opened accounts received
TotalEgressOpen(b, ex) == SumFunction([n \in DOMAIN b |-> ex.held[n]])

\* total_egress, which leaves inevm
TotalEgress(b, ex) == SumFunction(ex.held)

\* value_with_max_gas, which a bridge transaction moves into inevm
Staked(tx) == IF tx.from \in Names THEN TxValue(tx) + MaxGasCost(tx) ELSE 0

\* The unused gas of a transaction with a gas payer, which the egress loop
\* gave to the sender, goes to the payer.
Excess(tx, ex) == MaxGasCost(tx) - ex.fee
RefundAllowed(b, tx, ex) ==
  Excess(tx, ex) > 0 /\ CanTake(b, tx.from, Excess(tx, ex)) /\ tx.payer \in DOMAIN b
Refund(b, tx, ex) == Give(Take(b, tx.from, Excess(tx, ex)), tx.payer, Excess(tx, ex))

\* process_filtered_messages: bridge messages to the contract's address pass
\* their value on to a registered and opened receiver.
IsBridgeMessage(m) == IsCall(m) /\ m.to = Self /\ m.recv # None
BridgeMessages(ex) == Select(ex.done, {i \in DOMAIN ex.done : IsBridgeMessage(ex.done[i])})
Credited(b, msgs) == [n \in DOMAIN b |-> b[n] + Total(msgs, LAMBDA m : m.recv = n)]
DeliveryAllowed(b, msgs) ==
  /\ \A i \in DOMAIN msgs :
       LET n == msgs[i].recv
       IN  /\ n \in Existing /\ n \in DOMAIN msgreceivers /\ n \in DOMAIN b
           /\ msgs[i].value >= msgreceivers[n] * MinAsset
  /\ CanTake(Credited(b, msgs), Self, Total(msgs, LAMBDA m : TRUE))

\* Without the debit of accumulated_value
DeliveryUndebited(b, msgs) == Credited(b, msgs)

Delivery(b, msgs) == Take(Credited(b, msgs), Self, Total(msgs, LAMBDA m : TRUE))
Handlers(msgs) == [i \in DOMAIN msgs |-> [type |-> "onbridgemsg", to |-> msgs[i].recv]]

\* What the sender of a bridge transaction agreed to spend, and who pays the gas.
Spends(tx) ==
  LET gasPayer == IF tx.payer = None THEN tx.from ELSE tx.payer
  IN  [n \in Names |-> (IF n = tx.from THEN TxValue(tx) ELSE 0)
                       + (IF n = gasPayer THEN MaxGasCost(tx) ELSE 0)]

\* What execute_tx does after the execution, on the rows b: egress, miner portion,
\* refund and statistics; then the bridge messages are delivered.
GasIncome(tx, ex, portion) ==
  CASE tx.from = Self -> 0
    [] tx.from # Self /\ cfg.version >= 1 -> ex.gas * cfg.price
    [] OTHER -> ex.fee - portion
Settle(b, inc, tx, miner, ex, portion, rest) ==
  LET b1 == Egress(b, ex, miner, portion)
      b2 == IF tx.payer = None THEN b1 ELSE Refund(b1, tx, ex)
      msgs == BridgeMessages(ex)
      total == TotalEgress(b, ex)
  IN
  /\ EgressAllowed(b, ex, portion)
  /\ inevm + Staked(tx) >= total
  /\ tx.payer # None => RefundAllowed(b1, tx, ex)
  /\ DeliveryAllowed(b2, msgs)
  /\ balances' = Delivery(b2, msgs)
  /\ inevm' = inevm + Staked(tx) - total
  /\ evm' = ex.evm
  /\ burned' = burned + ex.burned
  /\ income' = [inc EXCEPT !.gas = @ + GasIncome(tx, ex, portion)]
  /\ income'.gas <= MaxIncome
  /\ Continue(EgressTransfers(b, ex) \o Handlers(msgs), rest)

\* process_tx, on the rows b and the statistics inc that the handler has
\* already updated.
ProcessTx(b, inc, tx, miner, minInclusion, rest) ==
  /\ PriceAccepted(tx, minInclusion)
  /\ miner \in DOMAIN b
  /\ IF tx.from \in Names THEN IngressAllowed(b, tx)
     ELSE evm[tx.from] >= TxValue(tx) + MaxGasCost(tx)
  /\ \E gasUsed \in 1..tx.gas, success \in (IF tx.bridge THEN {TRUE} ELSE BOOLEAN) :
     LET ex == Execution(tx, gasUsed, success)
     IN  /\ \A x \in EvmAddrs : ex.evm[x] >= 0
         /\ \E inclusionFee \in IF miner # Self /\ cfg.version >= 3 THEN 0..ex.fee ELSE {0} :
              Settle(IF tx.from \in Names THEN Ingress(b, tx) ELSE b, inc, tx, miner, ex,
                     MinerPortion(tx, miner, gasUsed, inclusionFee), rest)

-----------------------------------------------------------------------------
(* Operations of the contract *)

\* pushtx of a signed transaction by anyone.
PushTx(miner, e, payload, gas, maxFee, prio, minInclusion) ==
  /\ ~frozen /\ (inline = <<>> \/ Contracts # {})
  /\ ProcessTx(balances, income,
               [from |-> e, bridge |-> FALSE, payer |-> None, payload |-> payload,
                gas |-> gas, maxFee |-> maxFee, prio |-> prio],
               miner, minInclusion, inline)
  /\ spendable' = NoDebits
  /\ UNCHANGED <<removed, nextnonces, custody, msgreceivers, egresslist, adjusted, frozen, cfg>>

\* dispatch_tx: run the transaction at once or, before version 1, send it to
\* the contract itself as an inline pushtx.
DispatchTx(b, inc, tx) ==
  IF cfg.version >= 1
  THEN ProcessTx(b, inc, tx, Self, 0, inline)
  ELSE /\ balances' = b /\ income' = inc
       /\ Continue(<<[type |-> "pushtx", tx |-> tx]>>, inline)
       /\ UNCHANGED <<inevm, evm, burned>>

BridgeTx(from, payer, payload, gas) ==
  [from |-> from, bridge |-> TRUE, payer |-> payer, payload |-> payload,
   gas |-> gas, maxFee |-> cfg.price, prio |-> cfg.price]

\* get_and_increment_nonce
UseNonce(owner) ==
  /\ owner \in DOMAIN nextnonces /\ nextnonces[owner] < MaxNonce
  /\ nextnonces' = [nextnonces EXCEPT ![owner] = @ + 1]

Call(from, payload, gas) ==
  /\ ~frozen /\ MayAct(from)
  /\ UseNonce(from)
  /\ DispatchTx(balances, income, BridgeTx(from, None, payload, gas))
  /\ spendable' = Spends(BridgeTx(from, None, payload, gas))
  /\ UNCHANGED <<removed, custody, msgreceivers, egresslist, adjusted, frozen, cfg>>

CallOtherPay(payer, from, payload, gas) ==
  /\ ~frozen /\ MayAct(from) /\ MayAct(payer)
  /\ cfg.version >= 1
  /\ UseNonce(from)
  /\ DispatchTx(balances, income, BridgeTx(from, payer, payload, gas))
  /\ spendable' = Spends(BridgeTx(from, payer, payload, gas))
  /\ UNCHANGED <<removed, custody, msgreceivers, egresslist, adjusted, frozen, cfg>>

\* admincall, from a reserved address or from an EVM account
AdminCall(from, payload, gas) ==
  /\ ~frozen /\ inline = <<>>
  /\ IF from \in Names THEN UseNonce(from) ELSE UNCHANGED nextnonces
  /\ DispatchTx(balances, income, BridgeTx(from, None, payload, gas))
  /\ spendable' = Spends(BridgeTx(from, None, payload, gas))
  /\ UNCHANGED <<removed, custody, msgreceivers, egresslist, adjusted, frozen, cfg>>

\* The row of owner exists, with 0 if it is new.
WithRow(rows, owner) ==
  [n \in DOMAIN rows \cup {owner} |-> IF n \in DOMAIN rows THEN rows[n] ELSE 0]

\* Opens the balance row only
OpenBalance(owner) ==
  /\ balances' = WithRow(balances, owner)
  /\ UNCHANGED nextnonces

\* open_internal_balance
OpenRows(owner) ==
  /\ balances' = WithRow(balances, owner)
  /\ nextnonces' = WithRow(nextnonces, owner)

\* Without assert_unfrozen
OpenFrozen(owner) ==
  /\ MayAct(owner)
  /\ OpenRows(owner)
  /\ Continue(<<>>, inline) /\ spendable' = NoDebits
  /\ UNCHANGED <<inevm, evm, burned, removed, custody, income, msgreceivers, egresslist,
                 adjusted, frozen, cfg>>

Open(owner) ==
  /\ ~frozen /\ MayAct(owner)
  /\ OpenRows(owner)
  /\ Continue(<<>>, inline) /\ spendable' = NoDebits
  /\ UNCHANGED <<inevm, evm, burned, removed, custody, income, msgreceivers, egresslist,
                 adjusted, frozen, cfg>>

\* Erases the nonce row of every closed account
NoncesErased(owner) == Restrict(nextnonces, DOMAIN nextnonces \ {owner})

\* The nonce row of a closed account stays when it has been used.
NoncesAfterClose(owner) ==
  IF nextnonces[owner] # 0 THEN nextnonces
  ELSE Restrict(nextnonces, DOMAIN nextnonces \ {owner})

Close(owner) ==
  /\ ~frozen /\ MayAct(owner)
  /\ owner # Self
  /\ owner \in DOMAIN balances /\ balances[owner] = 0
  /\ owner \in DOMAIN nextnonces
  /\ balances' = Restrict(balances, DOMAIN balances \ {owner})
  /\ nextnonces' = NoncesAfterClose(owner)
  /\ Continue(<<>>, inline) /\ spendable' = NoDebits
  /\ UNCHANGED <<inevm, evm, burned, removed, custody, income, msgreceivers, egresslist,
                 adjusted, frozen, cfg>>

\* A token transfer to the contract with an account name as memo:
\* handle_account_transfer.
DepositToAccount(from, receiver, quantity) ==
  /\ ~frozen /\ MayAct(from)
  /\ quantity > 0 /\ custody + quantity <= Supply
  /\ receiver \in DOMAIN balances
  /\ balances' = Give(balances, receiver, quantity * MinAsset)
  /\ custody' = custody + quantity
  /\ Continue(<<>>, inline) /\ spendable' = NoDebits
  /\ UNCHANGED <<nextnonces, inevm, evm, burned, removed, income, msgreceivers, egresslist,
                 adjusted, frozen, cfg>>

\* A token transfer to the contract with an EVM address as memo, which may be
\* the reserved address of a name: handle_evm_transfer.  gas_txnewaccount is
\* added to the gas limit when the destination is new.
DepositToEvm(from, to, quantity, gas) ==
  /\ ~frozen /\ MayAct(from)
  /\ quantity > 0 /\ custody + quantity <= Supply
  /\ quantity > cfg.ingressFee
  /\ gas \in {cfg.ingressGas, cfg.ingressGas + cfg.newAccountGas}
  /\ income.ingress + cfg.ingressFee * MinAsset <= MaxIncome
  /\ custody' = custody + quantity
  /\ UseNonce(Self)
  /\ DispatchTx(Give(balances, Self, quantity * MinAsset),
                [income EXCEPT !.ingress = @ + cfg.ingressFee * MinAsset],
                BridgeTx(Self, None,
                  <<[kind |-> "call", to |-> to, src |-> None, recv |-> None,
                     value |-> (quantity - cfg.ingressFee) * MinAsset]>>, gas))
  /\ spendable' = NoDebits
  /\ UNCHANGED <<removed, msgreceivers, egresslist, adjusted, frozen, cfg>>

\* The token contract funds a swap of the gas token: a transfer from it with an
\* empty memo is not credited to anyone.
DepositForSwap(quantity) ==
  /\ ~frozen /\ inline = <<>>
  /\ quantity > 0 /\ custody + quantity <= Supply
  /\ adjusted - quantity * MinAsset >= -MaxAdjust
  /\ custody' = custody + quantity
  /\ adjusted' = adjusted - quantity * MinAsset
  /\ spendable' = NoDebits
  /\ UNCHANGED <<balances, nextnonces, inevm, evm, burned, removed, income, msgreceivers,
                 egresslist, frozen, cfg, inline, saved>>

\* withdraw itself lets a negative quantity pass; the token contract refuses it in
\* the inline transfer, which aborts the transaction (see Abort).
Withdraw(owner, quantity, to) ==
  /\ ~frozen /\ MayAct(owner)
  /\ owner \in DOMAIN balances
  /\ balances[owner] \div MinAsset >= quantity
  /\ balances' = Take(balances, owner, quantity * MinAsset)
  /\ Continue(<<[type |-> "transfer", to |-> to, quantity |-> quantity]>>, inline)
  /\ spendable' = [NoDebits EXCEPT ![owner] = quantity * MinAsset]
  /\ UNCHANGED <<nextnonces, inevm, evm, burned, removed, custody, income, msgreceivers,
                 egresslist, adjusted, frozen, cfg>>

-----------------------------------------------------------------------------
(* Inline actions *)

\* The token contract moves tokens of Self and notifies the contract.
RunTransfer ==
  /\ inline # <<>> /\ Head(inline).type = "transfer"
  /\ LET t == Head(inline)
     IN  /\ t.quantity > 0 /\ t.to \in Existing \ {Self}
         /\ custody >= t.quantity
         /\ custody' = custody - t.quantity
  /\ ~frozen
  /\ Continue(<<>>, Tail(inline)) /\ spendable' = NoDebits
  /\ UNCHANGED <<balances, nextnonces, inevm, evm, burned, removed, income, msgreceivers,
                 egresslist, adjusted, frozen, cfg>>

\* pushtx sent by the contract to itself, before version 1
RunPushTx ==
  /\ inline # <<>> /\ Head(inline).type = "pushtx"
  /\ ~frozen
  /\ ProcessTx(balances, income, Head(inline).tx, Self, 0, Tail(inline))
  /\ spendable' = Spends(Head(inline).tx)
  /\ UNCHANGED <<removed, nextnonces, custody, msgreceivers, egresslist, adjusted, frozen, cfg>>

\* onbridgemsg at the receiver's handler: the ledger does not change, but the
\* handler has control.
RunHandler ==
  /\ inline # <<>> /\ Head(inline).type = "onbridgemsg"
  /\ Continue(<<>>, Tail(inline)) /\ spendable' = NoDebits
  /\ UNCHANGED <<tables, frozen, cfg>>

-----------------------------------------------------------------------------
(* Registration and administration *)

BridgeReg(receiver, minFee) ==
  /\ ~frozen /\ inline = <<>>
  /\ msgreceivers' = [n \in DOMAIN msgreceivers \cup {receiver} |->
                         IF n = receiver THEN minFee ELSE msgreceivers[n]]
  /\ OpenRows(receiver)
  /\ Continue(<<>>, inline) /\ spendable' = NoDebits
  /\ UNCHANGED <<inevm, evm, burned, removed, custody, income, egresslist, adjusted, frozen, cfg>>

BridgeUnreg(receiver) ==
  /\ ~frozen /\ MayAct(receiver)
  /\ receiver \in DOMAIN msgreceivers
  /\ msgreceivers' = Restrict(msgreceivers, DOMAIN msgreceivers \ {receiver})
  /\ Continue(<<>>, inline) /\ spendable' = NoDebits
  /\ UNCHANGED <<balances, nextnonces, inevm, evm, burned, removed, custody, income, egresslist,
                 adjusted, frozen, cfg>>

\* addegress and removeegress, one account at a time
SetEgress(account, allowed) ==
  /\ inline = <<>>
  /\ egresslist' = IF allowed THEN egresslist \cup {account} ELSE egresslist \ {account}
  /\ spendable' = NoDebits
  /\ UNCHANGED <<balances, nextnonces, inevm, evm, burned, removed, custody, income, msgreceivers,
                 adjusted, frozen, cfg, inline, saved>>

Freeze(value) ==
  /\ inline = <<>>
  /\ frozen' = value
  /\ spendable' = NoDebits
  /\ UNCHANGED <<tables, cfg, inline, saved>>

\* Any change of the settings between two transactions: versions only grow.
Reconfigure(c) ==
  /\ inline = <<>>
  /\ c.version >= cfg.version
  /\ cfg' = c
  /\ spendable' = NoDebits
  /\ UNCHANGED <<tables, frozen, inline, saved>>

\* setgaslimit asks for no authority and does not look at frozen: anyone may
\* call it, a contract also within a transaction.
SetGasLimit(limit) ==
  /\ inline = <<>> \/ Contracts # {}
  /\ cfg' = [cfg EXCEPT !.ingressGas = limit] /\ cfg' \in Configs
  /\ Continue(<<>>, inline) /\ spendable' = NoDebits
  /\ UNCHANGED <<tables, frozen>>

\* addopenbal and addevmbal, of builds WITH_ADMIN_ACTIONS
AddOpenBal(account, delta) ==
  /\ inline = <<>>
  /\ account \in DOMAIN balances /\ balances[account] + delta >= 0
  /\ adjusted + delta \in (-MaxAdjust)..MaxAdjust
  /\ balances' = [balances EXCEPT ![account] = @ + delta]
  /\ adjusted' = adjusted + delta
  /\ spendable' = [NoDebits EXCEPT ![account] = -delta]
  /\ UNCHANGED <<nextnonces, inevm, evm, burned, removed, custody, income, msgreceivers,
                 egresslist, frozen, cfg, inline, saved>>

AddEvmBal(e, delta) ==
  /\ inline = <<>>
  /\ inevm + delta >= 0 /\ evm[e] + delta >= 0
  /\ adjusted + delta \in (-MaxAdjust)..MaxAdjust
  /\ inevm' = inevm + delta
  /\ evm' = [evm EXCEPT ![e] = @ + delta]
  /\ adjusted' = adjusted + delta
  /\ spendable' = NoDebits
  /\ UNCHANGED <<balances, nextnonces, burned, removed, custody, income, msgreceivers,
                 egresslist, frozen, cfg, inline, saved>>

\* rmaccount erases an EVM account with whatever it holds and leaves inevm as
\* it is, also while the contract is frozen.
RmAccount(e) ==
  /\ inline = <<>>
  /\ removed + evm[e] <= MaxRemoved
  /\ evm' = [evm EXCEPT ![e] = 0]
  /\ removed' = removed + evm[e]
  /\ spendable' = NoDebits
  /\ UNCHANGED <<balances, nextnonces, inevm, burned, custody, income, msgreceivers,
                 egresslist, adjusted, frozen, cfg, inline, saved>>

Deltas == {-1, 1}

Next ==
  \/ \E miner \in Names, e \in EvmAddrs, payload \in Payloads, gas \in GasLimits,
        maxFee \in Fees, prio \in Fees, minInclusion \in Fees \cup {0} :
       PushTx(miner, e, payload, gas, maxFee, prio, minInclusion)
  \/ \E from \in Names, payload \in Payloads, gas \in GasLimits : Call(from, payload, gas)
  \/ \E payer \in Names, from \in Names, payload \in Payloads, gas \in GasLimits :
       CallOtherPay(payer, from, payload, gas)
  \/ \E from \in AdminSenders, payload \in Payloads, gas \in GasLimits :
       AdminCall(from, payload, gas)
  \/ \E owner \in Names : Open(owner) \/ Close(owner)
  \/ \E from \in Accounts, receiver \in Names, quantity \in Quantities :
       DepositToAccount(from, receiver, quantity)
  \/ \E from \in Accounts, to \in Names \cup EvmAddrs, quantity \in Quantities :
       \E gas \in {cfg.ingressGas, cfg.ingressGas + cfg.newAccountGas} :
         DepositToEvm(from, to, quantity, gas)
  \/ \E owner \in Names, quantity \in Quantities, to \in Names : Withdraw(owner, quantity, to)
  \/ RunTransfer
  \/ RunPushTx
  \/ RunHandler
  \/ Abort
  \/ \E receiver \in Receivers, minFee \in Quantities : BridgeReg(receiver, minFee)
  \/ \E receiver \in Names : BridgeUnreg(receiver)
  \/ \E account \in Listable, allowed \in BOOLEAN : SetEgress(account, allowed)
  \/ \E value \in FreezeValues : Freeze(value)
  \/ \E c \in Configs : Reconfigure(c)
  \/ \E c \in Configs : SetGasLimit(c.ingressGas)
  \/ \E quantity \in Quantities : DepositForSwap(quantity)
  \/ \E account \in Names, delta \in Deltas : AddOpenBal(account, delta)
  \/ \E e \in EvmAddrs, delta \in Deltas : AddEvmBal(e, delta)
  \/ \E e \in EvmAddrs : RmAccount(e)

Spec == Init /\ [][Next]_vars

-----------------------------------------------------------------------------
(* Properties *)

\* The transactions and inline actions that can be waiting to run.
Transactions ==
  [from : Names \cup EvmAddrs, bridge : {TRUE}, payer : {None}, payload : Seq(Movements),
   gas : Nat, maxFee : Nat, prio : Nat]
Actions ==
  [type : {"transfer"}, to : Names, quantity : Nat] \cup
  [type : {"onbridgemsg"}, to : Names] \cup [type : {"pushtx"}, tx : Transactions]

IsRows(r) == DOMAIN r \subseteq Names /\ r \in [DOMAIN r -> Nat]
IsTables(t) ==
  /\ IsRows(t.balances) /\ IsRows(t.nextnonces) /\ IsRows(t.msgreceivers)
  /\ t.inevm \in Nat /\ t.evm \in [EvmAddrs -> Nat] /\ t.burned \in Nat /\ t.removed \in Nat
  /\ t.custody \in 0..Supply /\ t.income \in [gas : Nat, ingress : Nat]
  /\ t.egresslist \subseteq Accounts /\ t.adjusted \in (-MaxAdjust)..MaxAdjust
  /\ t.cfg \in Configs

\* Rows, nonces and totals are never negative, also in the tables an abort
\* would put back, and these are kept exactly while inline actions are left to
\* run.
TypeOK ==
  /\ IsTables(Snapshot)
  /\ frozen \in BOOLEAN
  /\ inline \in Seq(Actions)
  /\ IF inline = <<>> THEN saved = None ELSE IsTables(saved)

\* Token transfers that are decided but not yet made.
InFlight ==
  SumFunction([i \in DOMAIN inline |->
                 IF inline[i].type = "transfer" THEN inline[i].quantity ELSE 0])

\* At every point of every transaction, also when another contract has control
\* between two inline actions, the tokens the contract holds are exactly the
\* opened balances plus what is in the EVM plus the transfers still to be
\* made (up to what addopenbal, addevmbal and a swap deposit changed).
Solvent ==
  custody * MinAsset + adjusted = SumFunction(balances) + inevm + InFlight * MinAsset

\* The inevm singleton is the sum of the EVM accounts' balances, of what the EVM
\* destroyed and of what rmaccount erased with an account: rmaccount corrects
\* neither inevm nor any row, and nothing else makes the two differ.  So the
\* egress of a transaction never exceeds inevm.
InEvmExact == inevm = SumFunction(evm) + burned + removed

\* Every opened account has a nonce row, and a closed account keeps one only
\* if it has used a nonce: close and get_and_increment_nonce rely on it.
OpenHasNonce ==
  /\ Self \in DOMAIN balances
  /\ DOMAIN balances \subseteq DOMAIN nextnonces
  /\ \A n \in DOMAIN nextnonces \ DOMAIN balances : nextnonces[n] > 0

\* The nonce an account's next bridge transaction would get, as committed.
CommittedNonce(n) ==
  LET nonces == IF inline = <<>> THEN nextnonces ELSE saved.nextnonces
  IN  IF n \in DOMAIN nonces THEN nonces[n] ELSE 0

\* No sequence of closing and reopening an account, and no abort, makes the
\* bridge hand out a nonce twice.
NoncesNeverReused == [][\A n \in Names : CommittedNonce(n)' >= CommittedNonce(n)]_vars

Balance(n) == IF n \in DOMAIN balances THEN balances[n] ELSE 0

\* No step debits an account more than it authorised in that step: a sender
\* its value and gas, a sender with a gas payer its value only, the payer the
\* gas only, the owner of a withdrawal the quantity, and nobody else anything.
DebitsAuthorised ==
  [][Abort \/ \A n \in Names : Balance(n) - Balance(n)' <= spendable'[n]]_vars

\* The fee income the statistics record stays on the contract's own row when
\* it is recorded: it is not lost to the miner or to bridge message receivers.
IncomeBacked ==
  [][Abort \/ Balance(Self)' - Balance(Self) + spendable'[Self]
                >= income'.gas + income'.ingress - income.gas - income.ingress]_vars

\* While the contract is frozen nothing moves between users, the EVM and the
\* token contract; only the administration's own corrections (addopenbal,
\* addevmbal) change amounts, and rmaccount may erase EVM accounts.
FrozenStopsFunds ==
  [][frozen /\ frozen' =>
       /\ UNCHANGED <<custody, nextnonces, inline, burned>>
       /\ (adjusted' = adjusted => UNCHANGED <<balances, inevm>>)
       /\ (adjusted' = adjusted /\ removed' = removed => UNCHANGED evm)]_vars

\* tests/call_tests.cpp:749 and 891: callotherpay with the caller as the payer
\* behaves exactly as a regular call, so it is possible whenever call is.
CallerAsPayerSameAsCall ==
  inline = <<>> /\ cfg.version >= 1 =>
    \A from \in Names, payload \in Payloads, gas \in GasLimits :
      ENABLED Call(from, payload, gas) => ENABLED CallOtherPay(from, from, payload, gas)
=============================================================================
