---------------------------- MODULE BridgeMoney -----------------------------
(***************************************************************************)
(* For any number of accounts, payloads and inline actions: the tokens the *)
(* contract holds are exactly what it owes, inevm is exactly what the EVM  *)
(* holds, nothing moves in a frozen contract, and no account is debited    *)
(* more than it authorised.                                                *)
(***************************************************************************)
EXTENDS BridgeTransactions

-----------------------------------------------------------------------------
(* What the contract holds and what it owes *)

\* Every action, or the abort of the transaction it belongs to.
LEMMA NextSound ==
  ASSUME Ready, Next
  PROVE  Sound \/ Abort
\* Steps that change rows and custody only, by amounts that match.
<1>Plain.
  ASSUME Ready, Commits, inline' \in Seq(Actions),
         IsRows(balances'), IsRows(nextnonces'), IsRows(msgreceivers'), custody' \in 0..Supply,
         adjusted' \in (-MaxAdjust)..MaxAdjust, egresslist' \subseteq Accounts,
         UNCHANGED <<inevm, evm, burned, removed, income, frozen, cfg>>,
         NEW x \in Int, custody' * MinAsset + adjusted' = custody * MinAsset + adjusted + x,
         SumFunction(balances') + Flight(inline') * MinAsset
           = SumFunction(balances) + Flight(inline) * MinAsset + x
  PROVE  Sound
  <2> USE <1>Plain
  <2> DEFINE a == custody * MinAsset + adjusted
             s == SumFunction(balances)
             s1 == SumFunction(balances')
             f == Flight(inline) * MinAsset
             f1 == Flight(inline') * MinAsset
  <2>1. s \in Nat /\ f \in Nat /\ inevm \in Nat /\ a = s + inevm + f
    BY ReadyFacts, Zenon
  <2>2. s1 \in Nat /\ f1 \in Nat
    BY RowsSum, FlightNat, LedgerAssumption
  <2>3. s1 + f1 = s + f + x
    BY Zenon
  <2> HIDE DEF a, s, s1, f, f1
  <2>4. custody' * MinAsset + adjusted' = s1 + inevm' + f1
    BY <2>1, <2>2, <2>3 DEF a
  <2> QED  BY <2>4, ReadyFacts, Zenon DEF Sound, s1, f1
\* pushtx
<1>PushTxSound.
  ASSUME Ready, NEW miner, NEW e \in EvmAddrs, NEW payload \in Payloads, NEW gas \in GasLimits,
         NEW maxFee \in Fees, NEW prio \in Fees, NEW minInclusion,
         PushTx(miner, e, payload, gas, maxFee, prio, minInclusion)
  PROVE  Sound
  <2> USE <1>PushTxSound
  <2> DEFINE tx == [from |-> e, bridge |-> FALSE, payer |-> None, payload |-> payload,
                    gas |-> gas, maxFee |-> maxFee, prio |-> prio]
  <2>1. /\ ProcessTx(balances, income, tx, miner, minInclusion, inline)
        /\ UNCHANGED <<removed, nextnonces, custody, msgreceivers, egresslist, adjusted, frozen, cfg>>
    BY Zenon DEF PushTx
  <2>2. IsTx(tx)
    BY LedgerAssumption, Zenon DEF IsTx
  <2> HIDE DEF tx
  <2> QED  BY <2>1, <2>2, ReadyFacts, ProcessTxKeeps, ProcessTxCommits, KeptSound, Zenon
\* call, callotherpay and admincall
<1>CallSound.
  ASSUME Ready, NEW payer \in Names \cup {None}, NEW from \in Names \cup EvmAddrs,
         payer # None => from \in Names, cfg.version < 1 => payer = None,
         NEW payload \in Payloads, NEW gas \in GasLimits, IsRows(nextnonces'),
         DispatchTx(balances, income, BridgeTx(from, payer, payload, gas)),
         UNCHANGED <<removed, custody, msgreceivers, egresslist, adjusted, frozen, cfg>>
  PROVE  Sound
  <2> USE <1>CallSound
  <2> QED  BY ReadyFacts, LedgerAssumption, BridgeTxOK, DispatchTxKeeps, KeptSound, Zenon
\* A deposit to an EVM address: the quantity deposited is what the contract's row gains.
<1>DepositToEvmSound.
  ASSUME Ready, NEW from, NEW to \in Names \cup EvmAddrs, NEW quantity \in Quantities,
         NEW gas \in {cfg.ingressGas, cfg.ingressGas + cfg.newAccountGas},
         DepositToEvm(from, to, quantity, gas)
  PROVE  Sound
  <2> USE <1>DepositToEvmSound
  <2> DEFINE q == quantity * MinAsset
             b == Give(balances, Self, q)
             inc == [income EXCEPT !.ingress = @ + cfg.ingressFee * MinAsset]
             payload == <<[kind |-> "call", to |-> to, src |-> None, recv |-> None,
                           value |-> (quantity - cfg.ingressFee) * MinAsset]>>
             tx == BridgeTx(Self, None, payload, gas)
  <2>1. /\ quantity > cfg.ingressFee /\ custody' = custody + quantity /\ custody + quantity <= Supply
        /\ UseNonce(Self) /\ DispatchTx(b, inc, tx)
        /\ UNCHANGED <<removed, msgreceivers, egresslist, adjusted, frozen, cfg>>
    BY Zenon DEF DepositToEvm
  <2>2. /\ cfg \in Configs /\ IsRows(balances) /\ Self \in DOMAIN balances /\ income \in Incomes
        /\ IsRows(nextnonces) /\ IsRows(msgreceivers) /\ custody \in Nat /\ MinAsset \in Nat
    BY ReadyFacts, Zenon
  <2>3. quantity \in Nat /\ q \in Nat /\ cfg.ingressFee * MinAsset \in Nat
        /\ (quantity - cfg.ingressFee) * MinAsset \in Nat
    <3>1. quantity \in Nat
      BY LedgerAssumption, Zenon
    <3> QED  BY <2>1, <2>2, <3>1, SettingsOK
  <2>4. payload \in Seq(Movements)
    BY <2>3, LedgerAssumption DEF Movements
  <2>5. inc \in Incomes
    BY <2>2, <2>3 DEF Incomes
  <2> HIDE DEF q, inc, payload
  <2>6. IsRows(b) /\ DOMAIN b = DOMAIN balances /\ SumFunction(b) = SumFunction(balances) + q
    BY <2>2, <2>3, GiveRow
  <2>7. IsTx(tx) /\ tx \in Transactions
    <3>1. Self \in Names
      BY Zenon DEF Names
    <3> QED  BY <2>2, <2>4, <3>1, SettingsOK, BridgeTxOK
  <2> HIDE DEF b, tx
  <2>8. Kept(b, inline) /\ Commits
    BY <2>1, <2>2, <2>5, <2>6, <2>7, DispatchTxKeeps, Zenon
  <2>9. custody' \in 0..Supply
    BY <2>1, <2>2, <2>3, LedgerAssumption
  <2>10. custody' * MinAsset + adjusted = SumFunction(b) + inevm + Flight(inline) * MinAsset
    <3> DEFINE a == custody * MinAsset
               f == Flight(inline) * MinAsset
               s == SumFunction(balances)
    <3>1. a + adjusted = s + inevm + f /\ a \in Nat /\ f \in Nat /\ s \in Nat /\ inevm \in Nat /\ adjusted \in Int
      BY ReadyFacts, Zenon
    <3> HIDE DEF a, f, s
    <3> QED  BY <2>1, <2>2, <2>3, <2>6, <3>1 DEF a, f, s, q
  <2> QED  BY <2>1, <2>2, <2>8, <2>9, <2>10, NonceRowsOK, KeptSound, Zenon
\* The inline pushtx of versions before 1.
<1>RunPushTxSound.
  ASSUME Ready, RunPushTx
  PROVE  Sound
  <2> USE <1>RunPushTxSound
  <2> DEFINE a == Head(inline)
             rest == Tail(inline)
  <2>1. /\ inline # <<>> /\ a.type = "pushtx"
        /\ ProcessTx(balances, income, a.tx, Self, 0, rest)
        /\ UNCHANGED <<removed, nextnonces, custody, msgreceivers, egresslist, adjusted, frozen, cfg>>
    BY Zenon DEF RunPushTx
  <2>2. a \in Actions /\ rest \in Seq(Actions) /\ Flight(inline) = AmountOf[a] + Flight(rest)
    BY <2>1, ReadyFacts, FlightTail, Zenon
  <2> HIDE DEF a, rest
  <2>3. AmountOf[a] = 0
    BY <2>1, <2>2, Zenon DEF AmountOf
  <2>4. Kept(balances, rest) /\ Commits
    BY <2>1, <2>2, ReadyFacts, ProcessTxKeeps, ProcessTxCommits, Zenon DEF Transactions, IsTx,
       Actions
  <2> QED  BY <2>1, <2>2, <2>3, <2>4, FlightNat, ReadyFacts, KeptSound
\* Steps that move nothing.
<1>Still.
  ASSUME Ready, Commits, inline' \in Seq(Actions),
         IsRows(balances'), IsRows(nextnonces'), IsRows(msgreceivers'), egresslist' \subseteq Accounts,
         UNCHANGED <<inevm, evm, burned, removed, custody, adjusted, income, frozen, cfg>>,
         SumFunction(balances') = SumFunction(balances), Flight(inline') = Flight(inline)
  PROVE  Sound
  <2> USE <1>Still
  <2>1. custody' \in 0..Supply /\ adjusted' \in (-MaxAdjust)..MaxAdjust
    BY ReadyFacts, Zenon
  <2>2. custody' * MinAsset + adjusted' = custody * MinAsset + adjusted + 0
    BY ReadyFacts
  <2>3. SumFunction(balances') + Flight(inline') * MinAsset = SumFunction(balances) + Flight(inline) * MinAsset + 0
    BY ReadyFacts
  <2> QED  BY <2>1, <2>2, <2>3, <1>Plain
\* open and bridgereg: new rows are empty.
<1>OpensSound.
  ASSUME Ready, NEW owner \in Names, OpenRows(owner), Continue(<<>>, inline), IsRows(msgreceivers'),
         UNCHANGED <<inevm, evm, burned, removed, custody, income, egresslist, adjusted, frozen, cfg>>
  PROVE  Sound
  BY <1>OpensSound, <1>Still, ReadyFacts, ContinueOnly, OpenRow, Zenon DEF OpenRows
\* close: only empty rows are erased.
<1>CloseSound.
  ASSUME Ready, NEW owner, Close(owner)
  PROVE  Sound
  <2> USE <1>CloseSound
  <2>1. IsRows(nextnonces')
    <3>1. CASE nextnonces[owner] # 0
      BY <3>1, ReadyFacts, Zenon DEF NoncesAfterClose, Close
    <3>2. CASE nextnonces[owner] = 0
      BY <3>2, ReadyFacts, CloseRow, Zenon DEF NoncesAfterClose, Close
    <3> QED  BY <3>1, <3>2, Zenon
  <2> QED  BY <2>1, <1>Still, ReadyFacts, ContinueOnly, CloseRow, Zenon DEF Close
\* A deposit to an opened account.
<1>DepositToAccountSound.
  ASSUME Ready, NEW from, NEW receiver, NEW quantity \in Quantities,
         DepositToAccount(from, receiver, quantity)
  PROVE  Sound
  <2> USE <1>DepositToAccountSound
  <2> DEFINE q == quantity * MinAsset
  <2>1. /\ IsRows(balances) /\ IsRows(nextnonces) /\ inline \in Seq(Actions) /\ IsRows(msgreceivers)
        /\ custody \in Nat /\ adjusted \in (-MaxAdjust)..MaxAdjust /\ adjusted \in Int
        /\ egresslist \subseteq Accounts /\ MinAsset \in Nat
    BY ReadyFacts, Zenon
  <2>2. /\ custody + quantity <= Supply /\ receiver \in DOMAIN balances
        /\ balances' = Give(balances, receiver, q) /\ custody' = custody + quantity
        /\ Continue(<<>>, inline)
        /\ UNCHANGED <<nextnonces, inevm, evm, burned, removed, income, msgreceivers, egresslist, adjusted, frozen, cfg>>
    BY Zenon DEF DepositToAccount
  <2>3. quantity \in Nat /\ q \in Nat /\ Supply \in Nat
    BY <2>1, LedgerAssumption
  <2>4. Commits /\ inline' = inline
    BY <2>1, <2>2, ContinueOnly, Zenon
  <2>5. custody' * MinAsset + adjusted' = custody * MinAsset + adjusted + q
    BY <2>1, <2>2, <2>3
  <2> HIDE DEF q
  <2>6. IsRows(balances') /\ SumFunction(balances') = SumFunction(balances) + q
    BY <2>1, <2>2, <2>3, GiveRow, Zenon
  <2>7. SumFunction(balances') + Flight(inline') * MinAsset = SumFunction(balances) + Flight(inline) * MinAsset + q
    BY <2>3, <2>4, <2>6, ReadyFacts
  <2>8. custody' \in 0..Supply
    BY <2>1, <2>2, <2>3
  <2> QED  BY <2>1, <2>2, <2>3, <2>4, <2>5, <2>6, <2>7, <2>8, <1>Plain
\* withdraw: what leaves the row is under way until the transfer runs.
<1>WithdrawSound.
  ASSUME Ready, NEW owner, NEW quantity \in Quantities, NEW to \in Names, Withdraw(owner, quantity, to)
  PROVE  Sound
  <2> USE <1>WithdrawSound
  <2> DEFINE q == quantity * MinAsset
             a == [type |-> "transfer", to |-> to, quantity |-> quantity]
  <2>1. /\ IsRows(balances) /\ IsRows(nextnonces) /\ inline \in Seq(Actions) /\ IsRows(msgreceivers)
        /\ custody \in 0..Supply /\ adjusted \in (-MaxAdjust)..MaxAdjust /\ adjusted \in Int
        /\ egresslist \subseteq Accounts
    BY ReadyFacts, Zenon
  <2>2. /\ owner \in DOMAIN balances /\ balances[owner] \div MinAsset >= quantity
        /\ balances' = Take(balances, owner, q)
        /\ Continue(<<a>>, inline)
        /\ UNCHANGED <<nextnonces, inevm, evm, burned, removed, custody, income, msgreceivers,
                       egresslist, adjusted, frozen, cfg>>
    BY Zenon DEF Withdraw
  <2>3. quantity \in Nat /\ q \in Nat /\ MinAsset \in Nat \ {0} /\ balances[owner] \in Nat
    BY <2>1, <2>2, LedgerAssumption, RowsSum
  <2>4. CanTake(balances, owner, q)
    BY <2>2, <2>3 DEF CanTake
  <2>5. a \in Actions /\ AmountOf[a] = quantity
    BY <2>3, Zenon DEF AmountOf, Actions
  <2> HIDE DEF a
  <2>6. Commits /\ inline' \in Seq(Actions) /\ Flight(inline') = quantity + Flight(inline)
    BY <2>1, <2>2, <2>5, FlightOne, ContinueCommits, Zenon
  <2>7. Flight(inline') * MinAsset = q + Flight(inline) * MinAsset
    BY <2>3, <2>6, ReadyFacts
  <2> HIDE DEF q
  <2>8. IsRows(balances') /\ SumFunction(balances') = SumFunction(balances) - q
    BY <2>1, <2>2, <2>3, <2>4, TakeRow, Zenon
  <2>9. SumFunction(balances') + Flight(inline') * MinAsset = SumFunction(balances) + Flight(inline) * MinAsset + 0
    BY <2>3, <2>7, <2>8, ReadyFacts
  <2>10. custody' * MinAsset + adjusted' = custody * MinAsset + adjusted + 0
    BY <2>2, ReadyFacts
  <2> QED  BY <2>1, <2>2, <2>6, <2>8, <2>9, <2>10, <1>Plain
\* The token transfer itself.
<1>RunTransferSound.
  ASSUME Ready, RunTransfer
  PROVE  Sound
  <2> USE <1>RunTransferSound
  <2> DEFINE a == Head(inline)
             rest == Tail(inline)
             q == a.quantity
  <2>1. /\ IsRows(balances) /\ IsRows(nextnonces) /\ inline \in Seq(Actions) /\ IsRows(msgreceivers)
        /\ custody \in 0..Supply /\ custody \in Nat /\ adjusted \in (-MaxAdjust)..MaxAdjust /\ adjusted \in Int
        /\ egresslist \subseteq Accounts /\ MinAsset \in Nat
    BY ReadyFacts, Zenon
  <2>2. /\ inline # <<>> /\ a.type = "transfer" /\ q > 0 /\ custody >= q /\ custody' = custody - q
        /\ Continue(<<>>, rest)
        /\ UNCHANGED <<balances, nextnonces, inevm, evm, burned, removed, income, msgreceivers,
                       egresslist, adjusted, frozen, cfg>>
    BY Zenon DEF RunTransfer
  <2>3. a \in Actions /\ rest \in Seq(Actions) /\ Flight(inline) = AmountOf[a] + Flight(rest)
    BY <2>1, <2>2, FlightTail, Zenon
  <2> HIDE DEF a, rest
  <2>4. q \in Nat /\ AmountOf[a] = q
    BY <2>2, <2>3, AmountsOf, Zenon DEF AmountOf
  <2> HIDE DEF q
  <2>5. Commits /\ inline' = rest
    BY <2>2, <2>3, ContinueOnly, Zenon
  <2>6. Flight(rest) \in Nat /\ Flight(rest) * MinAsset \in Nat /\ SumFunction(balances) \in Nat /\ q * MinAsset \in Nat
    BY <2>1, <2>3, <2>4, FlightNat, RowsSum
  <2>7. custody' * MinAsset + adjusted' = custody * MinAsset + adjusted + (0 - q * MinAsset)
    BY <2>1, <2>2, <2>4
  <2>8. SumFunction(balances') + Flight(inline') * MinAsset
          = SumFunction(balances) + Flight(inline) * MinAsset + (0 - q * MinAsset)
    BY <2>1, <2>2, <2>3, <2>4, <2>5, <2>6
  <2>9. custody' \in 0..Supply /\ 0 - q * MinAsset \in Int
    BY <2>1, <2>2, <2>4, <2>6, LedgerAssumption
  <2> QED  BY <2>1, <2>2, <2>3, <2>5, <2>7, <2>8, <2>9, <1>Plain, Zenon
\* bridgereg and bridgeunreg
<1>RegistrationSound.
  ASSUME Ready, NEW receiver \in Names, NEW minFee \in Nat,
         BridgeReg(receiver, minFee) \/ BridgeUnreg(receiver)
  PROVE  Sound
  <2> USE <1>RegistrationSound
  <2>1. CASE BridgeReg(receiver, minFee)
    BY <2>1, <1>OpensSound, ReadyFacts, Zenon DEF BridgeReg, IsRows
  <2>2. CASE BridgeUnreg(receiver)
    BY <2>2, <1>Still, ReadyFacts, ContinueOnly, Zenon DEF BridgeUnreg, IsRows, Restrict
  <2> QED  BY <2>1, <2>2, Zenon
\* onbridgemsg at a receiver.
<1>RunHandlerSound.
  ASSUME Ready, RunHandler
  PROVE  Sound
  <2> USE <1>RunHandlerSound
  <2>1. /\ IsRows(balances) /\ IsRows(nextnonces) /\ inline \in Seq(Actions) /\ IsRows(msgreceivers)
        /\ egresslist \subseteq Accounts
    BY ReadyFacts, Zenon
  <2>2. /\ inline # <<>> /\ Head(inline).type = "onbridgemsg" /\ Continue(<<>>, Tail(inline))
        /\ UNCHANGED <<balances, nextnonces, inevm, evm, burned, removed, custody, income,
                       msgreceivers, egresslist, adjusted, frozen, cfg>>
    BY Zenon DEF RunHandler, tables
  <2> DEFINE a == Head(inline)
             rest == Tail(inline)
  <2>3. a \in Actions /\ rest \in Seq(Actions) /\ Flight(inline) = AmountOf[a] + Flight(rest)
    BY <2>1, <2>2, FlightTail, Zenon
  <2>4. AmountOf[a] = 0
    BY <2>2, <2>3, Zenon DEF AmountOf
  <2> HIDE DEF a
  <2>5. Commits /\ inline' = rest
    BY <2>2, <2>3, ContinueOnly, Zenon
  <2> HIDE DEF rest
  <2> QED  BY <2>1, <2>2, <2>3, <2>4, <2>5, <1>Still, FlightNat
\* What the administration does between two transactions.
<1>SettingSound.
  ASSUME Ready, inline = <<>>, UNCHANGED <<inline, saved>>,
         UNCHANGED <<balances, nextnonces, inevm, evm, burned, removed, custody, income, msgreceivers, adjusted>>,
         egresslist' \subseteq Accounts, frozen' \in BOOLEAN, cfg' \in Configs
  PROVE  Sound
  BY <1>SettingSound, ReadyFacts, Zenon DEF Sound, Commits
\* The deposit that funds a swap of the gas token is nobody's: adjusted records it.
<1>DepositForSwapSound.
  ASSUME Ready, NEW quantity \in Quantities, DepositForSwap(quantity)
  PROVE  Sound
  <2> USE <1>DepositForSwapSound
  <2>1. /\ IsRows(balances) /\ IsRows(nextnonces) /\ inline \in Seq(Actions) /\ IsRows(msgreceivers)
        /\ custody \in Nat /\ adjusted \in (-MaxAdjust)..MaxAdjust /\ adjusted \in Int
        /\ egresslist \subseteq Accounts /\ MinAsset \in Nat
        /\ (inline = <<>> => saved = None)
    BY ReadyFacts, Zenon
  <2>2. SumFunction(balances') + Flight(inline') * MinAsset = SumFunction(balances) + Flight(inline) * MinAsset + 0
    BY ReadyFacts DEF DepositForSwap
  <2> QED  BY <2>1, <2>2, <1>Plain, LedgerAssumption DEF Commits, DepositForSwap
\* addopenbal: adjusted records the correction.
<1>AddOpenBalSound.
  ASSUME Ready, NEW account, NEW delta \in Int, AddOpenBal(account, delta)
  PROVE  Sound
  <2> USE <1>AddOpenBalSound
  <2>1. /\ IsRows(balances) /\ IsRows(nextnonces) /\ inline \in Seq(Actions) /\ IsRows(msgreceivers)
        /\ custody \in 0..Supply /\ adjusted \in Int /\ custody * MinAsset \in Nat
        /\ egresslist \subseteq Accounts
        /\ (inline = <<>> => saved = None)
    BY ReadyFacts, Zenon
  <2>2. /\ inline = <<>> /\ account \in DOMAIN balances /\ balances[account] + delta >= 0
        /\ balances' = [balances EXCEPT ![account] = balances[account] + delta]
        /\ adjusted' = adjusted + delta /\ adjusted' \in (-MaxAdjust)..MaxAdjust
        /\ UNCHANGED <<nextnonces, inevm, evm, burned, removed, custody, income, msgreceivers,
                       egresslist, frozen, cfg, inline, saved>>
    BY Zenon DEF AddOpenBal
  <2>3. /\ IsFiniteSet(DOMAIN balances) /\ \A n \in DOMAIN balances : balances[n] \in Int
        /\ balances[account] \in Nat /\ balances[account] + delta \in Nat
    BY <2>1, <2>2, RowsSum
  <2>4. SumFunction(balances') = SumFunction(balances) + delta
    <3> DEFINE v == balances[account] + delta
               s == SumFunction(balances)
    <3>1. v \in Int /\ s \in Nat
      BY <2>1, <2>3, RowsSum
    <3>2. v = balances[account] + delta
      BY Zenon
    <3> HIDE DEF v
    <3>3. SumFunction([balances EXCEPT ![account] = v]) = s - balances[account] + v
      BY <2>2, <2>3, <3>1, TotalUpdate, Zenon
    <3> HIDE DEF s
    <3> QED  BY <2>2, <2>3, <3>1, <3>2, <3>3 DEF s
  <2>5. custody' * MinAsset + adjusted' = custody * MinAsset + adjusted + delta
    BY <2>1, <2>2
  <2>6. SumFunction(balances') + Flight(inline') * MinAsset = SumFunction(balances) + Flight(inline) * MinAsset + delta
    BY <2>2, <2>4, ReadyFacts
  <2> QED  BY <2>1, <2>2, <2>3, <2>5, <2>6, <1>Plain, Zenon DEF Commits, IsRows
\* addevmbal: inevm, the account and adjusted change alike.
<1>AddEvmBalSound.
  ASSUME Ready, NEW e \in EvmAddrs, NEW delta \in Int, AddEvmBal(e, delta)
  PROVE  Sound
  <2> USE <1>AddEvmBalSound
  <2>1. /\ IsRows(balances) /\ IsRows(nextnonces) /\ inline \in Seq(Actions) /\ IsRows(msgreceivers)
        /\ custody \in 0..Supply /\ egresslist \subseteq Accounts /\ burned \in Nat /\ removed \in Nat
        /\ frozen \in BOOLEAN /\ cfg \in Configs /\ income \in Incomes
        /\ (inline = <<>> => saved = None) /\ evm \in [EvmAddrs -> Nat] /\ inevm \in Nat
    BY ReadyFacts, Zenon
  <2>2. /\ inline = <<>> /\ inevm + delta >= 0 /\ evm[e] + delta >= 0
        /\ inevm' = inevm + delta
        /\ evm' = [evm EXCEPT ![e] = evm[e] + delta]
        /\ adjusted' = adjusted + delta /\ adjusted' \in (-MaxAdjust)..MaxAdjust
        /\ UNCHANGED <<balances, nextnonces, burned, removed, custody, income, msgreceivers,
                       egresslist, frozen, cfg, inline, saved>>
    BY Zenon DEF AddEvmBal
  <2>3. evm' \in [EvmAddrs -> Nat] /\ inevm' \in Nat /\ evm[e] \in Nat
    BY <2>1, <2>2
  <2>4. SumFunction(evm') = SumFunction(evm) + delta /\ SumFunction(evm) \in Nat
    <3> DEFINE v == evm[e] + delta
               s == SumFunction(evm)
    <3>1. v \in Int /\ s \in Nat
      BY <2>3, ReadyFacts
    <3>2. v = evm[e] + delta
      BY Zenon
    <3>3. evm' = [evm EXCEPT ![e] = v]
      BY <2>2, Zenon
    <3>4. IsFiniteSet(DOMAIN evm) /\ e \in DOMAIN evm /\ \A x \in DOMAIN evm : evm[x] \in Int
      BY <2>1, NamesFinite
    <3> HIDE DEF v
    <3> HIDE DEF s
    <3>5. s - evm[e] + v = s + delta
      BY <2>3, <3>1, <3>2
    <3> QED  BY <3>1, <3>3, <3>4, <3>5, TotalUpdate, Zenon DEF s
  <2>5. inevm' = SumFunction(evm') + burned' + removed'
    <3> DEFINE s == SumFunction(evm)
    <3>1. s \in Nat /\ inevm = s + burned + removed
      BY ReadyFacts, Zenon
    <3>2. SumFunction(evm') = s + delta
      BY <2>4, Zenon
    <3> HIDE DEF s
    <3> QED  BY <2>1, <2>2, <3>1, <3>2
  <2>6. custody' * MinAsset + adjusted' = SumFunction(balances') + inevm' + Flight(inline') * MinAsset
    <3> DEFINE a == custody * MinAsset
               s == SumFunction(balances)
               f == Flight(inline) * MinAsset
    <3>1. a \in Nat /\ s \in Nat /\ f \in Nat /\ adjusted \in Int /\ a + adjusted = s + inevm + f
      BY ReadyFacts, Zenon
    <3> HIDE DEF a, s, f
    <3>2. a + (adjusted + delta) = s + (inevm + delta) + f
      BY <2>1, <3>1
    <3> QED  BY <2>2, <3>2, Zenon DEF a, s, f
  <2> QED  BY <2>1, <2>2, <2>3, <2>5, <2>6, Zenon DEF Sound, Commits
\* rmaccount: what the erased account held is recorded.
<1>RmAccountSound.
  ASSUME Ready, NEW e \in EvmAddrs, RmAccount(e)
  PROVE  Sound
  <2> USE <1>RmAccountSound
  <2>1. /\ IsRows(balances) /\ IsRows(nextnonces) /\ inline \in Seq(Actions) /\ IsRows(msgreceivers)
        /\ custody \in 0..Supply /\ egresslist \subseteq Accounts /\ burned \in Nat /\ removed \in Nat
        /\ frozen \in BOOLEAN /\ cfg \in Configs /\ income \in Incomes
        /\ adjusted \in (-MaxAdjust)..MaxAdjust
        /\ (inline = <<>> => saved = None) /\ evm \in [EvmAddrs -> Nat] /\ inevm \in Nat
        /\ custody * MinAsset + adjusted
             = SumFunction(balances) + inevm + Flight(inline) * MinAsset
    BY ReadyFacts, Zenon
  <2>2. /\ inline = <<>> /\ evm' = [evm EXCEPT ![e] = 0] /\ removed' = removed + evm[e]
        /\ UNCHANGED <<balances, nextnonces, inevm, burned, custody, income, msgreceivers,
                       egresslist, adjusted, frozen, cfg, inline, saved>>
    BY Zenon DEF RmAccount
  <2>3. evm' \in [EvmAddrs -> Nat] /\ evm[e] \in Nat /\ removed' \in Nat
    BY <2>1, <2>2
  <2> DEFINE s == SumFunction(evm)
             t == SumFunction(evm')
  <2>4. s \in Nat /\ inevm = s + burned + removed
    BY ReadyFacts, Zenon
  <2>5. t = s - evm[e] + 0
    <3>1. IsFiniteSet(DOMAIN evm) /\ e \in DOMAIN evm /\ \A x \in DOMAIN evm : evm[x] \in Int
      BY <2>1, NamesFinite
    <3>2. 0 \in Int
      OBVIOUS
    <3> QED  BY <2>2, <3>1, <3>2, TotalUpdate, Zenon
  <2> HIDE DEF s, t
  <2>6. inevm' = t + burned' + removed'
    BY <2>1, <2>2, <2>3, <2>4, <2>5
  <2> QED  BY <2>1, <2>2, <2>3, <2>6, Zenon DEF Sound, Commits, t
\* setgaslimit: only a setting changes.
<1>SetGasLimitSound.
  ASSUME Ready, NEW limit, SetGasLimit(limit)
  PROVE  Sound
  <2> USE <1>SetGasLimitSound
  <2>1. /\ cfg' \in Configs /\ Continue(<<>>, inline)
        /\ UNCHANGED <<balances, nextnonces, inevm, evm, burned, removed, custody, income,
                       msgreceivers, egresslist, adjusted, frozen>>
    BY Zenon DEF SetGasLimit, tables
  <2>2. Commits /\ inline' = inline
    BY <2>1, ReadyFacts, ContinueOnly, Zenon
  <2> QED  BY <2>1, <2>2, ReadyFacts, Zenon DEF Sound
<1>1. ASSUME NEW miner \in Names, NEW e \in EvmAddrs, NEW payload \in Payloads, NEW gas \in GasLimits,
             NEW maxFee \in Fees, NEW prio \in Fees, NEW minInclusion \in Fees \cup {0},
             PushTx(miner, e, payload, gas, maxFee, prio, minInclusion)
      PROVE  Sound
  BY <1>1, <1>PushTxSound, Zenon
<1>2. ASSUME NEW from \in Names, NEW payload \in Payloads, NEW gas \in GasLimits, Call(from, payload, gas)
      PROVE  Sound
  BY <1>2, <1>CallSound, NonceRowsOK, ReadyFacts, Zenon DEF Call
<1>3. ASSUME NEW payer \in Names, NEW from \in Names, NEW payload \in Payloads, NEW gas \in GasLimits,
             CallOtherPay(payer, from, payload, gas)
      PROVE  Sound
  <2>1. ~(cfg.version < 1)
    <3>1. cfg.version \in Nat
      BY ReadyFacts, SettingsOK, Zenon
    <3> QED  BY <1>3, <3>1 DEF CallOtherPay
  <2> QED  BY <1>3, <2>1, <1>CallSound, NonceRowsOK, ReadyFacts, Zenon DEF CallOtherPay
<1>4. ASSUME NEW from \in AdminSenders, NEW payload \in Payloads, NEW gas \in GasLimits,
             AdminCall(from, payload, gas)
      PROVE  Sound
  BY <1>4, <1>CallSound, NonceRowsOK, ReadyFacts, LedgerAssumption, Zenon DEF AdminCall
<1>5. ASSUME NEW owner \in Names, Open(owner)
      PROVE  Sound
  BY <1>5, <1>OpensSound, ReadyFacts, Zenon DEF Open
<1>6. ASSUME NEW owner \in Names, Close(owner)
      PROVE  Sound
  BY <1>6, <1>CloseSound, Zenon
<1>7. ASSUME NEW from, NEW receiver, NEW quantity \in Quantities, DepositToAccount(from, receiver, quantity)
      PROVE  Sound
  BY <1>7, <1>DepositToAccountSound, Zenon
<1>8. ASSUME NEW from, NEW to \in Names \cup EvmAddrs, NEW quantity \in Quantities,
             NEW gas \in {cfg.ingressGas, cfg.ingressGas + cfg.newAccountGas},
             DepositToEvm(from, to, quantity, gas)
      PROVE  Sound
  BY <1>8, <1>DepositToEvmSound, Zenon
<1>9. ASSUME NEW owner, NEW quantity \in Quantities, NEW to \in Names, Withdraw(owner, quantity, to)
      PROVE  Sound
  BY <1>9, <1>WithdrawSound, Zenon
<1>10. ASSUME RunTransfer \/ RunPushTx \/ RunHandler PROVE Sound
  BY <1>10, <1>RunTransferSound, <1>RunPushTxSound, <1>RunHandlerSound, Zenon
<1>11. ASSUME NEW receiver \in Receivers, NEW minFee \in Quantities, BridgeReg(receiver, minFee)
       PROVE  Sound
  BY <1>11, <1>RegistrationSound, LedgerAssumption, Zenon
<1>12. ASSUME NEW receiver \in Names, BridgeUnreg(receiver)
       PROVE  Sound
  BY <1>12, <1>RegistrationSound, Zenon
<1>13. ASSUME NEW account \in Listable, NEW allowed \in BOOLEAN, SetEgress(account, allowed)
       PROVE  Sound
  BY <1>13, <1>SettingSound, ReadyFacts, LedgerAssumption, Zenon DEF SetEgress
<1>14. ASSUME NEW value \in FreezeValues, Freeze(value)
       PROVE  Sound
  BY <1>14, <1>SettingSound, ReadyFacts, LedgerAssumption, Zenon DEF Freeze, tables
<1>15. ASSUME NEW c \in Configs, Reconfigure(c)
       PROVE  Sound
  BY <1>15, <1>SettingSound, ReadyFacts, Zenon DEF Reconfigure, tables
<1>16. ASSUME NEW quantity \in Quantities, DepositForSwap(quantity)
       PROVE  Sound
  BY <1>16, <1>DepositForSwapSound, Zenon
<1>17. ASSUME NEW account \in Names, NEW delta \in Deltas, AddOpenBal(account, delta)
       PROVE  Sound
  BY <1>17, <1>AddOpenBalSound DEF Deltas
<1>18. ASSUME NEW e \in EvmAddrs, NEW delta \in Deltas, AddEvmBal(e, delta)
       PROVE  Sound
  BY <1>18, <1>AddEvmBalSound DEF Deltas
<1>19. ASSUME NEW limit, SetGasLimit(limit)
       PROVE  Sound
  BY <1>19, <1>SetGasLimitSound, Zenon
<1>20. ASSUME NEW e \in EvmAddrs, RmAccount(e)
       PROVE  Sound
  BY <1>20, <1>RmAccountSound, Zenon
<1> QED
  BY <1>1, <1>2, <1>3, <1>4, <1>5, <1>6, <1>7, <1>8, <1>9, <1>10, <1>11, <1>12, <1>13, <1>14,
     <1>15, <1>16, <1>17, <1>18, <1>19, <1>20, Zenon DEF Next

\* The tables t balance on their own, with no transfer under way.
Balanced(t) ==
  /\ t.custody * MinAsset + t.adjusted = SumFunction(t.balances) + t.inevm
  /\ t.inevm = SumFunction(t.evm) + t.burned + t.removed

\* The invariant that is inductive: what an abort would put back balances too.
MoneyInv == Inv /\ TypeOK /\ Solvent /\ InEvmExact /\ (inline # <<>> => Balanced(saved))

\* The state after init.
LEMMA MoneyInitially == ASSUME Init PROVE MoneyInv
<1>1. \A S : IsFiniteSet(S) => SumFunction([x \in S |-> 0]) = 0
  <2> SUFFICES ASSUME NEW S, IsFiniteSet(S) PROVE SumFunction([x \in S |-> 0]) = 0
    BY Zenon
  <2> QED  BY SumZero, Zenon DEF SumFunction
<1>2. SumFunction(balances) = 0 /\ SumFunction(evm) = 0
  <2>1. IsFiniteSet({Self}) /\ IsFiniteSet(EvmAddrs)
    BY NamesFinite, FiniteEmpty, FiniteAdd
  <2> QED  BY <1>1, <2>1, Zenon DEF Init
<1>3. InFlight = 0
  <2>1. inline \in Seq(Actions) /\ inline = <<>>
    BY DEF Init
  <2> QED  BY <2>1, FlightIs, FlightNone, Zenon DEF InFlight
<1>4. TypeOK
  <2>1. frozen \in BOOLEAN /\ cfg \in Configs /\ inline = <<>> /\ saved = None
    BY Zenon DEF Init
  <2> QED  BY <2>1, LedgerAssumption DEF TypeOK, IsTables, Snapshot, Init, IsRows
<1>5. Solvent /\ InEvmExact
  BY <1>2, <1>3, LedgerAssumption DEF Solvent, InEvmExact, Init
<1> QED  BY <1>4, <1>5, Initially, Zenon DEF MoneyInv, Init

\* Every step keeps it.
LEMMA MoneyInductive ==
  ASSUME MoneyInv, [Next]_vars
  PROVE  MoneyInv'
<1>1. Ready
  BY DEF MoneyInv, Ready, Inv, RowsOK
<1>2. CASE Sound
  <2>1. ASSUME inline' # <<>>
        PROVE  IsTables(saved') /\ Balanced(saved')
    <3>1. CASE inline = <<>>
      <4>1. Balanced(Snapshot)
        BY <1>1, <3>1, ReadyFacts, FlightNone DEF Balanced, Snapshot
      <4> QED  BY <1>2, <2>1, <3>1, <4>1, Zenon DEF Sound, Commits, MoneyInv, TypeOK
    <3>2. CASE inline # <<>>
      BY <1>2, <2>1, <3>2, Zenon DEF Sound, Commits, MoneyInv, TypeOK
    <3> QED  BY <3>1, <3>2, Zenon
  <2>2. TypeOK'
    <3>1. IsTables(Snapshot)'
      BY <1>2, Zenon DEF Sound, IsTables, Snapshot, Incomes
    <3>2. frozen' \in BOOLEAN /\ inline' \in Seq(Actions)
      BY <1>2, Zenon DEF Sound
    <3>3. IF inline' = <<>> THEN saved' = None ELSE IsTables(saved')
      BY <1>2, <2>1, Zenon DEF Sound, Commits
    <3> QED  BY <3>1, <3>2, <3>3, Zenon DEF TypeOK
  <2> QED  BY <1>2, <2>1, <2>2, Inductive, FlightIs, Zenon DEF MoneyInv, Sound, Solvent,
              InEvmExact, InFlight, Balanced
<1>3. CASE Abort
  <2>1. /\ balances' = saved.balances /\ nextnonces' = saved.nextnonces
        /\ inevm' = saved.inevm /\ evm' = saved.evm /\ burned' = saved.burned
        /\ removed' = saved.removed /\ cfg' = saved.cfg /\ custody' = saved.custody /\ income' = saved.income
        /\ msgreceivers' = saved.msgreceivers /\ egresslist' = saved.egresslist
        /\ adjusted' = saved.adjusted /\ inline # <<>>
        /\ inline' = <<>> /\ saved' = None /\ frozen' = frozen
    BY <1>3, Zenon DEF Abort
  <2>2. IsTables(saved) /\ Balanced(saved)
    BY <2>1, Zenon DEF MoneyInv, TypeOK
  <2>3. inline' \in Seq(Actions)
    BY <2>1
  <2>4. Solvent'
    <3> DEFINE s == SumFunction(balances')
    <3>0. IsRows(balances')
      BY <2>1, <2>2, Zenon DEF IsTables
    <3>1. s \in Nat
      BY ONLY <3>0, RowsSum, Zenon
    <3> HIDE DEF s
    <3>2. s + inevm' = s + inevm' + 0 * MinAsset
      BY <2>1, <2>2, <3>1, LedgerAssumption DEF IsTables
    <3> QED  BY <2>1, <2>2, <2>3, <3>2, FlightIs, FlightNone, Zenon DEF Solvent, s, InFlight,
                Balanced
  <2> QED  BY <2>1, <2>2, <2>3, <2>4, Inductive DEF MoneyInv, Balanced, InEvmExact,
              TypeOK, IsTables, Snapshot
<1>4. CASE UNCHANGED vars
  <2>1. Solvent' /\ InEvmExact'
    <3>1. /\ balances' = balances /\ inevm' = inevm /\ evm' = evm /\ burned' = burned
          /\ removed' = removed /\ custody' = custody /\ adjusted' = adjusted /\ inline' = inline
      BY <1>4, Zenon DEF vars, tables
    <3> QED  BY <3>1, Zenon DEF MoneyInv, Solvent, InEvmExact, InFlight
  <2>2. inline' # <<>> => Balanced(saved)'
    BY <1>4, Zenon DEF MoneyInv, Balanced, vars, tables
  <2> QED  BY <1>4, <2>1, <2>2, Inductive, Zenon DEF MoneyInv, TypeOK, Snapshot, IsTables,
              IsRows, vars, tables
<1> QED  BY <1>1, <1>2, <1>3, <1>4, NextSound, Zenon

\* The inductive invariant holds in every reachable state.
THEOREM MoneyInvariance == Spec => []MoneyInv
BY MoneyInitially, MoneyInductive, PTL DEF Spec

\* Every row, nonce and total is a natural number, also in the tables an abort would
\* put back: no -= of balance_with_dust can wrap around.
THEOREM Typed == Spec => []TypeOK
BY MoneyInvariance, PTL DEF MoneyInv

\* For any accounts, settings and payloads, with any nesting of inline actions and
\* an abort anywhere, the tokens the contract holds are exactly the opened balances,
\* what is in the EVM and the transfers under way.
THEOREM AlwaysSolvent == Spec => []Solvent
BY MoneyInvariance, PTL DEF MoneyInv

\* The inevm singleton is what the EVM accounts hold, what was destroyed there and
\* what rmaccount erased, so no egress is refused for it and none takes more.
THEOREM InEvmIsExact == Spec => []InEvmExact
BY MoneyInvariance, PTL DEF MoneyInv

\* assert_unfrozen is in every action that moves money, and freeze cannot come
\* between an action and the inline actions it sends: nothing moves in a frozen
\* contract but what addopenbal and addevmbal change and rmaccount erases.
THEOREM FrozenHolds == Spec => FrozenStopsFunds
<1>1. Init => Inv /\ Halts
  <2>1. Init => Halts
    BY DEF Init, Halts
  <2> QED BY <2>1, Initially, Zenon
<1>2. ASSUME Halts, MoneyInv, [Next]_vars
      PROVE  [frozen /\ frozen' =>
                /\ UNCHANGED <<custody, nextnonces, inline, burned>>
                /\ (adjusted' = adjusted => UNCHANGED <<balances, inevm>>)
                /\ (adjusted' = adjusted /\ removed' = removed => UNCHANGED evm)]_vars
  <2>1. SUFFICES ASSUME ~UNCHANGED vars, frozen, frozen'
                 PROVE  /\ UNCHANGED <<custody, nextnonces, inline, burned>>
                        /\ (adjusted' = adjusted => UNCHANGED <<balances, inevm>>)
                        /\ (adjusted' = adjusted /\ removed' = removed => UNCHANGED evm)
    BY Zenon
  <2>2. Administers
    BY <1>2, <2>1, WorksOrAdministers, Zenon DEF Halts, Works, Abort
  <2>3. adjusted \in Int /\ evm \in [EvmAddrs -> Nat] /\ removed \in Nat
    BY <1>2, Zenon DEF MoneyInv, TypeOK, IsTables, Snapshot, Halts
  <2>4. CASE \E delta \in Deltas : adjusted' = adjusted + delta
    BY <2>2, <2>3, <2>4 DEF Administers, Deltas
  <2>5. CASE /\ UNCHANGED <<balances, inevm, adjusted>>
             /\ \E e \in EvmAddrs : removed' = removed + evm[e] /\ evm' = [evm EXCEPT ![e] = 0]
    <3>1. PICK e \in EvmAddrs : removed' = removed + evm[e] /\ evm' = [evm EXCEPT ![e] = 0]
      BY <2>5, Zenon
    <3>2. removed' = removed => evm[e] = 0
      BY <2>3, <3>1
    <3>3. evm[e] = 0 => evm' = evm
      BY <2>3, <3>1
    <3> QED  BY <2>2, <2>5, <3>2, <3>3, Zenon DEF Administers
  <2> QED  BY <2>2, <2>4, <2>5, Zenon DEF Administers
<1> QED BY <1>1, <1>2, Inductive, HaltsInductive, MoneyInvariance, PTL DEF Spec, FrozenStopsFunds

-----------------------------------------------------------------------------
(* Who pays *)

\* DebitsAuthorised and IncomeBacked, of one step.
Fair ==
  /\ \A n \in Names : Balance(n) - Balance(n)' <= spendable'[n]
  /\ cfg.version < 3 =>
       Balance(Self)' - Balance(Self) + spendable'[Self]
         >= income'.gas + income'.ingress - income.gas - income.ingress

\* A step between the same rows is fair when it is so row by row.
LEMMA RowwiseFair ==
  ASSUME Ready, DOMAIN balances' = DOMAIN balances,
         NEW s, spendable' = s, \A n \in Names : s[n] \in Int,
         \A n \in DOMAIN balances : balances[n] - balances'[n] <= s[n],
         \A n \in Names \ DOMAIN balances : s[n] >= 0,
         NEW k \in Int, income'.gas + income'.ingress - income.gas - income.ingress = k,
         cfg.version < 3 => balances'[Self] - balances[Self] + s[Self] >= k
  PROVE  Fair
<1>1. \A n \in Names : Balance(n) - Balance(n)' <= spendable'[n]
  <2> TAKE n \in Names
  <2>1. CASE n \in DOMAIN balances
    BY <2>1, Zenon DEF Balance
  <2>2. CASE n \notin DOMAIN balances
    BY <2>2 DEF Balance
  <2> QED  BY <2>1, <2>2, Zenon
<1> QED  BY <1>1, ReadyFacts, Zenon DEF Fair, Balance

\* No income is recorded when the statistics stay.
LEMMA IncomeSame ==
  ASSUME Ready, income' = income
  PROVE  income'.gas + income'.ingress - income.gas - income.ingress = 0
<1>1. income.gas \in Nat /\ income.ingress \in Nat
  BY ReadyFacts, Zenon DEF Incomes
<1> QED  BY <1>1

\* A step that takes nothing from any account, and records no income.
LEMMA QuietFair ==
  ASSUME Ready, income' = income, spendable' = NoDebits,
         \A n \in Names : Balance(n)' >= Balance(n) /\ Balance(n) \in Int /\ Balance(n)' \in Int
  PROVE  Fair
BY IncomeSame DEF Fair, NoDebits, Names

\* A step that leaves the rows alone.
LEMMA SameFair ==
  ASSUME Ready, balances' = balances, income' = income, spendable' = NoDebits
  PROVE  Fair
<1>1. \A n : Balance(n)' = Balance(n) /\ Balance(n) \in Nat
  BY ReadyFacts, RowsSum, Zenon DEF Balance
<1> QED  BY <1>1, QuietFair

\* open and bridgereg
LEMMA OpensFair ==
  ASSUME Ready, NEW owner, OpenRows(owner), income' = income, spendable' = NoDebits
  PROVE  Fair
<1>1. \A n : Balance(n)' = Balance(n) /\ Balance(n) \in Nat
  BY ReadyFacts, RowsSum, Zenon DEF Balance, OpenRows, WithRow
<1> QED  BY <1>1, QuietFair

\* close
LEMMA CloseFair ==
  ASSUME Ready, NEW owner, Close(owner)
  PROVE  Fair
<1>1. \A n \in DOMAIN balances : balances[n] \in Nat
  BY ReadyFacts, RowsSum, Zenon
<1> QED  BY <1>1, QuietFair DEF Balance, Close, Restrict

\* A deposit to an opened account.
LEMMA DepositToAccountFair ==
  ASSUME Ready, NEW from, NEW receiver, NEW quantity \in Quantities,
         DepositToAccount(from, receiver, quantity)
  PROVE  Fair
<1> DEFINE q == quantity * MinAsset
<1>1. IsRows(balances) /\ q \in Nat
  <2>1. IsRows(balances) /\ MinAsset \in Nat
    BY ReadyFacts, Zenon
  <2>2. quantity \in Nat
    BY LedgerAssumption, Zenon
  <2> QED  BY ONLY <2>1, <2>2
<1>2. /\ receiver \in DOMAIN balances /\ balances' = Give(balances, receiver, q)
      /\ income' = income /\ spendable' = NoDebits
  BY Zenon DEF DepositToAccount
<1> HIDE DEF q
<1>3. /\ DOMAIN balances' = DOMAIN balances
      /\ \A m \in DOMAIN balances : balances'[m] = IF m = receiver THEN balances[receiver] + q ELSE balances[m]
  BY <1>1, <1>2, GiveRow, Zenon
<1> QED  BY <1>1, <1>2, <1>3, RowsSum, QuietFair DEF Balance

\* What owner alone is debited, when it authorised x.
LEMMA OwnFair ==
  ASSUME Ready, NEW owner \in DOMAIN balances, NEW x \in Int, income' = income,
         balances' = [balances EXCEPT ![owner] = balances[owner] - x],
         spendable' = [NoDebits EXCEPT ![owner] = x]
  PROVE  Fair
<1> DEFINE s == [NoDebits EXCEPT ![owner] = x]
<1>1. /\ DOMAIN balances \in SUBSET Names /\ \A n \in DOMAIN balances : balances[n] \in Nat
      /\ Self \in DOMAIN balances
  BY ReadyFacts, RowsSum, Zenon
<1>2. \A n \in Names : s[n] = IF n = owner THEN x ELSE 0
  BY <1>1, Zenon DEF NoDebits
<1>3. spendable' = s
  BY Zenon
<1> HIDE DEF s
<1>4. /\ DOMAIN balances' = DOMAIN balances
      /\ \A n \in DOMAIN balances : balances'[n] = balances[n] - (IF n = owner THEN x ELSE 0)
  BY <1>1
<1>5. \A n \in Names : s[n] \in Int
  BY <1>2
<1>6. \A n \in DOMAIN balances : balances[n] - balances'[n] <= s[n]
  BY <1>1, <1>2, <1>4
<1>7. \A n \in Names \ DOMAIN balances : s[n] >= 0
  BY <1>2
<1>8. balances'[Self] - balances[Self] + s[Self] >= 0
  BY <1>1, <1>2, <1>4
<1> QED  BY <1>3, <1>4, <1>5, <1>6, <1>7, <1>8, IncomeSame, RowwiseFair

\* withdraw
LEMMA WithdrawFair ==
  ASSUME Ready, NEW owner, NEW quantity \in Quantities, NEW to, Withdraw(owner, quantity, to)
  PROVE  Fair
<1> DEFINE q == quantity * MinAsset
<1>1. q \in Int
  BY LedgerAssumption
<1>2. /\ owner \in DOMAIN balances /\ balances' = [balances EXCEPT ![owner] = balances[owner] - q]
      /\ income' = income /\ spendable' = [NoDebits EXCEPT ![owner] = q]
  BY Zenon DEF Withdraw, Take
<1> HIDE DEF q
<1> QED  BY <1>1, <1>2, OwnFair, Zenon

\* addopenbal
LEMMA AddOpenBalFair ==
  ASSUME Ready, NEW account, NEW delta \in Int, AddOpenBal(account, delta)
  PROVE  Fair
<1> DEFINE x == -delta
<1>1. x \in Int
  OBVIOUS
<1>2. /\ account \in DOMAIN balances /\ balances' = [balances EXCEPT ![account] = balances[account] + delta]
      /\ income' = income /\ spendable' = [NoDebits EXCEPT ![account] = x]
  BY Zenon DEF AddOpenBal
<1>3. balances[account] + delta = balances[account] - x
  <2>1. balances[account] \in Nat
    BY <1>2, ReadyFacts, RowsSum, Zenon
  <2> QED  BY <2>1
<1> HIDE DEF x
<1> QED  BY <1>1, <1>2, <1>3, OwnFair, Zenon

\* A transaction is fair when its sender and its payer authorised what Spends tells.
LEMMA PaysFair ==
  ASSUME Ready, NEW tx, IsTx(tx), Pays(balances, income, tx), income' \in Incomes,
         NEW s, spendable' = s, \A n \in Names : s[n] = Spends(tx)[n]
  PROVE  Fair
<1>1. /\ DOMAIN balances \in SUBSET Names /\ Self \in Names
      /\ income.gas \in Nat /\ income.ingress \in Nat
      /\ income'.gas \in Nat /\ income'.ingress \in Nat
  BY ReadyFacts, RowsSum, Zenon DEF Incomes, Names
<1> QED  BY <1>1, SpendsNat, RowwiseFair DEF Pays

\* pushtx: a signed transaction of an EVM account debits no row.
LEMMA PushTxFair ==
  ASSUME Ready, NEW miner, NEW e \in EvmAddrs, NEW payload \in Payloads, NEW gas \in GasLimits,
         NEW maxFee \in Fees, NEW prio \in Fees, NEW minInclusion,
         PushTx(miner, e, payload, gas, maxFee, prio, minInclusion)
  PROVE  Fair
<1> DEFINE tx == [from |-> e, bridge |-> FALSE, payer |-> None, payload |-> payload,
                  gas |-> gas, maxFee |-> maxFee, prio |-> prio]
<1>1. /\ ProcessTx(balances, income, tx, miner, minInclusion, inline)
      /\ spendable' = NoDebits
  BY Zenon DEF PushTx
<1>2. IsTx(tx) /\ tx.from = e /\ tx.payer = None
  BY LedgerAssumption, Zenon DEF IsTx
<1> HIDE DEF tx
<1>3. Pays(balances, income, tx) /\ income' \in Incomes
  <2>1. /\ IsRows(balances) /\ Self \in DOMAIN balances /\ income \in Incomes /\ inline \in Seq(Actions)
        /\ cfg \in Configs /\ evm \in [EvmAddrs -> Nat] /\ inevm \in Nat /\ burned \in Nat
    BY ReadyFacts, Zenon
  <2>2. tx.from \in Names => miner = Self
    BY <1>2, LedgerAssumption
  <2>3. Kept(balances, inline)
    BY ONLY <1>1, <1>2, <2>1, ProcessTxKeeps, Zenon
  <2>4. Pays(balances, income, tx)
    BY ONLY <1>1, <1>2, <2>1, <2>2, ProcessTxPays, Zenon
  <2> QED  BY <2>3, <2>4, Zenon DEF Kept
<1>4. \A n \in Names : NoDebits[n] = Spends(tx)[n]
  <2> TAKE n \in Names
  <2> QED  BY <1>2, LedgerAssumption, SpendsNat DEF NoDebits
<1> QED  BY <1>1, <1>2, <1>3, <1>4, PaysFair, Zenon

\* call, callotherpay and admincall
LEMMA CallFair ==
  ASSUME Ready, NEW payer \in Names \cup {None}, NEW from \in Names \cup EvmAddrs,
         payer # None => from \in Names, cfg.version < 1 => payer = None,
         NEW payload \in Payloads, NEW gas \in GasLimits,
         DispatchTx(balances, income, BridgeTx(from, payer, payload, gas)),
         spendable' = Spends(BridgeTx(from, payer, payload, gas))
  PROVE  Fair
<1> DEFINE tx == BridgeTx(from, payer, payload, gas)
<1>1. /\ cfg \in Configs /\ IsRows(balances) /\ Self \in DOMAIN balances /\ income \in Incomes
      /\ evm \in [EvmAddrs -> Nat]
  BY ReadyFacts, Zenon
<1>2. IsTx(tx) /\ (cfg.version < 1 => tx \in Transactions)
  BY <1>1, LedgerAssumption, BridgeTxOK, Zenon
<1>3. DispatchTx(balances, income, tx) /\ spendable' = Spends(tx)
  BY Zenon
<1> HIDE DEF tx
<1>4. CASE cfg.version >= 1
  <2>1. ProcessTx(balances, income, tx, Self, 0, inline)
    BY <1>3, <1>4, Zenon DEF DispatchTx
  <2>2. Pays(balances, income, tx)
    BY <1>1, <1>2, <2>1, ProcessTxPays, Zenon
  <2>3. income' \in Incomes
    BY <1>1, <1>2, <1>3, DispatchTxKeeps, Zenon DEF Kept
  <2> QED  BY <1>2, <1>3, <2>2, <2>3, PaysFair, Zenon
<1>5. CASE ~(cfg.version >= 1)
  <2>1. balances' = balances /\ income' = income
    BY <1>3, <1>5, Zenon DEF DispatchTx
  <2> DEFINE s == Spends(tx)
  <2>2. \A n \in Names : s[n] \in Nat
    BY <1>2, SpendsNat, Zenon
  <2>3. spendable' = s
    BY <1>3, Zenon
  <2> HIDE DEF s
  <2> QED  BY <1>1, <2>1, <2>2, <2>3, RowsSum, IncomeSame, RowwiseFair
<1> QED  BY <1>4, <1>5, Zenon

\* The inline pushtx of versions before 1.
LEMMA RunPushTxFair ==
  ASSUME Ready, RunPushTx
  PROVE  Fair
<1> DEFINE a == Head(inline)
           rest == Tail(inline)
<1>1. /\ inline # <<>> /\ a.type = "pushtx"
      /\ ProcessTx(balances, income, a.tx, Self, 0, rest)
      /\ spendable' = Spends(a.tx)
  BY Zenon DEF RunPushTx
<1>2. a \in Actions /\ rest \in Seq(Actions)
  BY <1>1, ReadyFacts, FlightTail, Zenon
<1> HIDE DEF a, rest
<1> QED  BY <1>1, <1>2, ReadyFacts, ProcessTxPays, ProcessTxKeeps, PaysFair, Zenon DEF Kept,
            Transactions, IsTx, Actions

\* What a single message moves.
LEMMA OneValue ==
  ASSUME NEW m \in Movements, m.src = None
  PROVE  Part(<<m>>, SenderPays(<<m>>)) = m.value
<1>1. SenderPays(<<m>>) = DOMAIN <<m>>
  BY DEF SenderPays, OfSender
<1>2. Part(<<m>>, DOMAIN <<m>>) = m.value
  BY TotalOne DEF Part, SumFunction, Movements, Value
<1> QED  BY <1>1, <1>2, Zenon

\* A deposit to an EVM address: the contract's row keeps the ingress bridge fee.
LEMMA DepositToEvmFair ==
  ASSUME Ready, NEW from, NEW to \in Names \cup EvmAddrs, NEW quantity \in Quantities,
         NEW gas \in {cfg.ingressGas, cfg.ingressGas + cfg.newAccountGas},
         DepositToEvm(from, to, quantity, gas)
  PROVE  Fair
<1> DEFINE q == quantity * MinAsset
           fee == cfg.ingressFee * MinAsset
           val == (quantity - cfg.ingressFee) * MinAsset
           b == Give(balances, Self, q)
           inc == [income EXCEPT !.ingress = @ + fee]
           msg == [kind |-> "call", to |-> to, src |-> None, recv |-> None, value |-> val]
           tx == BridgeTx(Self, None, <<msg>>, gas)
<1>1. quantity > cfg.ingressFee /\ DispatchTx(b, inc, tx) /\ spendable' = NoDebits
  BY Zenon DEF DepositToEvm
<1>2. /\ cfg \in Configs /\ IsRows(balances) /\ Self \in DOMAIN balances /\ income \in Incomes
      /\ MinAsset \in Nat /\ evm \in [EvmAddrs -> Nat]
  BY ReadyFacts, Zenon
<1>3. q \in Nat /\ fee \in Nat /\ val \in Nat /\ q = fee + val
  <2>1. quantity \in Nat
    BY LedgerAssumption, Zenon
  <2> QED  BY <1>1, <1>2, <2>1, SettingsOK
<1> HIDE DEF q, fee, val
<1>4. msg \in Movements /\ msg.value = val /\ msg.src = None
  BY <1>3, LedgerAssumption, Zenon DEF Movements
<1> HIDE DEF msg
<1>5. gas \in Nat /\ Self \in Names
  BY <1>2, SettingsOK DEF Names
<1>6. IsTx(tx) /\ tx \in Transactions
  <2>1. <<msg>> \in Seq(Movements)
    BY <1>4
  <2> QED  BY <1>2, <1>5, <2>1, BridgeTxOK, Zenon
<1>7. tx.from = Self /\ tx.payer = None /\ tx.payload = <<msg>>
  BY Zenon DEF BridgeTx
<1> HIDE DEF tx
<1>8. TxValue(tx) = val
  BY <1>4, <1>6, <1>7, Amounts, OneValue, Zenon
<1>9. inc \in Incomes /\ inc.gas = income.gas /\ inc.ingress = income.ingress + fee
  BY <1>2, <1>3 DEF Incomes
<1> HIDE DEF inc
<1>10. /\ IsRows(b) /\ DOMAIN b = DOMAIN balances
       /\ \A m \in DOMAIN balances : b[m] = IF m = Self THEN balances[Self] + q ELSE balances[m]
  BY <1>2, <1>3, GiveRow
<1>11. DOMAIN balances \in SUBSET Names /\ \A n \in DOMAIN balances : balances[n] \in Nat
  BY <1>2, RowsSum, Zenon
<1> HIDE DEF b
<1>12. /\ IsRows(balances') /\ DOMAIN balances' = DOMAIN balances /\ income'.gas = income.gas
       /\ income'.ingress = income.ingress + fee
       /\ \A n \in DOMAIN balances : balances'[n] >= balances[n] + (IF n = Self THEN fee ELSE 0)
  <2>1. CASE cfg.version >= 1
    <3>1. Pays(b, inc, tx)
      BY <1>1, <1>2, <1>6, <1>9, <1>10, <2>1, ProcessTxPays, Zenon DEF DispatchTx
    <3>2. IsRows(balances')
      BY <1>1, <1>2, <1>6, <1>9, <1>10, DispatchTxKeeps, Zenon DEF Kept
    <3>3. /\ DOMAIN balances' = DOMAIN balances
          /\ \A n \in DOMAIN balances : b[n] - balances'[n] <= Spends(tx)[n]
          /\ b[Self] - balances'[Self] <= val
          /\ income'.gas = income.gas /\ income'.ingress = income.ingress + fee
      BY <1>7, <1>8, <1>9, <1>10, <3>1, Zenon DEF Pays
    <3>4. \A n \in DOMAIN balances : balances'[n] \in Nat
      BY <3>2, <3>3, RowsSum, Zenon
    <3>5. \A n \in DOMAIN balances : n # Self => Spends(tx)[n] = 0
      BY <1>6, <1>7, <1>11, SpendsNat
    <3>6. \A n \in DOMAIN balances : balances'[n] >= balances[n] + (IF n = Self THEN fee ELSE 0)
      <4> TAKE n \in DOMAIN balances
      <4>1. CASE n = Self
        BY <1>2, <1>3, <1>10, <1>11, <3>3, <3>4, <4>1
      <4>2. CASE n # Self
        BY <1>10, <1>11, <3>3, <3>4, <3>5, <4>2
      <4> QED  BY <4>1, <4>2, Zenon
    <3> QED  BY <3>2, <3>3, <3>6, Zenon
  <2>2. CASE ~(cfg.version >= 1)
    <3>1. IsRows(balances')
      BY <1>1, <1>10, <2>2, Zenon DEF DispatchTx
    <3> QED  BY <1>1, <1>3, <1>9, <1>10, <1>11, <2>2, <3>1 DEF DispatchTx
  <2> QED  BY <2>1, <2>2, Zenon
<1>13. \A n \in DOMAIN balances : balances[n] - balances'[n] <= NoDebits[n]
  BY <1>3, <1>11, <1>12, RowsSum DEF NoDebits
<1>14. balances'[Self] - balances[Self] + NoDebits[Self] >= fee
  BY <1>2, <1>3, <1>5, <1>11, <1>12, RowsSum DEF NoDebits
<1> QED  BY <1>1, <1>2, <1>3, <1>12, <1>13, <1>14, RowwiseFair DEF NoDebits, Incomes

\* Every action, or the abort of the transaction it belongs to.
LEMMA NextFair ==
  ASSUME Ready, Next
  PROVE  Fair \/ Abort
<1> USE SameFair
<1>1. ASSUME NEW miner \in Names, NEW e \in EvmAddrs, NEW payload \in Payloads, NEW gas \in GasLimits,
             NEW maxFee \in Fees, NEW prio \in Fees, NEW minInclusion \in Fees \cup {0},
             PushTx(miner, e, payload, gas, maxFee, prio, minInclusion)
      PROVE  Fair
  BY <1>1, PushTxFair, Zenon
<1>2. ASSUME NEW from \in Names, NEW payload \in Payloads, NEW gas \in GasLimits, Call(from, payload, gas)
      PROVE  Fair
  BY <1>2, CallFair, Zenon DEF Call
<1>3. ASSUME NEW payer \in Names, NEW from \in Names, NEW payload \in Payloads, NEW gas \in GasLimits,
             CallOtherPay(payer, from, payload, gas)
      PROVE  Fair
  <2>1. ~(cfg.version < 1)
    <3>1. cfg.version \in Nat /\ cfg.version >= 1
      BY <1>3, ReadyFacts, SettingsOK, Zenon DEF CallOtherPay
    <3> QED  BY <3>1
  <2> QED  BY <1>3, <2>1, CallFair, Zenon DEF CallOtherPay
<1>4. ASSUME NEW from \in AdminSenders, NEW payload \in Payloads, NEW gas \in GasLimits,
             AdminCall(from, payload, gas)
      PROVE  Fair
  BY <1>4, LedgerAssumption, CallFair, Zenon DEF AdminCall
<1>5. ASSUME NEW owner, Open(owner)
      PROVE  Fair
  BY <1>5, OpensFair, Zenon DEF Open
<1>6. ASSUME NEW owner, Close(owner)
      PROVE  Fair
  BY <1>6, CloseFair, Zenon
<1>7. ASSUME NEW from, NEW receiver, NEW quantity \in Quantities, DepositToAccount(from, receiver, quantity)
      PROVE  Fair
  BY <1>7, DepositToAccountFair, Zenon
<1>8. ASSUME NEW from, NEW to \in Names \cup EvmAddrs, NEW quantity \in Quantities,
             NEW gas \in {cfg.ingressGas, cfg.ingressGas + cfg.newAccountGas},
             DepositToEvm(from, to, quantity, gas)
      PROVE  Fair
  BY <1>8, DepositToEvmFair, Zenon
<1>9. ASSUME NEW owner, NEW quantity \in Quantities, NEW to, Withdraw(owner, quantity, to)
      PROVE  Fair
  BY <1>9, WithdrawFair, Zenon
<1>10. ASSUME RunTransfer PROVE Fair
  BY <1>10, Zenon DEF RunTransfer
<1>11. ASSUME RunPushTx PROVE Fair
  BY <1>11, RunPushTxFair, Zenon
<1>12. ASSUME RunHandler PROVE Fair
  BY <1>12, Zenon DEF RunHandler, tables
<1>13. ASSUME NEW receiver, NEW minFee, BridgeReg(receiver, minFee)
       PROVE  Fair
  BY <1>13, OpensFair, Zenon DEF BridgeReg
<1>14. ASSUME NEW receiver, BridgeUnreg(receiver)
       PROVE  Fair
  BY <1>14, Zenon DEF BridgeUnreg
<1>15. ASSUME NEW account, NEW allowed, SetEgress(account, allowed)
       PROVE  Fair
  BY <1>15, Zenon DEF SetEgress
<1>16. ASSUME NEW value, Freeze(value)
       PROVE  Fair
  BY <1>16, Zenon DEF Freeze, tables
<1>17. ASSUME NEW c, Reconfigure(c)
       PROVE  Fair
  BY <1>17, Zenon DEF Reconfigure, tables
<1>18. ASSUME NEW quantity, DepositForSwap(quantity)
       PROVE  Fair
  BY <1>18, Zenon DEF DepositForSwap
<1>19. ASSUME NEW account, NEW delta \in Deltas, AddOpenBal(account, delta)
       PROVE  Fair
  BY <1>19, AddOpenBalFair DEF Deltas
<1>20. ASSUME NEW e, NEW delta, AddEvmBal(e, delta)
       PROVE  Fair
  BY <1>20, Zenon DEF AddEvmBal
<1>21. ASSUME NEW limit, SetGasLimit(limit)
       PROVE  Fair
  BY <1>21, Zenon DEF SetGasLimit, tables
<1>22. ASSUME NEW e, RmAccount(e)
       PROVE  Fair
  BY <1>22, Zenon DEF RmAccount
<1> QED
  BY <1>1, <1>2, <1>3, <1>4, <1>5, <1>6, <1>7, <1>8, <1>9, <1>10, <1>11, <1>12, <1>13, <1>14,
     <1>15, <1>16, <1>17, <1>18, <1>19, <1>20, <1>21, <1>22, Zenon DEF Next

\* No step of anyone debits a row more than its owner authorised in that step,
\* whatever the payload does, whoever mines it and whoever pays the gas.
THEOREM DebitsAreAuthorised == Spec => DebitsAuthorised
<1>1. ASSUME MoneyInv, [Next]_vars
      PROVE  [Abort \/ \A n \in Names : Balance(n) - Balance(n)' <= spendable'[n]]_vars
  <2>1. CASE Next
    BY <1>1, <2>1, NextFair, Zenon DEF Fair, MoneyInv, Ready, Inv, RowsOK
  <2> QED  BY <1>1, <2>1, Zenon
<1> QED  BY <1>1, MoneyInvariance, PTL DEF Spec, DebitsAuthorised

\* Every fee recorded as income is on the contract's row when it is recorded.  From
\* version 3 on the EVM computes the miner's portion outside the contract, so the
\* theorem is about the versions before.
THEOREM IncomeIsBacked ==
  ASSUME \A c \in Configs : c.version < 3
  PROVE  Spec => IncomeBacked
<1>1. ASSUME MoneyInv, [Next]_vars
      PROVE  [Abort \/ Balance(Self)' - Balance(Self) + spendable'[Self]
                >= income'.gas + income'.ingress - income.gas - income.ingress]_vars
  <2>0. cfg.version < 3
    BY <1>1, Zenon DEF MoneyInv, TypeOK, IsTables, Snapshot
  <2>1. CASE Next
    BY <1>1, <2>0, <2>1, NextFair, Zenon DEF Fair, MoneyInv, Ready, Inv, RowsOK
  <2> QED  BY <1>1, <2>1, Zenon
<1> QED  BY <1>1, MoneyInvariance, PTL DEF Spec, IncomeBacked
=============================================================================
