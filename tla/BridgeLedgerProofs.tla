------------------------- MODULE BridgeLedgerProofs -------------------------
(***************************************************************************)
(* For any number of accounts, payloads and inline actions: opened         *)
(* accounts always have a nonce row, no account is ever given the same     *)
(* nonce twice, and no transaction runs in a frozen contract.  Then what   *)
(* the operators of BridgeLedger do to sums of messages, rows and          *)
(* transfers.                                                              *)
(***************************************************************************)
EXTENDS BridgeLedger, DataLemmas, TLAPS

-----------------------------------------------------------------------------
(* Nonces *)

NonceOf(nonces, n) == IF n \in DOMAIN nonces THEN nonces[n] ELSE 0

\* OpenHasNonce of given tables, with the type it needs.
RowsOK(rows, nonces) ==
  /\ Self \in DOMAIN rows
  /\ DOMAIN rows \subseteq DOMAIN nonces
  /\ \A n \in DOMAIN nonces : nonces[n] \in Nat
  /\ \A n \in DOMAIN nonces \ DOMAIN rows : nonces[n] > 0

\* The invariant that is inductive: it also holds of the tables an abort would
\* put back, whose nonces are not above the present ones.
Inv ==
  /\ RowsOK(balances, nextnonces)
  /\ inline # <<>> =>
       /\ RowsOK(saved.balances, saved.nextnonces)
       /\ \A n \in Names : NonceOf(saved.nextnonces, n) <= NonceOf(nextnonces, n)

\* What every step but Abort does to the tables kept for an abort, and to the rows.
Saves ==
  \/ inline' = <<>>
  \/ saved' = IF inline = <<>> THEN Snapshot ELSE saved
Forward ==
  /\ RowsOK(balances', nextnonces')
  /\ \A n \in Names : NonceOf(nextnonces, n) <= NonceOf(nextnonces', n)
  /\ Saves

\* Every action, or the abort of the transaction it belongs to.
LEMMA Steps ==
  ASSUME RowsOK(balances, nextnonces), Next
  PROVE  Forward \/ Abort
\* Debits and credits keep the set of opened accounts.
<1>RowsStay.
  ASSUME NEW b, NEW n, NEW x
  PROVE  /\ DOMAIN Take(b, n, x) = DOMAIN b
         /\ DOMAIN Give(b, n, x) = DOMAIN b
  BY Zenon DEF Take, Give
<1>DeliveryStays.
  ASSUME NEW b, NEW msgs PROVE DOMAIN Delivery(b, msgs) = DOMAIN b
  BY Zenon DEF Delivery, Take, Credited
<1>IngressStays.
  ASSUME NEW b, NEW tx PROVE DOMAIN Ingress(b, tx) = DOMAIN b
  BY Zenon DEF Ingress, Take
<1>EgressStays.
  ASSUME NEW b, NEW ex, NEW miner, NEW x PROVE DOMAIN Egress(b, ex, miner, x) = DOMAIN b
  BY Zenon DEF Egress, Take, Give
<1>RefundStays.
  ASSUME NEW b, NEW tx, NEW ex PROVE DOMAIN Refund(b, tx, ex) = DOMAIN b
  BY Zenon DEF Refund, Take, Give
\* Sending inline actions records the tables at the start of a transaction.
<1>ContinueSaves.
  ASSUME NEW actions, NEW rest, Continue(actions, rest)
  PROVE  Saves
  BY <1>ContinueSaves, Zenon DEF Continue, Saves
\* process_tx neither opens nor closes a balance.
<1>ProcessTxRows.
  ASSUME NEW b, NEW inc, NEW tx, NEW miner, NEW minInclusion, NEW rest,
         ProcessTx(b, inc, tx, miner, minInclusion, rest)
  PROVE  DOMAIN balances' = DOMAIN b /\ Saves
  <2> USE <1>ProcessTxRows
  <2> DEFINE b0 == IF tx.from \in Names THEN Ingress(b, tx) ELSE b
  <2>1. DOMAIN b0 = DOMAIN b
    BY <1>IngressStays, Zenon
  <2>2. PICK ex, portion : Settle(b0, inc, tx, miner, ex, portion, rest)
    BY Zenon DEF ProcessTx
  <2> HIDE DEF b0
  <2> DEFINE b1 == Egress(b0, ex, miner, portion)
             b2 == IF tx.payer = None THEN b1 ELSE Refund(b1, tx, ex)
             msgs == BridgeMessages(ex)
  <2>3. DOMAIN b1 = DOMAIN b0
    BY <1>EgressStays, Zenon
  <2>4. balances' = Delivery(b2, msgs) /\ Continue(EgressTransfers(b0, ex) \o Handlers(msgs), rest)
    BY <2>2, Zenon DEF Settle
  <2> HIDE DEF b1, msgs
  <2>5. DOMAIN b2 = DOMAIN b1
    BY <1>RefundStays, Zenon
  <2> HIDE DEF b2
  <2>6. DOMAIN balances' = DOMAIN b2
    BY <2>4, <1>DeliveryStays, Zenon
  <2>7. Saves
    BY <2>4, <1>ContinueSaves, Zenon
  <2> QED  BY ONLY <2>1, <2>3, <2>5, <2>6, <2>7, Zenon
\* Whichever way dispatch_tx runs the transaction.
<1>DispatchTxRows.
  ASSUME NEW b, NEW inc, NEW tx, DispatchTx(b, inc, tx)
  PROVE  DOMAIN balances' = DOMAIN b /\ Saves
  <2> USE <1>DispatchTxRows
  <2>1. CASE ProcessTx(b, inc, tx, Self, 0, inline)
    BY <2>1, <1>ProcessTxRows, Zenon
  <2>2. CASE balances' = b /\ Continue(<<[type |-> "pushtx", tx |-> tx]>>, inline)
    BY <2>2, <1>ContinueSaves, Zenon
  <2> QED  BY <2>1, <2>2, Zenon DEF DispatchTx
\* Steps that neither open nor close a balance, and use no nonce or one.
<1>KeepsNonces.
  ASSUME RowsOK(balances, nextnonces), Saves,
         DOMAIN balances' = DOMAIN balances, nextnonces' = nextnonces
  PROVE  Forward
  BY <1>KeepsNonces DEF RowsOK, Forward, NonceOf
<1>UsesNonce.
  ASSUME RowsOK(balances, nextnonces), Saves,
         DOMAIN balances' = DOMAIN balances, NEW owner, UseNonce(owner)
  PROVE  Forward
  BY <1>UsesNonce DEF Forward, RowsOK, NonceOf, UseNonce
\* Opening gives the row and the nonce row together.
<1>OpensRows.
  ASSUME RowsOK(balances, nextnonces), Saves, NEW owner, OpenRows(owner)
  PROVE  Forward
  BY <1>OpensRows DEF Forward, RowsOK, NonceOf, OpenRows, WithRow
\* Closing forgets a nonce only when it is 0.
<1>ClosesRow.
  ASSUME RowsOK(balances, nextnonces), NEW owner, Close(owner)
  PROVE  Forward
  <2> USE <1>ClosesRow
  <2>1. CASE nextnonces[owner] # 0
    BY <2>1, <1>ContinueSaves DEF RowsOK, Forward, NonceOf, Close, Restrict, NoncesAfterClose
  <2>2. CASE nextnonces[owner] = 0
    BY <2>2, <1>ContinueSaves DEF RowsOK, Forward, NonceOf, Close, NoncesAfterClose, Restrict
  <2> QED  BY <2>1, <2>2, Zenon
<1> USE <1>KeepsNonces, <1>UsesNonce, <1>ContinueSaves
<1>1. ASSUME NEW miner, NEW e, NEW payload, NEW gas, NEW maxFee, NEW prio, NEW minInclusion,
             PushTx(miner, e, payload, gas, maxFee, prio, minInclusion)
      PROVE  Forward
  BY <1>1, <1>ProcessTxRows, Zenon DEF PushTx
<1>2. ASSUME NEW from, NEW payload, NEW gas, Call(from, payload, gas)
      PROVE  Forward
  BY <1>2, <1>DispatchTxRows, Zenon DEF Call
<1>3. ASSUME NEW payer, NEW from, NEW payload, NEW gas, CallOtherPay(payer, from, payload, gas)
      PROVE  Forward
  BY <1>3, <1>DispatchTxRows, Zenon DEF CallOtherPay
<1>4. ASSUME NEW from, NEW payload, NEW gas, AdminCall(from, payload, gas)
      PROVE  Forward
  BY <1>4, <1>DispatchTxRows, Zenon DEF AdminCall
<1>5. ASSUME NEW owner, Open(owner)
      PROVE  Forward
  BY <1>5, <1>OpensRows, Zenon DEF Open
<1>6. ASSUME NEW owner, Close(owner)
      PROVE  Forward
  BY <1>6, <1>ClosesRow, Zenon
<1>7. ASSUME NEW from, NEW receiver, NEW quantity, DepositToAccount(from, receiver, quantity)
      PROVE  Forward
  BY <1>7, <1>RowsStay, Zenon DEF DepositToAccount
<1>8. ASSUME NEW from, NEW to, NEW quantity, NEW gas, DepositToEvm(from, to, quantity, gas)
      PROVE  Forward
  <2> DEFINE b == Give(balances, Self, quantity * MinAsset)
  <2>1. /\ UseNonce(Self)
        /\ \E inc, tx : DispatchTx(b, inc, tx)
    BY <1>8, Zenon DEF DepositToEvm
  <2>2. DOMAIN b = DOMAIN balances
    BY <1>RowsStay, Zenon
  <2> HIDE DEF b
  <2> QED  BY <2>1, <2>2, <1>DispatchTxRows, Zenon
<1>9. ASSUME NEW owner, NEW quantity, NEW to, Withdraw(owner, quantity, to)
      PROVE  Forward
  <2>1. /\ balances' = Take(balances, owner, quantity * MinAsset) /\ UNCHANGED nextnonces
        /\ \E actions : Continue(actions, inline)
    BY <1>9, Zenon DEF Withdraw
  <2> QED  BY <2>1, <1>RowsStay, Zenon
<1>10. ASSUME RunTransfer PROVE Forward
  BY <1>10, Zenon DEF RunTransfer
<1>11. ASSUME RunPushTx PROVE Forward
  BY <1>11, <1>ProcessTxRows, Zenon DEF RunPushTx
<1>12. ASSUME RunHandler PROVE Forward
  BY <1>12, Zenon DEF RunHandler, tables
<1>13. ASSUME NEW receiver, NEW minFee, BridgeReg(receiver, minFee)
       PROVE  Forward
  BY <1>13, <1>OpensRows, Zenon DEF BridgeReg
<1>14. ASSUME NEW receiver, BridgeUnreg(receiver)
       PROVE  Forward
  BY <1>14, Zenon DEF BridgeUnreg
<1>15. ASSUME NEW account, NEW allowed, SetEgress(account, allowed)
       PROVE  Forward
  BY <1>15, Zenon DEF SetEgress, Saves
<1>16. ASSUME NEW value, Freeze(value)
       PROVE  Forward
  BY <1>16, Zenon DEF Freeze, Saves, tables
<1>17. ASSUME NEW c, Reconfigure(c)
       PROVE  Forward
  BY <1>17, Zenon DEF Reconfigure, Saves, tables
<1>18. ASSUME NEW quantity, DepositForSwap(quantity)
       PROVE  Forward
  BY <1>18, Zenon DEF DepositForSwap, Saves
<1>19. ASSUME NEW account, NEW delta, AddOpenBal(account, delta)
       PROVE  Forward
  BY <1>19, Zenon DEF AddOpenBal, Saves
<1>20. ASSUME NEW e, NEW delta, AddEvmBal(e, delta)
       PROVE  Forward
  BY <1>20, Zenon DEF AddEvmBal, Saves
<1>21. ASSUME NEW limit, SetGasLimit(limit)
       PROVE  Forward
  BY <1>21, Zenon DEF SetGasLimit, tables
<1>22. ASSUME NEW e, RmAccount(e)
       PROVE  Forward
  BY <1>22, Zenon DEF RmAccount, Saves
<1> QED
  BY <1>1, <1>2, <1>3, <1>4, <1>5, <1>6, <1>7, <1>8, <1>9, <1>10, <1>11, <1>12, <1>13, <1>14,
     <1>15, <1>16, <1>17, <1>18, <1>19, <1>20, <1>21, <1>22, Zenon DEF Next

\* The initial rows are in order.
LEMMA Initially == ASSUME Init PROVE Inv
BY Zenon DEF Init, Inv, RowsOK

\* Every step keeps the rows in order, those an abort would put back included.
LEMMA Inductive ==
  ASSUME Inv, [Next]_vars
  PROVE  Inv'
<1>1. CASE Forward
  <2>1. ASSUME inline' # <<>>, inline = <<>>
        PROVE  /\ RowsOK(saved'.balances, saved'.nextnonces)
               /\ \A n \in Names : NonceOf(saved'.nextnonces, n) <= NonceOf(nextnonces', n)
    BY <1>1, <2>1 DEF Inv, Forward, Saves, Snapshot
  <2>2. ASSUME inline' # <<>>, inline # <<>>
        PROVE  /\ RowsOK(saved'.balances, saved'.nextnonces)
               /\ \A n \in Names : NonceOf(saved'.nextnonces, n) <= NonceOf(nextnonces', n)
    BY <1>1, <2>2 DEF Inv, Forward, Saves, RowsOK, NonceOf
  <2> QED  BY <1>1, <2>1, <2>2, Zenon DEF Inv, Forward
<1>2. CASE Abort
  BY <1>2, Zenon DEF Inv, Abort
<1>3. CASE UNCHANGED vars
  BY <1>3, Zenon DEF Inv, vars, tables, NonceOf, RowsOK
<1> QED  BY <1>1, <1>2, <1>3, Steps, Zenon DEF Inv

\* The inductive invariant holds in every reachable state.
THEOREM Invariance == Spec => []Inv
BY Initially, Inductive, PTL DEF Spec

\* Every opened account has a nonce row and a closed one keeps a used nonce, with
\* any number of accounts and in the middle of any transaction.
THEOREM NonceRows == Spec => []OpenHasNonce
<1>1. ASSUME Inv PROVE OpenHasNonce
  BY <1>1, Zenon DEF Inv, RowsOK, OpenHasNonce
<1> QED  BY <1>1, Invariance, PTL

\* Neither closing and reopening nor an abort makes get_and_increment_nonce hand
\* out a committed nonce again.
THEOREM NoncesOnce == Spec => NoncesNeverReused
<1>1. ASSUME Inv, [Next]_vars
      PROVE  [\A n \in Names : CommittedNonce(n)' >= CommittedNonce(n)]_vars
  <2>1. SUFFICES ASSUME NEW n \in Names, ~UNCHANGED vars
                 PROVE  CommittedNonce(n)' >= CommittedNonce(n)
    BY Zenon
  <2>2. /\ NonceOf(nextnonces, n) \in Nat
        /\ inline # <<>> => NonceOf(saved.nextnonces, n) \in Nat
    BY <1>1, Zenon DEF Inv, RowsOK, NonceOf
  <2>3. CASE Forward
    BY <1>1, <2>2, <2>3 DEF Forward, RowsOK, NonceOf, Inv, Saves, Snapshot, CommittedNonce
  <2>4. CASE Abort
    BY <2>2, <2>4 DEF Abort, CommittedNonce, NonceOf
  <2> QED  BY <1>1, <2>1, <2>3, <2>4, Steps, Zenon DEF Inv
<1> QED  BY <1>1, Invariance, PTL DEF Spec, NoncesNeverReused

-----------------------------------------------------------------------------
(* The frozen contract *)

\* No transaction is under way in a frozen contract.  The corrections are numbers,
\* also in the tables an abort would put back.
Halts ==
  /\ adjusted \in Int
  /\ inline # <<>> => saved.adjusted \in Int /\ ~frozen

\* The steps of an unfrozen contract or of a running transaction, and those of the
\* administration in between.
Works ==
  /\ ~frozen \/ inline # <<>>
  /\ UNCHANGED frozen
  /\ adjusted' = adjusted \/ \E quantity \in Nat : adjusted' = adjusted - quantity * MinAsset
Administers ==
  /\ inline = <<>> /\ UNCHANGED <<inline, custody, nextnonces, burned>>
  /\ \/ UNCHANGED <<balances, inevm, evm, adjusted>>
     \/ \E delta \in Deltas : adjusted' = adjusted + delta
     \/ /\ UNCHANGED <<balances, inevm, adjusted>>
        /\ \E e \in EvmAddrs : removed' = removed + evm[e] /\ evm' = [evm EXCEPT ![e] = 0]

\* Each action works for a user or administers.
LEMMA WorksOrAdministers ==
  ASSUME Next
  PROVE  Works \/ Administers \/ Abort
<1>1. ASSUME NEW miner, NEW e, NEW payload, NEW gas, NEW maxFee, NEW prio, NEW minInclusion,
             PushTx(miner, e, payload, gas, maxFee, prio, minInclusion)
      PROVE  Works
  BY <1>1, Zenon DEF PushTx, Works
<1>2. ASSUME NEW payer, NEW from, NEW payload, NEW gas,
             Call(from, payload, gas) \/ CallOtherPay(payer, from, payload, gas)
               \/ AdminCall(from, payload, gas)
      PROVE  Works
  BY <1>2, Zenon DEF Call, CallOtherPay, AdminCall, Works
<1>3. ASSUME NEW owner, Open(owner) \/ Close(owner) \/ BridgeUnreg(owner)
      PROVE  Works
  BY <1>3, Zenon DEF Open, Close, BridgeUnreg, Works
<1>4. ASSUME NEW from, NEW to, NEW quantity, NEW gas,
             DepositToAccount(from, to, quantity) \/ DepositToEvm(from, to, quantity, gas)
               \/ Withdraw(from, quantity, to)
      PROVE  Works
  BY <1>4, Zenon DEF DepositToAccount, DepositToEvm, Withdraw, Works
<1>5. ASSUME NEW quantity \in Quantities, DepositForSwap(quantity)
      PROVE  Works
  BY <1>5, LedgerAssumption, Zenon DEF DepositForSwap, Works
<1>6. ASSUME RunTransfer \/ RunPushTx PROVE Works
  BY <1>6, Zenon DEF RunTransfer, RunPushTx, Works
<1>7. ASSUME RunHandler PROVE Works
  BY <1>7, Zenon DEF RunHandler, Works, tables
<1>8. ASSUME NEW receiver, NEW minFee, BridgeReg(receiver, minFee)
      PROVE  Works
  BY <1>8, Zenon DEF BridgeReg, Works
<1>9. ASSUME NEW account, NEW allowed, SetEgress(account, allowed)
      PROVE  Administers
  BY <1>9, Zenon DEF SetEgress, Administers
<1>10. ASSUME NEW value, NEW c, Freeze(value) \/ Reconfigure(c)
       PROVE  Administers
  BY <1>10, Zenon DEF Freeze, Reconfigure, Administers, tables
<1>11. ASSUME NEW who, NEW delta \in Deltas, AddOpenBal(who, delta) \/ AddEvmBal(who, delta)
       PROVE  Administers
  BY <1>11, Zenon DEF AddOpenBal, AddEvmBal, Administers
<1>12. ASSUME NEW limit, SetGasLimit(limit)
       PROVE  Works \/ Administers
  <2>1. CASE inline = <<>>
    BY <1>12, <2>1 DEF SetGasLimit, Continue, Administers, tables
  <2>2. CASE inline # <<>>
    BY <1>12, <2>2, Zenon DEF SetGasLimit, Works, tables
  <2> QED  BY <2>1, <2>2, Zenon
<1>13. ASSUME NEW e \in EvmAddrs, RmAccount(e)
       PROVE  Administers
  BY <1>13, Zenon DEF RmAccount, Administers
<1> QED
  BY <1>1, <1>2, <1>3, <1>4, <1>5, <1>6, <1>7, <1>8, <1>9, <1>10, <1>11, <1>12, <1>13, Zenon DEF Next

\* Corrections stay numbers, and no transaction runs in a frozen contract.
LEMMA HaltsInductive ==
  ASSUME Inv, Halts, [Next]_vars
  PROVE  Halts'
<1>1. CASE Abort
  BY <1>1, Zenon DEF Halts, Abort
<1>2. CASE Works /\ Forward
  BY <1>2, LedgerAssumption DEF Halts, Works, Forward, Saves, Snapshot
<1>3. CASE Administers
  BY <1>3 DEF Halts, Administers, Deltas
<1>4. CASE UNCHANGED vars
  BY <1>4, Zenon DEF Halts, vars, tables
<1> QED BY <1>1, <1>2, <1>3, <1>4, Steps, WorksOrAdministers, Zenon DEF Inv

-----------------------------------------------------------------------------
(* Messages and what they move *)

Value(msgs) == [i \in DOMAIN msgs |-> msgs[i].value]

\* What the messages at positions I move together.
Part(msgs, I) == SumFunctionOnSet(Value(msgs), I)

\* The values of messages are natural numbers.
LEMMA Values ==
  ASSUME NEW msgs \in Seq(Movements)
  PROVE  /\ IsFiniteSet(DOMAIN msgs)
         /\ \A i \in DOMAIN msgs : msgs[i] \in Movements /\ Value(msgs)[i] = msgs[i].value
                                     /\ Value(msgs)[i] \in Nat
BY SeqFinite DEF Value, Movements

\* So is what any of them move.
LEMMA PartNat ==
  ASSUME NEW msgs \in Seq(Movements), NEW I \in SUBSET DOMAIN msgs
  PROVE  Part(msgs, I) \in Nat /\ IsFiniteSet(I)
BY Values, FiniteSubset, SumNat, Zenon DEF Part

\* Two disjoint sets of messages move what each of them moves.
LEMMA PartSplit ==
  ASSUME NEW msgs \in Seq(Movements), NEW I \in SUBSET DOMAIN msgs, NEW J \in SUBSET DOMAIN msgs,
         I \cap J = {}
  PROVE  Part(msgs, I \cup J) = Part(msgs, I) + Part(msgs, J)
BY Values, FiniteSubset, SumUnion DEF Part

\* More messages move no less.
LEMMA PartLeq ==
  ASSUME NEW msgs \in Seq(Movements), NEW J \in SUBSET DOMAIN msgs, NEW I \in SUBSET J
  PROVE  Part(msgs, I) <= Part(msgs, J)
BY Values, FiniteSubset, SumPart, Zenon DEF Part

\* No message moves nothing.
LEMMA PartEmpty ==
  ASSUME NEW msgs
  PROVE  Part(msgs, {}) = 0
BY SumEmpty, Zenon DEF Part

\* The g[x] split the messages of U, and r[x] is what those of g[x] move.
Splits(msgs, g, r, X, U) ==
  /\ \A x \in X : g[x] \in SUBSET DOMAIN msgs
  /\ \A x \in X, y \in X : x # y => g[x] \cap g[y] = {}
  /\ \A x \in X : r[x] = Part(msgs, g[x])
  /\ \A i : i \in U <=> \E x \in X : i \in g[x]

\* What the parts g[x] move together.
LEMMA PartParts ==
  ASSUME NEW msgs \in Seq(Movements), NEW X, IsFiniteSet(X),
         NEW g, NEW r, NEW U, Splits(msgs, g, r, X, U)
  PROVE  SumFunctionOnSet(r, X) = Part(msgs, U)
<1> DEFINE v == Value(msgs)
           I == DOMAIN msgs
<1>1. \A i \in I : v[i] \in Int
  BY Values
<1>2. IsFiniteSet(I)
  BY Values, Zenon
<1>3. \A x \in X : r[x] = SumFunctionOnSet(v, g[x])
  BY Zenon DEF Part, Splits
<1>4. Part(msgs, U) = SumFunctionOnSet(v, U)
  BY Zenon DEF Part
<1>5. Parts(v, I, g, r, X, U)
  BY <1>1, <1>3, Zenon DEF Splits, Parts
<1> HIDE DEF v, I
<1>6. SumFunctionOnSet(r, X) = SumFunctionOnSet(v, U)
  BY ONLY <1>2, <1>5, IsFiniteSet(X), SumParts
<1> QED  BY <1>4, <1>6, Zenon

\* The messages selected so far.
Selecting(msgs, chosen, sel, n) ==
  \A i \in 0..n : sel[i] = IF i = 0 THEN <<>>
                           ELSE IF i \in chosen THEN Append(sel[i - 1], msgs[i]) ELSE sel[i - 1]

\* The recursive function that Select takes its result from.
LEMMA SelectDefined ==
  ASSUME NEW T, NEW msgs \in Seq(T), NEW chosen
  PROVE  \E sel : /\ DOMAIN sel = 0..Len(msgs)
                  /\ Selecting(msgs, chosen, sel, Len(msgs))
                  /\ Select(msgs, chosen) = sel[Len(msgs)]
<1> DEFINE N == Len(msgs)
           P == {n \in Nat : n <= N => \E sel : DOMAIN sel = 0..n /\ Selecting(msgs, chosen, sel, n)}
<1>1. N \in Nat
  BY SeqFinite, Zenon
<1> HIDE DEF N
<1>2. 0 \in P
  <2>1. DOMAIN [i \in 0..0 |-> <<>>] = 0..0 /\ Selecting(msgs, chosen, [i \in 0..0 |-> <<>>], 0)
    BY DEF Selecting
  <2> QED  BY <2>1, Zenon
<1>3. ASSUME NEW n \in Nat, n \in P PROVE n + 1 \in P
  <2>1. SUFFICES ASSUME n + 1 <= N
                 PROVE  \E sel : DOMAIN sel = 0..(n + 1) /\ Selecting(msgs, chosen, sel, n + 1)
    OBVIOUS
  <2>2. PICK sel : DOMAIN sel = 0..n /\ Selecting(msgs, chosen, sel, n)
    BY <1>1, <1>3, <2>1
  <2> DEFINE last == IF n + 1 \in chosen THEN Append(sel[n], msgs[n + 1]) ELSE sel[n]
             more == [i \in 0..(n + 1) |-> IF i = n + 1 THEN last ELSE sel[i]]
  <2>3. \A i \in 0..n : more[i] = sel[i] /\ (i # 0 => i - 1 \in 0..n /\ more[i - 1] = sel[i - 1])
    OBVIOUS
  <2>4. more[n + 1] = last /\ more[n + 1 - 1] = sel[n] /\ n + 1 - 1 = n /\ n + 1 # 0
    OBVIOUS
  <2>5. DOMAIN more = 0..(n + 1)
    BY Zenon
  <2> HIDE DEF more
  <2>6. Selecting(msgs, chosen, more, n + 1)
    <3>1. ASSUME NEW i \in 0..n
          PROVE  more[i] = IF i = 0 THEN <<>>
                   ELSE IF i \in chosen THEN Append(more[i - 1], msgs[i]) ELSE more[i - 1]
      <4>1. CASE i = 0
        BY <2>2, <2>3, <4>1, Zenon DEF Selecting
      <4>2. CASE i # 0
        BY <2>2, <2>3, <4>2, Zenon DEF Selecting
      <4> QED  BY <4>1, <4>2, Zenon
    <3> QED  BY <2>4, <3>1 DEF Selecting
  <2> QED  BY <2>5, <2>6, Zenon
<1> HIDE DEF P
<1>4. N \in P
  BY <1>1, <1>2, <1>3, NatSet, Zenon
<1>5. PICK s0 : DOMAIN s0 = 0..N /\ Selecting(msgs, chosen, s0, N)
  BY <1>1, <1>4 DEF P
<1> DEFINE F(f) == [i \in 0..N |-> IF i = 0 THEN <<>>
                      ELSE IF i \in chosen THEN Append(f[i - 1], msgs[i]) ELSE f[i - 1]]
<1>6. \E f : f = F(f)
  <2> DEFINE s1 == [i \in 0..N |-> s0[i]]
  <2>1. \A i \in 0..N : s1[i] = s0[i] /\ (i # 0 => i - 1 \in 0..N /\ s1[i - 1] = s0[i - 1])
    BY <1>1
  <2>2. DOMAIN s1 = 0..N /\ s1 = [i \in 0..N |-> s1[i]]
    BY Zenon
  <2> HIDE DEF s1
  <2>3. s1 = F(s1)
    BY <1>5, <2>1, <2>2, Zenon DEF Selecting
  <2> QED  BY <2>3, Zenon
<1> QED  BY <1>6, Zenon DEF N, Select, Selecting

\* What is selected is at the chosen positions, and weighs what they do.
LEMMA SelectFacts ==
  ASSUME NEW T, NEW msgs \in Seq(T), NEW chosen \in SUBSET DOMAIN msgs,
         NEW w, \A x \in T : w[x] \in Int
  PROVE  /\ Select(msgs, chosen) \in Seq(T)
         /\ \A k \in DOMAIN Select(msgs, chosen) : \E i \in chosen : Select(msgs, chosen)[k] = msgs[i]
         /\ SumFunction(Weights(Select(msgs, chosen), w))
              = SumFunctionOnSet(Weights(msgs, w), chosen)
<1> DEFINE N == Len(msgs)
           v == Weights(msgs, w)
<1>1. N \in Nat /\ DOMAIN msgs = 1..N /\ \A i \in 1..N : msgs[i] \in T
  BY SeqFinite
<1>2. PICK sel : Selecting(msgs, chosen, sel, N) /\ Select(msgs, chosen) = sel[N]
  BY SelectDefined, Zenon
<1>3. \A i \in 1..N : v[i] = w[msgs[i]] /\ v[i] \in Int
  BY <1>1, Zenon DEF Weights
<1> HIDE DEF N, v
<1> DEFINE Below(n) == {i \in chosen : i <= n}
           Right(n) == /\ sel[n] \in Seq(T)
                       /\ \A k \in DOMAIN sel[n] : \E i \in chosen : sel[n][k] = msgs[i]
                       /\ SumFunction(Weights(sel[n], w)) = SumFunctionOnSet(v, Below(n))
           P == {n \in Nat : n <= N => Right(n)}
<1>4. \A n : Below(n) \in SUBSET (1..N) /\ IsFiniteSet(Below(n))
  BY <1>1, FiniteInterval, FiniteSubset
<1>5. 0 \in P
  <2>1. Below(0) = {}
    BY <1>1
  <2>2. SumFunctionOnSet(v, Below(0)) = 0
    BY <2>1, SumEmpty, Zenon
  <2> QED  BY <1>1, <1>2, <2>2, SumEmpty DEF SumFunction, Weights, Selecting
<1>6. ASSUME NEW n \in Nat, n \in P PROVE n + 1 \in P
  <2>1. SUFFICES ASSUME n + 1 <= N PROVE Right(n + 1)
    OBVIOUS
  <2>2. Right(n)
    BY <1>1, <1>6, <2>1
  <2>3. n + 1 \in 1..N /\ msgs[n + 1] \in T
    BY <1>1, <2>1
  <2>4. sel[n + 1] = IF n + 1 \in chosen THEN Append(sel[n], msgs[n + 1]) ELSE sel[n]
    BY <1>1, <1>2, <2>3 DEF Selecting
  <2>5. CASE n + 1 \notin chosen
    <3>1. Below(n + 1) = Below(n)
      BY <1>1, <2>5
    <3> HIDE DEF Below
    <3> QED  BY <2>2, <2>4, <2>5, <3>1, Zenon
  <2>6. CASE n + 1 \in chosen
    <3>1. Below(n + 1) = Below(n) \cup {n + 1} /\ n + 1 \notin Below(n)
      BY <1>1, <2>6
    <3>2. sel[n + 1] = Append(sel[n], msgs[n + 1])
      BY <2>4, <2>6, Zenon
    <3> DEFINE s == sel[n]
               t == msgs[n + 1]
    <3>3. s \in Seq(T) /\ t \in T
      BY <2>2, <2>3, Zenon
    <3> HIDE DEF Below, s, t
    <3>4. SumFunctionOnSet(v, Below(n) \cup {n + 1}) = v[n + 1] + SumFunctionOnSet(v, Below(n))
      BY <1>3, <1>4, <2>3, <3>1, SumAdd, Zenon
    <3>5. SumFunction(Weights(Append(s, t), w)) = SumFunction(Weights(s, w)) + w[t]
      BY <3>3, WeightsAppend, Zenon
    <3>6. SumFunctionOnSet(v, Below(n)) \in Int
      BY <1>3, <1>4, SumInt, Zenon
    <3>7. v[n + 1] = w[t] /\ w[t] \in Int
      BY <1>3, <2>3, Zenon DEF t
    <3>8. SumFunction(Weights(sel[n + 1], w)) = SumFunctionOnSet(v, Below(n + 1))
      <4>1. SumFunctionOnSet(v, Below(n + 1)) = SumFunctionOnSet(v, Below(n) \cup {n + 1})
        BY <3>1, Zenon
      <4> QED  BY <2>2, <3>2, <3>4, <3>5, <3>6, <3>7, <4>1 DEF s, t
    <3>9. \A k \in DOMAIN s : \E i \in chosen : s[k] = msgs[i]
      BY <2>2, Zenon DEF s
    <3>10. \E i \in chosen : t = msgs[i]
      BY <2>6, Zenon DEF t
    <3>11. /\ Append(s, t) \in Seq(T)
           /\ \A k \in DOMAIN Append(s, t) : \/ k \in DOMAIN s /\ Append(s, t)[k] = s[k]
                                            \/ Append(s, t)[k] = t
      BY ONLY <3>3
    <3>12. \A k \in DOMAIN Append(s, t) : \E i \in chosen : Append(s, t)[k] = msgs[i]
      BY ONLY <3>9, <3>10, <3>11, Zenon
    <3>13. sel[n + 1] = Append(s, t)
      BY <3>2, Zenon DEF s, t
    <3> HIDE DEF Right
    <3>14. Right(n + 1)
      BY ONLY <3>8, <3>11, <3>12, <3>13, Zenon DEF Right
    <3> QED  BY <3>14
  <2> QED  BY <2>5, <2>6, Zenon
<1> HIDE DEF P
<1>7. N \in P
  BY <1>1, <1>5, <1>6, NatSet, Zenon
<1>8. Right(N)
  BY <1>1, <1>7 DEF P
<1>9. Below(N) = chosen
  BY <1>1
<1> QED  BY <1>2, <1>8, <1>9, Zenon DEF v

-----------------------------------------------------------------------------
(* Rows *)

\* There are finitely many accounts, on either side.
LEMMA NamesFinite == IsFiniteSet(Names) /\ IsFiniteSet(EvmAddrs)
BY LedgerAssumption, FiniteAdd, Zenon DEF Names

\* A table of rows is finite and has a sum.
LEMMA RowsSum ==
  ASSUME NEW b, IsRows(b)
  PROVE  /\ IsFiniteSet(DOMAIN b) /\ DOMAIN b \in SUBSET Names
         /\ \A n \in DOMAIN b : b[n] \in Nat
         /\ SumFunction(b) \in Nat
BY NamesFinite, FiniteSubset, TotalNat, Zenon DEF IsRows

\* A debit of n: balance_with_dust -= on its row.
LEMMA TakeRow ==
  ASSUME NEW b, IsRows(b), NEW n, NEW x \in Nat, CanTake(b, n, x)
  PROVE  /\ IsRows(Take(b, n, x)) /\ SumFunction(Take(b, n, x)) = SumFunction(b) - x
         /\ DOMAIN Take(b, n, x) = DOMAIN b
         /\ \A m \in DOMAIN b : Take(b, n, x)[m] = IF m = n THEN b[n] - x ELSE b[m]
BY RowsSum, TotalUpdate DEF IsRows, Take, CanTake

\* A credit of n: balance_with_dust += on its row.
LEMMA GiveRow ==
  ASSUME NEW b, IsRows(b), NEW n \in DOMAIN b, NEW x \in Nat
  PROVE  /\ IsRows(Give(b, n, x)) /\ SumFunction(Give(b, n, x)) = SumFunction(b) + x
         /\ DOMAIN Give(b, n, x) = DOMAIN b
         /\ \A m \in DOMAIN b : Give(b, n, x)[m] = IF m = n THEN b[n] + x ELSE b[m]
BY RowsSum, TotalUpdate DEF IsRows, Give

\* A credit of f[n] to every row n.
LEMMA AddRows ==
  ASSUME NEW b, IsRows(b), NEW f, \A n \in DOMAIN b : f[n] \in Nat,
         NEW c, c = [n \in DOMAIN b |-> b[n] + f[n]]
  PROVE  /\ IsRows(c) /\ SumFunction(c) = SumFunction(b) + SumFunctionOnSet(f, DOMAIN b)
         /\ SumFunctionOnSet(f, DOMAIN b) \in Nat
BY RowsSum, SumPlus, SumNat DEF SumFunction, IsRows

\* Opening a row, and closing one that holds nothing, change no sum.
LEMMA OpenRow ==
  ASSUME NEW b, IsRows(b), NEW owner \in Names
  PROVE  IsRows(WithRow(b, owner)) /\ SumFunction(WithRow(b, owner)) = SumFunction(b)
<1>1. CASE owner \in DOMAIN b
  BY <1>1, RowsSum, SumSame, Zenon DEF SumFunction, WithRow, IsRows
<1>2. CASE owner \notin DOMAIN b
  BY <1>2, RowsSum, TotalDrop DEF WithRow, IsRows
<1> QED  BY <1>1, <1>2, Zenon

\* close: erasing an empty row leaves the sum.
LEMMA CloseRow ==
  ASSUME NEW b, IsRows(b), NEW owner \in DOMAIN b, b[owner] = 0
  PROVE  /\ IsRows(Restrict(b, DOMAIN b \ {owner}))
         /\ SumFunction(Restrict(b, DOMAIN b \ {owner})) = SumFunction(b)
BY RowsSum, TotalDrop DEF IsRows, Restrict

-----------------------------------------------------------------------------
(* Executions *)

\* The transactions process_tx is given.
IsTx(tx) ==
  /\ tx.from \in Names \cup EvmAddrs /\ tx.payload \in Seq(Movements)
  /\ tx.gas \in Nat /\ tx.maxFee \in Nat /\ tx.prio \in Nat /\ tx.bridge \in BOOLEAN
  /\ tx.payer \in Names \cup {None}
  /\ tx.payer # None => tx.from \in Names /\ tx.bridge

\* The settings in force are numbers.
LEMMA SettingsOK ==
  ASSUME cfg \in Configs
  PROVE  /\ cfg.version \in Nat /\ cfg.price \in Nat /\ cfg.minerCut \in 0..HundredPercent
         /\ cfg.ingressFee \in Nat /\ cfg.ingressGas \in Nat /\ cfg.newAccountGas \in Nat
BY LedgerAssumption, Zenon DEF Settings

\* The positions of the messages to x, of those an EVM account pays for, of those
\* paid for with the transaction's value, and of those that destroy their value.
MessagesTo(done, x) == {i \in DOMAIN done : done[i].kind # "burn" /\ done[i].to = x}
MessagesFrom(done, e) == {i \in DOMAIN done : done[i].src = e}
SenderPays(done) == {i \in DOMAIN done : OfSender(done[i])}
Burns(done) == {i \in DOMAIN done : done[i].kind = "burn"}

\* The value and the largest gas cost of a transaction.
LEMMA Amounts ==
  ASSUME NEW tx, IsTx(tx)
  PROVE  /\ TxValue(tx) = Part(tx.payload, SenderPays(tx.payload)) /\ TxValue(tx) \in Nat
         /\ MaxGasCost(tx) \in Nat /\ Staked(tx) \in Nat
<1>1. TxValue(tx) = Part(tx.payload, SenderPays(tx.payload))
  BY Zenon DEF TxValue, Total, Part, Value, SenderPays
<1>2. SenderPays(tx.payload) \in SUBSET DOMAIN tx.payload
  BY Zenon DEF SenderPays
<1>3. TxValue(tx) \in Nat
  BY <1>1, <1>2, PartNat, Zenon DEF IsTx
<1> QED  BY <1>1, <1>3 DEF Staked, IsTx, MaxGasCost

\* The price per gas is at most the one the transaction offers.
LEMMA Prices ==
  ASSUME cfg \in Configs, NEW tx, IsTx(tx), NEW minInclusion, PriceAccepted(tx, minInclusion)
  PROVE  /\ GasPrice(tx) \in 0..tx.maxFee
         /\ cfg.version >= 1 => PriorityFee(tx) \in Nat /\ GasPrice(tx) = cfg.price + PriorityFee(tx)
         /\ cfg.version < 1 => GasPrice(tx) = tx.maxFee
<1>1. cfg.version \in Nat /\ cfg.price \in Nat /\ tx.maxFee \in Nat /\ tx.prio \in Nat
  BY SettingsOK, Zenon DEF IsTx
<1>2. CASE cfg.version >= 1
  <2>1. PriorityFee(tx) \in {tx.prio, tx.maxFee - cfg.price} /\ PriorityFee(tx) <= tx.maxFee - cfg.price
    BY <1>1, <1>2 DEF PriorityFee, Min, PriceAccepted
  <2> QED  BY <1>1, <1>2, <2>1 DEF GasPrice, PriceAccepted
<1>3. CASE ~(cfg.version >= 1)
  BY <1>1, <1>3 DEF GasPrice
<1> QED  BY <1>1, <1>2, <1>3, Zenon

\* Every message's value goes to a name, to an EVM address or is destroyed.
LEMMA MessagesSplit ==
  ASSUME NEW done \in Seq(Movements), NEW f, NEW g,
         \A n \in Names : f[n] = Part(done, MessagesTo(done, n)),
         \A e \in EvmAddrs : g[e] = Part(done, MessagesTo(done, e))
  PROVE  SumFunctionOnSet(f, Names) + SumFunctionOnSet(g, EvmAddrs) + Part(done, Burns(done))
           = Part(done, DOMAIN done)
<1> DEFINE h == [x \in Names \cup EvmAddrs |-> MessagesTo(done, x)]
           N == {i \in DOMAIN done : done[i].kind # "burn" /\ done[i].to \in Names}
           E == {i \in DOMAIN done : done[i].kind # "burn" /\ done[i].to \in EvmAddrs}
           B == Burns(done)
<1>1. SumFunctionOnSet(f, Names) = Part(done, N)
  <2>1. \A n \in Names : h[n] \in SUBSET DOMAIN done
    BY Zenon DEF MessagesTo
  <2>2. \A m \in Names, n \in Names : m # n => h[m] \cap h[n] = {}
    BY Zenon DEF MessagesTo
  <2>3. \A n \in Names : f[n] = Part(done, h[n])
    BY Zenon
  <2>4. \A i : i \in N <=> \E n \in Names : i \in h[n]
    BY Zenon DEF MessagesTo
  <2> HIDE DEF h, N
  <2>5. Splits(done, h, f, Names, N)
    BY <2>1, <2>2, <2>3, <2>4, Zenon DEF Splits
  <2> QED  BY ONLY <2>5, done \in Seq(Movements), NamesFinite, PartParts
<1>2. SumFunctionOnSet(g, EvmAddrs) = Part(done, E)
  <2>1. \A e \in EvmAddrs : h[e] \in SUBSET DOMAIN done
    BY Zenon DEF MessagesTo
  <2>2. \A m \in EvmAddrs, n \in EvmAddrs : m # n => h[m] \cap h[n] = {}
    BY Zenon DEF MessagesTo
  <2>3. \A n \in EvmAddrs : g[n] = Part(done, h[n])
    BY Zenon
  <2>4. \A i : i \in E <=> \E n \in EvmAddrs : i \in h[n]
    BY Zenon DEF MessagesTo
  <2> HIDE DEF h, E
  <2>5. Splits(done, h, g, EvmAddrs, E)
    BY <2>1, <2>2, <2>3, <2>4, Zenon DEF Splits
  <2> QED  BY ONLY <2>5, done \in Seq(Movements), NamesFinite, PartParts
<1>3. /\ N \in SUBSET DOMAIN done /\ E \in SUBSET DOMAIN done /\ B \in SUBSET DOMAIN done
      /\ N \cap E = {} /\ (N \cup E) \cap B = {} /\ (N \cup E) \cup B = DOMAIN done
  BY Values, LedgerAssumption, Zenon DEF Burns, Movements
<1> HIDE DEF N, E, B
<1>4. Part(done, N \cup E) = Part(done, N) + Part(done, E)
  BY <1>3, PartSplit, Zenon
<1>5. Part(done, (N \cup E) \cup B) = Part(done, N \cup E) + Part(done, B)
  BY <1>3, PartSplit, Zenon
<1> QED  BY <1>1, <1>2, <1>3, <1>4, <1>5, PartNat, Zenon DEF B

\* Every message's value is the sender's or an EVM account's.
LEMMA SourcesSplit ==
  ASSUME NEW done \in Seq(Movements), NEW g,
         \A e \in EvmAddrs : g[e] = Part(done, MessagesFrom(done, e))
  PROVE  SumFunctionOnSet(g, EvmAddrs) + Part(done, SenderPays(done)) = Part(done, DOMAIN done)
<1> DEFINE h == [x \in EvmAddrs |-> MessagesFrom(done, x)]
           E == {i \in DOMAIN done : done[i].src \in EvmAddrs}
           S == SenderPays(done)
<1>1. SumFunctionOnSet(g, EvmAddrs) = Part(done, E)
  <2>1. \A e \in EvmAddrs : h[e] \in SUBSET DOMAIN done
    BY Zenon DEF MessagesFrom
  <2>2. \A m \in EvmAddrs, n \in EvmAddrs : m # n => h[m] \cap h[n] = {}
    BY Zenon DEF MessagesFrom
  <2>3. \A n \in EvmAddrs : g[n] = Part(done, h[n])
    BY Zenon
  <2>4. \A i : i \in E <=> \E n \in EvmAddrs : i \in h[n]
    BY Zenon DEF MessagesFrom
  <2> HIDE DEF h, E
  <2>5. Splits(done, h, g, EvmAddrs, E)
    BY <2>1, <2>2, <2>3, <2>4, Zenon DEF Splits
  <2> QED  BY ONLY <2>5, done \in Seq(Movements), NamesFinite, PartParts
<1>2. /\ E \in SUBSET DOMAIN done /\ S \in SUBSET DOMAIN done
      /\ E \cap S = {} /\ E \cup S = DOMAIN done
  <2>1. \A i \in DOMAIN done : done[i].src \in EvmAddrs \cup {None}
    <3> SUFFICES ASSUME NEW i \in DOMAIN done PROVE done[i].src \in EvmAddrs \cup {None}
      BY Zenon
    <3>1. done[i] \in Movements
      BY Values, Zenon
    <3> QED  BY <3>1, Zenon DEF Movements
  <2>2. None \notin EvmAddrs
    BY LedgerAssumption, Zenon
  <2>3. S = {i \in DOMAIN done : done[i].src = None}
    BY Zenon DEF SenderPays, OfSender
  <2> HIDE DEF S
  <2> QED  BY ONLY <2>1, <2>2, <2>3, Zenon
<1> HIDE DEF E, S
<1>3. Part(done, E \cup S) = Part(done, E) + Part(done, S)
  BY <1>2, PartSplit, Zenon
<1> QED  BY <1>1, <1>2, <1>3, Zenon DEF S

\* What execute_transaction can be given.
Executes(tx, minInclusion, gasUsed, success) ==
  /\ cfg \in Configs /\ evm \in [EvmAddrs -> Nat] /\ IsTx(tx)
  /\ PriceAccepted(tx, minInclusion)
  /\ tx.from \notin Names => evm[tx.from] >= TxValue(tx) + MaxGasCost(tx)
  /\ gasUsed \in 1..tx.gas /\ success \in BOOLEAN

\* A transaction uses no more gas than it pays for and moves no more than its value.
LEMMA Spent ==
  ASSUME NEW tx, NEW minInclusion, NEW gasUsed, NEW success,
         Executes(tx, minInclusion, gasUsed, success),
         NEW ex, ex = Execution(tx, gasUsed, success)
  PROVE  /\ ex.done \in Seq(Movements)
         /\ ex.gas = gasUsed
         /\ ex.fee = gasUsed * GasPrice(tx) /\ ex.fee \in 0..MaxGasCost(tx)
         /\ Part(ex.done, SenderPays(ex.done)) \in 0..TxValue(tx)
         /\ success => Part(ex.done, SenderPays(ex.done)) = TxValue(tx)
<1>1. ex.fee \in 0..MaxGasCost(tx)
  BY Prices, Products DEF MaxGasCost, Executes, Execution, IsTx
<1>2. CASE success
  BY <1>1, <1>2, Amounts DEF Executes, IsTx, Execution
<1>3. CASE ~success
  <2>1. ex.done = <<>> /\ SenderPays(<<>>) = {}
    BY <1>3 DEF Execution, SenderPays
  <2>2. Part(ex.done, SenderPays(ex.done)) = 0
    BY <2>1, PartEmpty
  <2> QED  BY <1>1, <1>3, <2>1, <2>2, Amounts DEF Execution, Executes
<1> QED  BY <1>2, <1>3, Zenon

\* The parts of an execution, in terms of the messages at chosen positions.
LEMMA ExecutionFields ==
  ASSUME NEW tx, NEW gasUsed, NEW success, NEW ex, ex = Execution(tx, gasUsed, success),
         NEW done, done = ex.done, NEW fee, fee = ex.fee
  PROVE  /\ ex.held = [n \in Names |->
              Part(done, MessagesTo(done, n))
                + (IF n = tx.from THEN TxValue(tx) + MaxGasCost(tx) - (fee + Part(done, SenderPays(done))) ELSE 0)
                + (IF n = Self THEN fee ELSE 0)]
         /\ ex.evm = [e \in EvmAddrs |->
              evm[e] + Part(done, MessagesTo(done, e)) - Part(done, MessagesFrom(done, e))
                - (IF e = tx.from THEN fee + Part(done, SenderPays(done)) ELSE 0)]
         /\ ex.burned = Part(done, Burns(done))
<1>1. done = (IF success THEN tx.payload ELSE <<>>) /\ fee = gasUsed * GasPrice(tx)
  BY Zenon DEF Execution
<1> DEFINE P(I) == SumFunctionOnSet([i \in DOMAIN done |-> done[i].value], I)
           To(x) == {i \in DOMAIN done : done[i].kind # "burn" /\ done[i].to = x}
           From(x) == {i \in DOMAIN done : done[i].src = x}
           spent == fee + P({i \in DOMAIN done : OfSender(done[i])})
<1>3. /\ ex.held = [n \in Names |-> P(To(n))
                       + (IF n = tx.from THEN TxValue(tx) + MaxGasCost(tx) - spent ELSE 0)
                       + (IF n = Self THEN fee ELSE 0)]
      /\ ex.evm = [e \in EvmAddrs |-> evm[e] + P(To(e)) - P(From(e))
                                                     - (IF e = tx.from THEN spent ELSE 0)]
      /\ ex.burned = P({i \in DOMAIN done : done[i].kind = "burn"})
  BY <1>1, Zenon DEF Execution, Total
<1>4. spent = fee + Part(done, SenderPays(done))
  BY Zenon DEF Part, Value, SenderPays
<1>5. /\ \A x : P(To(x)) = Part(done, MessagesTo(done, x))
      /\ \A x : P(From(x)) = Part(done, MessagesFrom(done, x))
      /\ P({i \in DOMAIN done : done[i].kind = "burn"}) = Part(done, Burns(done))
  BY Zenon DEF Part, Value, MessagesTo, MessagesFrom, Burns
<1> HIDE DEF P, To, From, spent
<1> QED  BY <1>3, <1>4, <1>5

\* The sum of three functions.
LEMMA SumThree ==
  ASSUME NEW D, IsFiniteSet(D), NEW f, NEW g, NEW k, NEW h,
         \A x \in D : f[x] \in Int /\ g[x] \in Int /\ k[x] \in Int /\ h[x] = f[x] + g[x] + k[x]
  PROVE  SumFunctionOnSet(h, D)
           = SumFunctionOnSet(f, D) + SumFunctionOnSet(g, D) + SumFunctionOnSet(k, D)
<1> DEFINE l == [x \in D |-> f[x] + g[x]]
<1>1. \A x \in D : l[x] = f[x] + g[x] /\ l[x] \in Int /\ h[x] = l[x] + k[x]
  OBVIOUS
<1> HIDE DEF l
<1>2. SumFunctionOnSet(l, D) = SumFunctionOnSet(f, D) + SumFunctionOnSet(g, D)
  BY <1>1, SumPlus, Zenon
<1>3. SumFunctionOnSet(h, D) = SumFunctionOnSet(l, D) + SumFunctionOnSet(k, D)
  BY <1>1, SumPlus, Zenon
<1> QED  BY ONLY <1>2, <1>3, Zenon

\* The execution neither creates nor destroys value but by burning it.
LEMMA ExecutionKeeps ==
  ASSUME NEW tx, NEW minInclusion, NEW gasUsed, NEW success,
         Executes(tx, minInclusion, gasUsed, success),
         NEW ex, ex = Execution(tx, gasUsed, success), \A e \in EvmAddrs : ex.evm[e] >= 0
  PROVE  /\ ex.held \in [Names -> Nat] /\ ex.evm \in [EvmAddrs -> Nat] /\ ex.burned \in Nat
         /\ SumFunction(ex.held) \in Nat /\ SumFunction(ex.evm) \in Nat
         /\ SumFunction(evm) \in Nat
         /\ SumFunction(ex.held) + SumFunction(ex.evm) + ex.burned
              = SumFunction(evm) + Staked(tx)
         /\ \A n \in Names : ex.held[n] = Part(ex.done, MessagesTo(ex.done, n))
              + (IF n = tx.from THEN TxValue(tx) + MaxGasCost(tx) - ex.fee
                                       - Part(ex.done, SenderPays(ex.done)) ELSE 0)
              + (IF n = Self THEN ex.fee ELSE 0)
<1> DEFINE done == ex.done
           fee == ex.fee
           own == Part(done, SenderPays(done))
           spent == fee + own
           stake == TxValue(tx) + MaxGasCost(tx)
           left == stake - spent
<1>1. done \in Seq(Movements) /\ fee \in 0..MaxGasCost(tx) /\ own \in 0..TxValue(tx)
  BY Spent, Zenon
<1>2. TxValue(tx) \in Nat /\ MaxGasCost(tx) \in Nat
  BY Amounts, Zenon DEF Executes
<1>3. spent \in Nat /\ left \in Nat /\ stake \in Nat /\ spent <= stake /\ left = stake - spent /\ fee \in Nat /\ own \in Nat
      /\ spent = fee + own
  BY <1>1, <1>2
<1> HIDE DEF done, own
<1>4. /\ ex.held = [n \in Names |-> Part(done, MessagesTo(done, n))
                      + (IF n = tx.from THEN stake - spent ELSE 0) + (IF n = Self THEN fee ELSE 0)]
      /\ ex.evm = [e \in EvmAddrs |-> evm[e] + Part(done, MessagesTo(done, e))
                      - Part(done, MessagesFrom(done, e)) - (IF e = tx.from THEN spent ELSE 0)]
      /\ ex.burned = Part(done, Burns(done))
  <2>1. done = ex.done /\ fee = ex.fee
    BY Zenon DEF done
  <2> HIDE DEF fee
  <2>2. /\ ex.held = [n \in Names |->
               Part(done, MessagesTo(done, n))
                 + (IF n = tx.from THEN TxValue(tx) + MaxGasCost(tx) - (fee + Part(done, SenderPays(done))) ELSE 0)
                 + (IF n = Self THEN fee ELSE 0)]
        /\ ex.evm = [e \in EvmAddrs |->
               evm[e] + Part(done, MessagesTo(done, e)) - Part(done, MessagesFrom(done, e))
                 - (IF e = tx.from THEN fee + Part(done, SenderPays(done)) ELSE 0)]
        /\ ex.burned = Part(done, Burns(done))
    BY <2>1, ExecutionFields
  <2>3. /\ spent = fee + Part(done, SenderPays(done))
        /\ stake - spent = TxValue(tx) + MaxGasCost(tx) - (fee + Part(done, SenderPays(done)))
    BY <1>2, <1>3 DEF own
  <2> HIDE DEF spent, stake
  <2> QED  BY <2>2, <2>3, Zenon
<1> HIDE DEF spent, stake, left, fee
<1>5. \A x : MessagesTo(done, x) \in SUBSET DOMAIN done /\ Part(done, MessagesTo(done, x)) \in Nat
  BY <1>1, PartNat, Zenon DEF MessagesTo
<1>5a. \A x : MessagesFrom(done, x) \in SUBSET DOMAIN done /\ Part(done, MessagesFrom(done, x)) \in Nat
  BY <1>1, PartNat, Zenon DEF MessagesFrom
<1>6. ex.burned \in Nat
  BY <1>1, <1>4, PartNat DEF Burns
<1>7. evm \in [EvmAddrs -> Nat] /\ tx.from \in Names \cup EvmAddrs /\ (tx.from \notin Names => evm[tx.from] >= stake)
  BY Zenon DEF Executes, IsTx, stake
<1>8. ex.held \in [Names -> Nat]
  BY <1>3, <1>4, <1>5
<1>9. ex.evm \in [EvmAddrs -> Nat]
  <2>1. \A e \in EvmAddrs : ex.evm[e] \in Int
    <3> SUFFICES ASSUME NEW e \in EvmAddrs PROVE ex.evm[e] \in Int
      BY Zenon
    <3>1. ex.evm[e] = evm[e] + Part(done, MessagesTo(done, e)) - Part(done, MessagesFrom(done, e))
                        - (IF e = tx.from THEN spent ELSE 0)
      BY <1>4, Zenon
    <3>2. /\ Part(done, MessagesTo(done, e)) \in Nat /\ Part(done, MessagesFrom(done, e)) \in Nat
          /\ evm[e] \in Nat
      BY <1>5, <1>5a, <1>7, Zenon
    <3> QED  BY ONLY <1>3, <3>1, <3>2
  <2>2. \A e \in EvmAddrs : ex.evm[e] \in Nat
    BY <2>1
  <2>3. ex.evm = [e \in EvmAddrs |-> ex.evm[e]]
    BY <1>4, Zenon
  <2> QED  BY ONLY <2>2, <2>3
<1> DEFINE f == [n \in Names |-> Part(done, MessagesTo(done, n))]
           g == [e \in EvmAddrs |-> Part(done, MessagesTo(done, e))]
           k == [e \in EvmAddrs |-> Part(done, MessagesFrom(done, e))]
           f2 == [n \in Names |-> IF n = Self THEN fee ELSE 0]
           held == ex.held
           evm2 == ex.evm
           a == SumFunctionOnSet(f, Names)
           b == SumFunctionOnSet(g, EvmAddrs)
           c == ex.burned
           d == SumFunctionOnSet(evm, EvmAddrs)
           p == SumFunctionOnSet(k, EvmAddrs)
<1>10. a + b + c = p + own
  <2>1. \A n \in Names : f[n] = Part(done, MessagesTo(done, n))
    BY Zenon
  <2>2. \A n \in EvmAddrs : g[n] = Part(done, MessagesTo(done, n))
    BY Zenon
  <2>3. \A n \in EvmAddrs : k[n] = Part(done, MessagesFrom(done, n))
    BY Zenon
  <2> HIDE DEF f, g, k
  <2>4. a + b + Part(done, Burns(done)) = Part(done, DOMAIN done)
    BY ONLY <1>1, <2>1, <2>2, MessagesSplit, Zenon
  <2>5. p + Part(done, SenderPays(done)) = Part(done, DOMAIN done)
    BY ONLY <1>1, <2>3, SourcesSplit, Zenon
  <2> QED  BY <1>4, <2>4, <2>5, Zenon DEF own
<1>11. SumFunctionOnSet(held, Names) = fee + a + (IF tx.from \in Names THEN left ELSE 0) /\ a \in Int
  <2> DEFINE f1 == [n \in Names |-> IF n = tx.from THEN left ELSE 0]
  <2>0. \A n \in Names : f1[n] = (IF n = tx.from THEN left ELSE 0)
    BY Zenon
  <2>1. \A n \in Names : f2[n] = (IF n = Self THEN fee ELSE 0)
    BY Zenon
  <2>2. \A n \in Names : f2[n] \in Int /\ f[n] \in Int /\ f1[n] \in Int /\ held[n] = f2[n] + f[n] + f1[n]
    BY <1>3, <1>4, <1>5
  <2>3. left \in Int /\ fee \in Int /\ Self \in Names
    BY <1>3 DEF Names
  <2> HIDE DEF f, f1, f2, held
  <2>4. SumFunctionOnSet(f2, Names) = IF Self \in Names THEN fee ELSE 0
    BY ONLY <2>1, <2>3, NamesFinite, SumAt, Zenon
  <2>5. SumFunctionOnSet(f1, Names) = IF tx.from \in Names THEN left ELSE 0
    <3>1. left \in Int
      BY <2>3, Zenon
    <3> QED  BY ONLY <2>0, <3>1, NamesFinite, SumAt, Zenon
  <2>6. SumFunctionOnSet(f, Names) \in Int
    BY ONLY <2>2, NamesFinite, SumInt, Zenon
  <2>7. SumFunctionOnSet(held, Names)
           = SumFunctionOnSet(f2, Names) + SumFunctionOnSet(f, Names) + SumFunctionOnSet(f1, Names)
    BY ONLY <2>2, NamesFinite, SumThree
  <2> QED  BY ONLY <2>3, <2>4, <2>5, <2>6, <2>7, Zenon
<1>12. /\ SumFunctionOnSet(evm2, EvmAddrs) = d + b - p + (IF tx.from \in EvmAddrs THEN 0 - spent ELSE 0)
       /\ b \in Int /\ p \in Int
  <2> DEFINE v == 0 - spent
             g1 == [e \in EvmAddrs |-> IF e = tx.from THEN v ELSE 0]
             g2 == [e \in EvmAddrs |-> evm2[e] + k[e]]
  <2>1. \A e \in EvmAddrs : g1[e] = (IF e = tx.from THEN v ELSE 0)
    BY Zenon
  <2>2. \A e \in EvmAddrs : /\ evm[e] \in Int /\ g[e] \in Int /\ g1[e] \in Int
                            /\ g2[e] = evm[e] + g[e] + g1[e]
    BY <1>3, <1>4, <1>5, <1>5a, <1>7
  <2>3. \A e \in EvmAddrs : evm2[e] \in Int /\ k[e] \in Int /\ g2[e] = evm2[e] + k[e]
    BY <1>5a, <1>9
  <2>4. v \in Int
    BY <1>3
  <2> HIDE DEF g, g1, g2, k, evm2, v
  <2>5. SumFunctionOnSet(g1, EvmAddrs) = IF tx.from \in EvmAddrs THEN v ELSE 0
    BY ONLY <2>1, <2>4, NamesFinite, SumAt, Zenon
  <2>6. SumFunctionOnSet(g, EvmAddrs) \in Int /\ SumFunctionOnSet(k, EvmAddrs) \in Int
        /\ SumFunctionOnSet(evm2, EvmAddrs) \in Int /\ SumFunctionOnSet(evm, EvmAddrs) \in Int
    BY ONLY <2>2, <2>3, NamesFinite, SumInt, Zenon
  <2>7. SumFunctionOnSet(g2, EvmAddrs)
           = SumFunctionOnSet(evm, EvmAddrs) + SumFunctionOnSet(g, EvmAddrs) + SumFunctionOnSet(g1, EvmAddrs)
    BY ONLY <2>2, NamesFinite, SumThree
  <2>8. SumFunctionOnSet(g2, EvmAddrs) = SumFunctionOnSet(evm2, EvmAddrs) + SumFunctionOnSet(k, EvmAddrs)
    BY ONLY <2>3, NamesFinite, SumPlus, Zenon
  <2> DEFINE r == SumFunctionOnSet(evm2, EvmAddrs)
             t == SumFunctionOnSet(g2, EvmAddrs)
             w == SumFunctionOnSet(g1, EvmAddrs)
  <2>9. w = IF tx.from \in EvmAddrs THEN 0 - spent ELSE 0
    BY <2>5, Zenon DEF v
  <2>10. r \in Int /\ d \in Int /\ b \in Int /\ p \in Int /\ w \in Int
    BY <1>3, <2>6, <2>9
  <2>11. t = d + b + w /\ t = r + p
    BY <2>7, <2>8, Zenon
  <2> HIDE DEF r, t, w, d, b, p
  <2>12. r = d + b - p + w
    BY ONLY <2>10, <2>11
  <2> QED  BY <2>9, <2>10, <2>12, Zenon DEF r
<1> HIDE DEF f, g, k, f2
<1>13. SumFunction(held) = SumFunctionOnSet(held, Names)
       /\ SumFunction(evm2) = SumFunctionOnSet(evm2, EvmAddrs) /\ SumFunction(evm) = d
  BY <1>7, <1>8, <1>9, Zenon DEF SumFunction
<1>14. /\ d \in Nat /\ SumFunctionOnSet(held, Names) \in Nat
       /\ SumFunctionOnSet(evm2, EvmAddrs) \in Nat
  <2> HIDE DEF d
  <2>1. d \in Nat
    BY <1>7, NamesFinite, SumNat, Zenon DEF d
  <2>2. SumFunctionOnSet(held, Names) \in Nat
    BY <1>8, NamesFinite, SumNat, Zenon
  <2>3. SumFunctionOnSet(evm2, EvmAddrs) \in Nat
    BY <1>9, NamesFinite, SumNat, Zenon
  <2> QED  BY ONLY <2>1, <2>2, <2>3, Zenon
<1> DEFINE x == SumFunctionOnSet(held, Names)
           y == SumFunctionOnSet(evm2, EvmAddrs)
<1>15. x + y + c = d + Staked(tx)
  <2> HIDE DEF a, b, c, d, p, x, y
  <2>0. c \in Nat /\ d \in Nat
    BY <1>6, <1>14, Zenon DEF c, d
  <2>1. a \in Int /\ b \in Int /\ c \in Int /\ d \in Int /\ p \in Int
    BY ONLY <1>11, <1>12, <2>0
  <2>2. tx.from \in EvmAddrs <=> tx.from \notin Names
    BY <1>7, LedgerAssumption, Zenon
  <2>3. CASE tx.from \in Names
    <3>1. x = fee + a + left /\ y = d + b - p + 0
      BY <1>11, <1>12, <2>2, <2>3, Zenon DEF x, y
    <3>2. x + y + c = d + stake
      BY ONLY <1>3, <1>10, <2>1, <3>1
    <3> QED  BY <2>3, <3>2, Zenon DEF Staked, stake
  <2>4. CASE tx.from \notin Names
    <3>1. x = fee + a + 0 /\ y = d + b - p + (0 - spent)
      BY <1>11, <1>12, <2>2, <2>4, Zenon DEF x, y
    <3>2. x + y + c = d + 0
      BY ONLY <1>3, <1>10, <2>1, <3>1
    <3> QED  BY <2>4, <3>2, Zenon DEF Staked
  <2> QED  BY <2>3, <2>4, Zenon
<1>16. SumFunction(held) + SumFunction(evm2) + c = SumFunction(evm) + Staked(tx)
  BY <1>13, <1>15, Zenon DEF x, y
<1>17. \A n \in Names : held[n] = Part(done, MessagesTo(done, n))
              + (IF n = tx.from THEN TxValue(tx) + MaxGasCost(tx) - fee - own ELSE 0)
              + (IF n = Self THEN fee ELSE 0)
  BY <1>2, <1>3, <1>4 DEF held, stake
<1> HIDE DEF a, b, d, p, x, y
<1> QED  BY <1>6, <1>8, <1>9, <1>13, <1>14, <1>16, <1>17, Zenon DEF done, own, fee, d

\* The miner's portion is a part of the gas fee.
LEMMA Portion ==
  ASSUME NEW tx, NEW minInclusion, NEW gasUsed, NEW success,
         Executes(tx, minInclusion, gasUsed, success),
         NEW ex, ex = Execution(tx, gasUsed, success), NEW miner,
         NEW inclusionFee \in (IF miner # Self /\ cfg.version >= 3 THEN 0..ex.fee ELSE {0}),
         NEW portion, portion = MinerPortion(tx, miner, gasUsed, inclusionFee)
  PROVE  /\ portion \in 0..ex.fee
         /\ cfg.version \in 1..2 => ex.fee >= portion + gasUsed * cfg.price
<1>1. /\ ex.fee = gasUsed * GasPrice(tx) /\ ex.fee \in Nat
      /\ gasUsed \in Nat /\ tx.maxFee \in Nat /\ MaxGasCost(tx) \in Nat
  BY Spent, Amounts DEF Executes, IsTx
<1>2. cfg.version \in Nat /\ cfg.price \in Nat /\ cfg.minerCut \in 0..HundredPercent
  BY SettingsOK, Zenon DEF Executes
<1>3. CASE miner = Self
  <2>1. ASSUME cfg.version \in 1..2 PROVE ex.fee >= gasUsed * cfg.price
    BY <1>1, <1>2, <2>1, Prices DEF Executes
  <2> QED  BY <1>1, <1>2, <1>3, <2>1 DEF MinerPortion
<1>4. CASE miner # Self /\ cfg.version >= 3
  BY <1>2, <1>4 DEF MinerPortion
<1>5. CASE miner # Self /\ cfg.version \in 1..2
  BY <1>1, <1>2, <1>5, Prices DEF MinerPortion, Executes
<1>6. CASE miner # Self /\ cfg.version < 1
  <2>1. (ex.fee * cfg.minerCut) \div HundredPercent \in 0..ex.fee
    <3>1. cfg.minerCut \in Nat /\ cfg.minerCut <= HundredPercent
      BY <1>2, LedgerAssumption
    <3> QED  BY <1>1, <3>1, LedgerAssumption, Divided, Zenon
  <2> QED  BY <1>1, <1>2, <1>6, <2>1, Prices DEF MinerPortion, Executes
<1> QED  BY ONLY <1>2, <1>3, <1>4, <1>5, <1>6

-----------------------------------------------------------------------------
(* Inline actions and the transfers among them *)

\* The tokens an inline action will move, and those of a sequence of actions.
AmountOf == [a \in Actions |-> IF a.type = "transfer" THEN a.quantity ELSE 0]
Flight(actions) == SumFunction(Weights(actions, AmountOf))

\* They are natural numbers.
LEMMA AmountsOf == \A a \in Actions : AmountOf[a] \in Nat
<1> SUFFICES ASSUME NEW a \in Actions PROVE AmountOf[a] \in Nat
  BY Zenon
<1> QED  BY Zenon DEF AmountOf, Actions

\* InFlight, of any sequence of inline actions.
LEMMA FlightIs ==
  ASSUME NEW u \in Seq(Actions)
  PROVE  SumFunction([i \in DOMAIN u |-> IF u[i].type = "transfer" THEN u[i].quantity ELSE 0])
           = Flight(u)
<1>1. Weights(u, AmountOf) =
        [i \in DOMAIN u |-> IF u[i].type = "transfer" THEN u[i].quantity ELSE 0]
  BY SeqFinite DEF Weights, AmountOf
<1> QED  BY <1>1, Zenon DEF Flight

\* It is a natural number.
LEMMA FlightNat ==
  ASSUME NEW u \in Seq(Actions)
  PROVE  Flight(u) \in Nat
BY AmountsOf, WeightsNat, Zenon DEF Flight

\* Actions sent before others add what they move.
LEMMA FlightConcat ==
  ASSUME NEW u \in Seq(Actions), NEW v \in Seq(Actions)
  PROVE  u \o v \in Seq(Actions) /\ Flight(u \o v) = Flight(u) + Flight(v)
BY AmountsOf, WeightsConcat DEF Flight

\* One action.
LEMMA FlightOne ==
  ASSUME NEW a \in Actions
  PROVE  <<a>> \in Seq(Actions) /\ Flight(<<a>>) = AmountOf[a]
BY AmountsOf, WeightsOne DEF Flight

\* The action at the head, and what runs after it.
LEMMA FlightTail ==
  ASSUME NEW u \in Seq(Actions), u # <<>>
  PROVE  /\ Head(u) \in Actions /\ Tail(u) \in Seq(Actions)
         /\ Flight(u) = AmountOf[Head(u)] + Flight(Tail(u))
BY AmountsOf, WeightsTail DEF Flight

\* Nothing is under way between two transactions.
LEMMA FlightNone == Flight(<<>>) = 0
BY WeightsNone, Zenon DEF Flight

-----------------------------------------------------------------------------
(* The steps of execute_tx *)

\* What the execution left at reserved addresses, and its messages.
Executed(ex) ==
  ex.held \in [Names -> Nat] /\ ex.done \in Seq(Movements) /\ ex.fee \in Nat

\* The egress loop credits the opened rows what their reserved addresses hold, and
\* the miner's portion only changes rows.
LEMMA EgressKeeps ==
  ASSUME NEW b, IsRows(b), Self \in DOMAIN b, NEW ex, Executed(ex),
         NEW miner \in DOMAIN b, NEW portion \in Nat, EgressAllowed(b, ex, portion)
  PROVE  /\ IsRows(Egress(b, ex, miner, portion))
         /\ DOMAIN Egress(b, ex, miner, portion) = DOMAIN b
         /\ SumFunction(Egress(b, ex, miner, portion))
              = SumFunction(b) + SumFunctionOnSet(ex.held, DOMAIN b)
         /\ SumFunctionOnSet(ex.held, DOMAIN b) \in Nat
         /\ \A n \in DOMAIN b : Egress(b, ex, miner, portion)[n] =
              b[n] + ex.held[n] + (IF n = miner THEN portion ELSE 0)
                                - (IF n = Self THEN portion ELSE 0)
<1> DEFINE f == ex.held
           c == [n \in DOMAIN b |-> b[n] + f[n]]
<1>1. \A n \in DOMAIN b : f[n] \in Nat /\ b[n] \in Nat
  BY RowsSum, Zenon DEF Executed
<1>2. c = [n \in DOMAIN b |-> b[n] + f[n]] /\ DOMAIN c = DOMAIN b
  BY Zenon
<1>3. Egress(b, ex, miner, portion) = IF portion = 0 THEN c ELSE Give(Take(c, Self, portion), miner, portion)
  BY Zenon DEF Egress
<1>4. b[Self] + f[Self] >= portion
  BY Zenon DEF EgressAllowed
<1> HIDE DEF f, c
<1>5. /\ IsRows(c) /\ SumFunction(c) = SumFunction(b) + SumFunctionOnSet(f, DOMAIN b)
      /\ SumFunctionOnSet(f, DOMAIN b) \in Nat
  BY <1>1, <1>2, AddRows, Zenon
<1>6. CASE portion = 0
  BY <1>1, <1>2, <1>3, <1>5, <1>6 DEF f
<1>7. CASE portion # 0
  <2> DEFINE t == Take(c, Self, portion)
             e == Give(t, miner, portion)
  <2>1. /\ IsRows(t) /\ SumFunction(t) = SumFunction(c) - portion /\ DOMAIN t = DOMAIN c
        /\ \A n \in DOMAIN c : t[n] = IF n = Self THEN c[Self] - portion ELSE c[n]
    BY <1>2, <1>4, <1>5, TakeRow DEF CanTake
  <2> HIDE DEF t
  <2>2. /\ IsRows(e) /\ SumFunction(e) = SumFunction(t) + portion /\ DOMAIN e = DOMAIN t
        /\ \A n \in DOMAIN t : e[n] = IF n = miner THEN t[miner] + portion ELSE t[n]
    BY <1>2, <2>1, GiveRow
  <2>3. Egress(b, ex, miner, portion) = e
    BY <1>3, <1>7, Zenon DEF t
  <2> HIDE DEF e
  <2>4. \A n \in DOMAIN b : e[n] = b[n] + f[n] + (IF n = miner THEN portion ELSE 0)
                                - (IF n = Self THEN portion ELSE 0)
    <3> TAKE n \in DOMAIN b
    <3> QED  BY <1>1, <1>2, <2>1, <2>2
  <2> QED  BY <1>2, <1>5, <2>1, <2>2, <2>3, <2>4, RowsSum DEF f
<1> QED  BY <1>6, <1>7, Zenon

\* The refund of the unused gas goes from the sender's row to the payer's.
LEMMA RefundKeeps ==
  ASSUME NEW b, IsRows(b), NEW tx, NEW ex, Excess(tx, ex) \in Nat, RefundAllowed(b, tx, ex)
  PROVE  /\ IsRows(Refund(b, tx, ex)) /\ SumFunction(Refund(b, tx, ex)) = SumFunction(b)
         /\ DOMAIN Refund(b, tx, ex) = DOMAIN b
         /\ \A n \in DOMAIN b : Refund(b, tx, ex)[n] =
              b[n] + (IF n = tx.payer THEN Excess(tx, ex) ELSE 0)
                   - (IF n = tx.from THEN Excess(tx, ex) ELSE 0)
<1> DEFINE x == Excess(tx, ex)
           t == Take(b, tx.from, x)
           e == Give(t, tx.payer, x)
<1>1. CanTake(b, tx.from, x) /\ tx.payer \in DOMAIN b /\ x \in Nat /\ tx.from \in DOMAIN b
  BY Zenon DEF RefundAllowed, CanTake
<1>2. Refund(b, tx, ex) = e
  BY Zenon DEF Refund
<1> HIDE DEF x
<1>3. /\ IsRows(t) /\ SumFunction(t) = SumFunction(b) - x /\ DOMAIN t = DOMAIN b
      /\ \A n \in DOMAIN b : t[n] = IF n = tx.from THEN b[tx.from] - x ELSE b[n]
  BY <1>1, TakeRow, Zenon
<1> HIDE DEF t
<1>4. /\ IsRows(e) /\ SumFunction(e) = SumFunction(t) + x /\ DOMAIN e = DOMAIN t
      /\ \A n \in DOMAIN t : e[n] = IF n = tx.payer THEN t[tx.payer] + x ELSE t[n]
  <2> DEFINE p == tx.payer
  <2>1. p \in DOMAIN t /\ x \in Nat /\ IsRows(t)
    BY <1>1, <1>3, Zenon
  <2> HIDE DEF p
  <2> QED  BY <2>1, GiveRow, Zenon DEF p
<1> HIDE DEF e
<1>5. \A n \in DOMAIN b : e[n] = b[n] + (IF n = tx.payer THEN x ELSE 0) - (IF n = tx.from THEN x ELSE 0)
  <2> TAKE n \in DOMAIN b
  <2> QED  BY <1>1, <1>3, <1>4, RowsSum
<1> QED  BY <1>1, <1>2, <1>3, <1>4, <1>5, RowsSum DEF x

\* The messages for n.
For(msgs, n) == {i \in DOMAIN msgs : msgs[i].recv = n}

\* The values of bridge messages go from the contract's row to their receivers'.
LEMMA DeliveryKeeps ==
  ASSUME NEW b, IsRows(b), Self \in DOMAIN b, NEW msgs \in Seq(Movements), DeliveryAllowed(b, msgs)
  PROVE  /\ IsRows(Delivery(b, msgs)) /\ SumFunction(Delivery(b, msgs)) = SumFunction(b)
         /\ DOMAIN Delivery(b, msgs) = DOMAIN b
         /\ \A n \in DOMAIN b :
              /\ Part(msgs, For(msgs, n)) \in Nat
              /\ Delivery(b, msgs)[n] = b[n] + Part(msgs, For(msgs, n))
                                        - (IF n = Self THEN Part(msgs, DOMAIN msgs) ELSE 0)
<1> DEFINE D == DOMAIN b
           f == [n \in D |-> Part(msgs, For(msgs, n))]
           g == [n \in D |-> For(msgs, n)]
           I == DOMAIN msgs
           all == Part(msgs, I)
           c == Credited(b, msgs)
<1>1. D \in SUBSET Names /\ IsFiniteSet(D)
  BY RowsSum, Zenon
<1>2. \A n \in D : g[n] \in SUBSET I /\ f[n] = Part(msgs, g[n])
  BY Zenon DEF For
<1>3. \A m \in D, n \in D : m # n => g[m] \cap g[n] = {}
  BY Zenon DEF For
<1>4. \A i : i \in I <=> \E n \in D : i \in g[n]
  BY Zenon DEF For, DeliveryAllowed
<1>5. c = [n \in D |-> b[n] + f[n]]
  BY Zenon DEF Credited, Total, Part, Value, For
<1>6. all \in Nat /\ \A n \in D : f[n] \in Nat
  BY PartNat, Zenon DEF For
<1>7. CanTake(c, Self, all) /\ Delivery(b, msgs) = Take(c, Self, all)
  BY Zenon DEF DeliveryAllowed, Delivery, Total, Part, Value
<1>8. \A n \in D : f[n] = Part(msgs, For(msgs, n))
  BY Zenon
<1> HIDE DEF f, g, c
<1>9. SumFunctionOnSet(f, D) = all
  <2>1. Splits(msgs, g, f, D, I)
    BY <1>2, <1>3, <1>4, Zenon DEF Splits
  <2> HIDE DEF D, I
  <2> QED  BY ONLY <1>1, <2>1, msgs \in Seq(Movements), PartParts DEF all
<1>10. IsRows(c) /\ SumFunction(c) = SumFunction(b) + SumFunctionOnSet(f, DOMAIN b)
  BY <1>5, <1>6, AddRows, Zenon
<1> HIDE DEF all
<1>11. /\ IsRows(Take(c, Self, all)) /\ SumFunction(Take(c, Self, all)) = SumFunction(c) - all
       /\ DOMAIN Take(c, Self, all) = DOMAIN c
       /\ \A n \in DOMAIN c : Take(c, Self, all)[n] = IF n = Self THEN c[Self] - all ELSE c[n]
  BY <1>6, <1>7, <1>10, TakeRow
<1>12. SumFunction(Take(c, Self, all)) = SumFunction(b)
  BY <1>6, <1>9, <1>10, <1>11, RowsSum
<1>13. \A n \in D : Take(c, Self, all)[n] = b[n] + f[n] - (IF n = Self THEN all ELSE 0)
  <2> TAKE n \in D
  <2> QED  BY <1>5, <1>6, <1>11, RowsSum
<1> QED  BY <1>5, <1>6, <1>7, <1>8, <1>11, <1>12, <1>13, Zenon DEF all
=============================================================================
