------------------------- MODULE BridgeTransactions -------------------------
(***************************************************************************)
(* What process_tx does to the rows, to the EVM and to the transfers under *)
(* way, and who pays for it, for any transaction and any messages of its   *)
(* execution.                                                              *)
(***************************************************************************)
EXTENDS BridgeLedgerProofs

-----------------------------------------------------------------------------
(* Transfers, bridge messages and handlers *)

\* The token transfers sent for accounts without a row move exactly what their
\* reserved addresses hold.
LEMMA TransfersKeep ==
  ASSUME NEW b, IsRows(b), NEW ex, Executed(ex), NEW portion, EgressAllowed(b, ex, portion)
  PROVE  /\ EgressTransfers(b, ex) \in Seq(Actions)
         /\ Flight(EgressTransfers(b, ex)) * MinAsset = SumFunctionOnSet(ex.held, Names \ DOMAIN b)
<1> DEFINE done == ex.done
           held == ex.held
           open == NotOpen(b, held)
           Mine(n) == {i \in DOMAIN done : IsCall(done[i]) /\ done[i].to = n}
           chosen == {i \in DOMAIN done : IsCall(done[i]) /\ done[i].to \in open}
           msgs == Select(done, chosen)
           w == [m \in Movements |-> m.value \div MinAsset]
           acts == EgressTransfers(b, ex)
<1>1. /\ held \in [Names -> Nat] /\ done \in Seq(Movements)
      /\ MinAsset \in Nat \ {0}
  BY LedgerAssumption, Zenon DEF Executed
<1>2. \A m \in Movements : m.value \in Nat /\ m.value \div MinAsset \in Nat /\ w[m] = m.value \div MinAsset
                             /\ (m.kind = "call" => m.to \in Names \cup EvmAddrs)
  <2>1. \A x \in Nat : x \div MinAsset \in Nat
    BY <1>1
  <2> QED  BY <2>1, Zenon DEF Movements
<1>3. chosen \in SUBSET DOMAIN done /\ \A m \in Movements : w[m] \in Int
  BY <1>2
<1>4. acts = [i \in DOMAIN msgs |->
                [type |-> "transfer", to |-> msgs[i].to, quantity |-> msgs[i].value \div MinAsset]]
  BY Zenon DEF EgressTransfers
<1> HIDE DEF w, acts
<1>5. /\ msgs \in Seq(Movements)
      /\ \A k \in DOMAIN msgs : \E i \in chosen : msgs[k] = done[i]
      /\ SumFunction(Weights(msgs, w)) = SumFunctionOnSet(Weights(done, w), chosen)
  <2> HIDE DEF done, chosen
  <2> QED  BY <1>1, <1>3, SelectFacts
<1>6. \A k \in DOMAIN msgs : msgs[k] \in Movements /\ msgs[k].to \in Names
  <2>1. \A i \in chosen : done[i].to \in Names
    BY Zenon DEF NotOpen
  <2> HIDE DEF msgs, chosen
  <2> QED  BY <1>5, <2>1, SeqFinite
<1> HIDE DEF msgs
<1>7. /\ \A k \in DOMAIN msgs : acts[k] \in Actions /\ AmountOf[acts[k]] = w[msgs[k]]
      /\ DOMAIN acts = DOMAIN msgs
  <2> SUFFICES ASSUME NEW k \in DOMAIN msgs
               PROVE  acts[k] \in Actions /\ AmountOf[acts[k]] = w[msgs[k]]
    BY <1>4, Zenon
  <2> QED  BY <1>2, <1>4, <1>6, Zenon DEF AmountOf, Actions
<1>8. acts \in Seq(Actions)
  BY <1>4, <1>5, <1>7, SeqFinite
<1>9. Flight(acts) = SumFunctionOnSet(Weights(done, w), chosen)
  BY <1>5, <1>7, Zenon DEF Flight, Weights
<1>10. \A n \in open : /\ \A i \in Mine(n) : done[i].value % MinAsset = 0
                       /\ Part(done, Mine(n)) = held[n]
  BY Zenon DEF EgressAllowed, Total, Part, Value
<1>11. \A i \in chosen : done[i] \in Movements /\ done[i].value \in Nat /\ done[i].value % MinAsset = 0
  BY <1>1, <1>2, <1>10, Values, Zenon
<1>12. Part(done, chosen) = MinAsset * SumFunctionOnSet(Weights(done, w), chosen)
  <2> DEFINE f == Weights(done, w)
             g == Value(done)
  <2>1. \A i \in chosen : f[i] \in Int /\ g[i] = MinAsset * f[i]
    <3> SUFFICES ASSUME NEW i \in chosen PROVE f[i] \in Int /\ g[i] = MinAsset * f[i]
      BY Zenon
    <3>1. \A x \in Nat : x % MinAsset = 0 => x \div MinAsset \in Int /\ x = MinAsset * (x \div MinAsset)
      BY <1>1
    <3> QED  BY <1>2, <1>11, <3>1, Zenon DEF Weights, Value
  <2> HIDE DEF f, g, chosen
  <2>2. IsFiniteSet(chosen)
    BY <1>1, <1>3, SeqFinite, FiniteSubset, Zenon
  <2>3. MinAsset \in Int
    BY <1>1
  <2>4. SumFunctionOnSet(g, chosen) = MinAsset * SumFunctionOnSet(f, chosen)
    BY ONLY <2>1, <2>2, <2>3, SumTimes
  <2> QED  BY <2>4, Zenon DEF f, g, Part
<1>13. IsFiniteSet(Names \ DOMAIN b) /\ open \in SUBSET (Names \ DOMAIN b) /\ IsFiniteSet(open)
  BY NamesFinite, FiniteSubset, Zenon DEF NotOpen
<1>14. SumFunctionOnSet(held, open) = Part(done, chosen)
  <2> DEFINE g == [n \in open |-> Mine(n)]
  <2>1. \A n \in open : g[n] \in SUBSET DOMAIN done
    BY Zenon
  <2>2. \A m \in open, n \in open : m # n => g[m] \cap g[n] = {}
    BY Zenon
  <2>3. \A n \in open : held[n] = Part(done, g[n])
    BY <1>10, Zenon
  <2>4. \A i : i \in chosen <=> \E n \in open : i \in g[n]
    BY Zenon
  <2>5. done \in Seq(Movements) /\ IsFiniteSet(open)
    BY <1>1, <1>13, Zenon
  <2> HIDE DEF g, chosen, open, held, done
  <2>6. Splits(done, g, held, open, chosen)
    BY <2>1, <2>2, <2>3, <2>4, Zenon DEF Splits
  <2> QED  BY ONLY <2>5, <2>6, PartParts
<1>15. SumFunctionOnSet(held, Names \ DOMAIN b) = SumFunctionOnSet(held, open)
  <2> DEFINE rest == (Names \ DOMAIN b) \ open
  <2>1. IsFiniteSet(rest) /\ \A n \in rest : held[n] = 0
    BY <1>1, <1>13, FiniteSubset DEF NotOpen
  <2>2. \A n \in open \cup rest : held[n] \in Int
    BY <1>1, <1>13
  <2>3. open \cap rest = {} /\ open \cup rest = Names \ DOMAIN b
    BY <1>13, Zenon
  <2> HIDE DEF rest, open
  <2>4. SumFunctionOnSet(held, open \cup rest) = SumFunctionOnSet(held, open) + SumFunctionOnSet(held, rest)
    BY <1>13, <2>1, <2>2, <2>3, SumUnion, Zenon
  <2> QED  BY <1>13, <2>1, <2>2, <2>3, <2>4, SumZero, SumInt
<1> QED  BY <1>1, <1>8, <1>9, <1>12, <1>14, <1>15, FlightNat DEF acts

\* The bridge messages are among the messages to the contract's address, so they
\* carry no more than that address received.
LEMMA BridgeMessagesFacts ==
  ASSUME NEW ex, ex.done \in Seq(Movements)
  PROVE  /\ BridgeMessages(ex) \in Seq(Movements)
         /\ \A k \in DOMAIN BridgeMessages(ex) :
              \E i \in DOMAIN ex.done : IsBridgeMessage(ex.done[i]) /\ BridgeMessages(ex)[k] = ex.done[i]
         /\ Part(BridgeMessages(ex), DOMAIN BridgeMessages(ex)) <= Part(ex.done, MessagesTo(ex.done, Self))
<1> DEFINE done == ex.done
           chosen == {i \in DOMAIN done : IsBridgeMessage(done[i])}
           msgs == Select(done, chosen)
           w == [m \in Movements |-> m.value]
<1>1. BridgeMessages(ex) = msgs
  BY Zenon DEF BridgeMessages
<1>2. chosen \in SUBSET DOMAIN done /\ \A m \in Movements : w[m] \in Int /\ w[m] = m.value
  BY DEF Movements
<1>3. /\ msgs \in Seq(Movements)
      /\ \A k \in DOMAIN msgs : \E i \in chosen : msgs[k] = done[i]
      /\ SumFunction(Weights(msgs, w)) = SumFunctionOnSet(Weights(done, w), chosen)
  <2> HIDE DEF done, chosen, w
  <2> QED  BY <1>2, SelectFacts DEF done
<1> HIDE DEF msgs, w
<1>4. \A s \in Seq(Movements) : Weights(s, w) = Value(s)
  <2> TAKE s \in Seq(Movements)
  <2> QED  BY <1>2, Values, Zenon DEF Weights, Value
<1>5. MessagesTo(done, Self) \in SUBSET DOMAIN done /\ chosen \in SUBSET MessagesTo(done, Self)
  BY Zenon DEF MessagesTo, IsBridgeMessage, IsCall
<1>6. Part(done, chosen) <= Part(done, MessagesTo(done, Self))
  <2> HIDE DEF chosen
  <2> QED  BY <1>5, PartLeq, Zenon
<1> QED  BY <1>1, <1>3, <1>4, <1>6, Zenon DEF Part, SumFunction, Value

\* The calls of the receivers' handlers move no tokens.
LEMMA HandlersKeep ==
  ASSUME NEW b, IsRows(b), NEW msgs \in Seq(Movements), DeliveryAllowed(b, msgs)
  PROVE  Handlers(msgs) \in Seq(Actions) /\ Flight(Handlers(msgs)) = 0
<1> DEFINE acts == Handlers(msgs)
<1>1. acts = [i \in DOMAIN msgs |-> [type |-> "onbridgemsg", to |-> msgs[i].recv]]
  BY Zenon DEF Handlers
<1> HIDE DEF acts
<1>2. DOMAIN acts = DOMAIN msgs /\ \A i \in DOMAIN msgs : acts[i] \in Actions /\ AmountOf[acts[i]] = 0
  <2> SUFFICES ASSUME NEW i \in DOMAIN msgs PROVE acts[i] \in Actions /\ AmountOf[acts[i]] = 0
    BY <1>1, Zenon
  <2> QED  BY <1>1, RowsSum, Zenon DEF AmountOf, Actions, DeliveryAllowed
<1>3. Flight(acts) = 0
  BY <1>2, SeqFinite, SumZero, Zenon DEF Flight, SumFunction, Weights
<1> QED  BY <1>1, <1>2, <1>3, SeqFinite DEF acts

-----------------------------------------------------------------------------
(* The sums that process_tx keeps *)

Incomes == [gas : Nat, ingress : Nat]

\* Before the execution the stake is taken from the row of the sender, or of the
\* payer and the sender.
LEMMA IngressKeeps ==
  ASSUME NEW b, IsRows(b), NEW tx, IsTx(tx), tx.from \in Names, IngressAllowed(b, tx)
  PROVE  /\ IsRows(Ingress(b, tx)) /\ SumFunction(Ingress(b, tx)) = SumFunction(b) - Staked(tx)
         /\ DOMAIN Ingress(b, tx) = DOMAIN b
         /\ \A n \in DOMAIN b : Ingress(b, tx)[n] =
              b[n] - (IF n = tx.from THEN TxValue(tx) ELSE 0)
                   - (IF n = (IF tx.payer = None THEN tx.from ELSE tx.payer) THEN MaxGasCost(tx) ELSE 0)
<1> DEFINE from == tx.from
           payer == tx.payer
           v == TxValue(tx)
           g == MaxGasCost(tx)
<1>1. v \in Nat /\ g \in Nat /\ v + g \in Nat /\ Staked(tx) = v + g
  BY Amounts, Zenon DEF Staked
<1>2. CASE payer = None
  <2> HIDE DEF from, v, g
  <2> QED  BY <1>1, <1>2, RowsSum, TakeRow DEF from, v, g, IngressAllowed, Ingress
<1>3. CASE payer # None
  <2> DEFINE t == Take(b, payer, g)
  <2>1. /\ CanTake(b, payer, g) /\ (v > 0 => CanTake(t, from, v))
        /\ Ingress(b, tx) = IF v = 0 THEN t ELSE Take(t, from, v)
    BY <1>3, Zenon DEF IngressAllowed, Ingress
  <2> HIDE DEF from, payer, v, g
  <2>2. /\ IsRows(t) /\ SumFunction(t) = SumFunction(b) - g /\ DOMAIN t = DOMAIN b
        /\ \A m \in DOMAIN b : t[m] = IF m = payer THEN b[payer] - g ELSE b[m]
    BY <1>1, <2>1, TakeRow
  <2> HIDE DEF t
  <2>3. CASE v = 0
    BY <1>1, <1>3, <2>1, <2>2, <2>3, RowsSum DEF from, payer, v, g
  <2>4. CASE v # 0
    <3> DEFINE u == Take(t, from, v)
    <3>1. Ingress(b, tx) = u /\ CanTake(t, from, v)
      BY <1>1, <2>1, <2>4
    <3>2. /\ IsRows(u) /\ SumFunction(u) = SumFunction(t) - v /\ DOMAIN u = DOMAIN t
          /\ \A m \in DOMAIN t : u[m] = IF m = from THEN t[from] - v ELSE t[m]
      BY <1>1, <2>2, <3>1, TakeRow
    <3> HIDE DEF u
    <3>3. \A n \in DOMAIN b : u[n] = b[n] - (IF n = from THEN v ELSE 0) - (IF n = payer THEN g ELSE 0)
      <4> TAKE n \in DOMAIN b
      <4> QED  BY <1>1, <2>2, <3>2, RowsSum
    <3> QED  BY <1>1, <1>3, <2>2, <3>1, <3>2, <3>3, RowsSum DEF from, payer, v, g
  <2> QED  BY <2>3, <2>4, Zenon
<1> QED  BY <1>2, <1>3, Zenon

\* What a successful process_tx does to rows b, the statistics and what follows.
Kept(b, rest) ==
  /\ IsRows(balances') /\ inevm' \in Nat /\ evm' \in [EvmAddrs -> Nat] /\ burned' \in Nat
  /\ income' \in Incomes /\ inline' \in Seq(Actions)
  /\ SumFunction(balances') + inevm' + Flight(inline') * MinAsset
       = SumFunction(b) + inevm + Flight(rest) * MinAsset
  /\ inevm' + (SumFunction(evm) + burned) = inevm + (SumFunction(evm') + burned')

\* The statistics stay natural numbers.
LEMMA SettleIncome ==
  ASSUME NEW tx, NEW ex, ex.gas \in Nat, ex.fee \in Nat, NEW portion \in 0..ex.fee, cfg \in Configs,
         NEW inc \in Incomes,
         income' = [inc EXCEPT !.gas = @ + GasIncome(tx, ex, portion)]
  PROVE  income' \in Incomes
BY SettingsOK DEF Incomes, GasIncome

\* What execute_tx does after the execution moves money between rows, the EVM and
\* transfers, and makes or loses none.
LEMMA SettleKeeps ==
  ASSUME NEW tx, NEW minInclusion, NEW gasUsed, NEW success,
         Executes(tx, minInclusion, gasUsed, success),
         NEW ex, ex = Execution(tx, gasUsed, success), \A e \in EvmAddrs : ex.evm[e] >= 0,
         NEW portion \in 0..ex.fee,
         NEW b, IsRows(b), Self \in DOMAIN b, NEW miner \in DOMAIN b,
         NEW inc \in Incomes, NEW rest \in Seq(Actions), inevm \in Nat, burned \in Nat,
         Settle(b, inc, tx, miner, ex, portion, rest)
  PROVE  /\ IsRows(balances') /\ inevm' \in Nat /\ evm' \in [EvmAddrs -> Nat] /\ burned' \in Nat
         /\ income' \in Incomes /\ inline' \in Seq(Actions)
         /\ SumFunction(balances') + inevm' + Flight(inline') * MinAsset
              = SumFunction(b) + inevm + Staked(tx) + Flight(rest) * MinAsset
         /\ inevm' + (SumFunction(evm) + burned) = inevm + (SumFunction(evm') + burned')
<1> DEFINE b1 == Egress(b, ex, miner, portion)
           b2 == IF tx.payer = None THEN b1 ELSE Refund(b1, tx, ex)
           msgs == BridgeMessages(ex)
           acts == EgressTransfers(b, ex)
           hand == Handlers(msgs)
           D == DOMAIN b
           S(r) == SumFunction(r)
           held == ex.held
           SH(d) == SumFunctionOnSet(held, d)
<1>1. /\ ex.done \in Seq(Movements) /\ ex.gas \in Nat /\ ex.fee \in Nat /\ portion \in Nat
      /\ ex.fee \in 0..MaxGasCost(tx) /\ MaxGasCost(tx) \in Nat
  BY Spent, Amounts DEF Executes
<1>2. /\ held \in [Names -> Nat] /\ ex.evm \in [EvmAddrs -> Nat] /\ ex.burned \in Nat
      /\ S(held) \in Nat /\ S(ex.evm) \in Nat /\ S(evm) \in Nat
      /\ S(held) + S(ex.evm) + ex.burned = S(evm) + Staked(tx)
  BY ExecutionKeeps
<1>3. Executed(ex)
  BY <1>1, <1>2, Zenon DEF Executed
<1>4. /\ EgressAllowed(b, ex, portion)
      /\ inevm + Staked(tx) >= S(held)
      /\ tx.payer # None => RefundAllowed(b1, tx, ex)
      /\ DeliveryAllowed(b2, msgs)
      /\ balances' = Delivery(b2, msgs)
      /\ inevm' = inevm + Staked(tx) - S(held)
      /\ evm' = ex.evm
      /\ burned' = burned + ex.burned
      /\ income' = [inc EXCEPT !.gas = @ + GasIncome(tx, ex, portion)]
      /\ inline' = (acts \o hand) \o rest
  BY Zenon DEF Settle, TotalEgress, Continue
<1>5. IsRows(b1) /\ DOMAIN b1 = D /\ S(b1) = S(b) + SH(D) /\ SH(D) \in Nat
  BY <1>1, <1>3, <1>4, EgressKeeps
<1> HIDE DEF b1
<1>6. IsRows(b2) /\ DOMAIN b2 = D /\ S(b2) = S(b1)
  <2>1. CASE tx.payer = None
    BY <1>5, <2>1, Zenon
  <2>2. CASE tx.payer # None
    <3>1. Excess(tx, ex) \in Nat
      BY <1>1 DEF Excess
    <3> QED  BY <1>4, <1>5, <2>2, <3>1, RefundKeeps
  <2> QED  BY <2>1, <2>2, Zenon
<1> HIDE DEF b2
<1>7. msgs \in Seq(Movements)
  BY <1>1, BridgeMessagesFacts, Zenon
<1> HIDE DEF msgs
<1>8. IsRows(balances') /\ S(balances') = S(b2)
  BY <1>4, <1>6, <1>7, DeliveryKeeps, Zenon
<1>9. acts \in Seq(Actions) /\ Flight(acts) * MinAsset = SH(Names \ D)
  BY <1>3, <1>4, TransfersKeep, Zenon
<1>10. hand \in Seq(Actions) /\ Flight(hand) = 0
  BY <1>4, <1>6, <1>7, HandlersKeep, Zenon
<1> HIDE DEF acts, hand
<1>11. inline' \in Seq(Actions) /\ Flight(inline') = Flight(acts) + Flight(hand) + Flight(rest)
  <2>1. acts \o hand \in Seq(Actions) /\ Flight(acts \o hand) = Flight(acts) + Flight(hand)
    BY <1>9, <1>10, FlightConcat, Zenon
  <2> QED  BY <1>4, <2>1, FlightConcat, Zenon
<1>12. SH(D) + SH(Names \ D) = S(held) /\ SH(Names \ D) \in Nat
  <2>1. D \in SUBSET Names /\ IsFiniteSet(D) /\ IsFiniteSet(Names \ D) /\ DOMAIN held = Names
    BY <1>2, RowsSum, NamesFinite, FiniteSubset, Zenon
  <2> DEFINE E == Names \ D
  <2>2. \A n \in D \cup E : held[n] \in Nat
    BY <1>2, <2>1, Zenon
  <2>3. D \cap E = {} /\ D \cup E = Names
    BY <2>1, Zenon
  <2> HIDE DEF E, D, held
  <2>4. IsFiniteSet(E)
    BY <2>1, Zenon DEF E
  <2>5. SumFunctionOnSet(held, D \cup E) = SumFunctionOnSet(held, D) + SumFunctionOnSet(held, E)
    <3>1. \A n \in D \cup E : held[n] \in Int
      BY ONLY <2>2
    <3> QED  BY ONLY <2>1, <2>3, <2>4, <3>1, SumUnion, Zenon
  <2>6. SumFunctionOnSet(held, E) \in Nat
    BY ONLY <2>2, <2>4, SumNat, Zenon
  <2> QED  BY <2>1, <2>3, <2>5, <2>6, Zenon DEF E, SumFunction
<1>13. Flight(acts) \in Nat /\ Flight(rest) \in Nat /\ Flight(hand) = 0 /\ MinAsset \in Nat /\ S(b) \in Nat /\ Staked(tx) \in Nat
  BY <1>9, <1>10, FlightNat, RowsSum, LedgerAssumption, Amounts, Zenon DEF Executes
<1>14. Flight(inline') * MinAsset = SH(Names \ D) + Flight(rest) * MinAsset /\ Flight(rest) * MinAsset \in Nat
  BY <1>9, <1>10, <1>11, <1>13
<1> HIDE DEF SH
<1>15. S(balances') + inevm' + Flight(inline') * MinAsset = S(b) + inevm + Staked(tx) + Flight(rest) * MinAsset
  <2> DEFINE p == SH(D)
             q == SH(Names \ D)
             h == S(held)
             r == Flight(rest) * MinAsset
  <2>1. /\ p \in Nat /\ q \in Nat /\ p + q = h /\ h \in Nat /\ r \in Nat
        /\ S(balances') = S(b) + p /\ inevm' = inevm + Staked(tx) - h /\ Flight(inline') * MinAsset = q + r
    BY <1>2, <1>4, <1>5, <1>6, <1>8, <1>12, <1>14, Zenon
  <2> HIDE DEF p, q, h, S
  <2>2. S(b) + p + (inevm + Staked(tx) - h) + (q + r) = S(b) + inevm + Staked(tx) + r
    <3>1. r \in Nat
      BY <2>1, Zenon
    <3>2. Staked(tx) \in Nat /\ p \in Nat /\ q \in Nat /\ h = p + q
      BY <1>13, <2>1, Zenon
    <3> DEFINE u == S(b)
               k == Staked(tx)
    <3> HIDE DEF r, u, k
    <3>3. u + p + (inevm + k - h) + (q + r) = u + inevm + k + r
      BY <1>13, <3>1, <3>2 DEF u, k, S
    <3> QED  BY <3>3, Zenon DEF u, k
  <2> QED  BY <2>1, <2>2, Zenon
<1>16. inevm' \in Nat
  <2> DEFINE h == S(held)
             k == Staked(tx)
  <2>1. h \in Nat /\ k \in Nat /\ inevm + k >= h /\ inevm' = inevm + k - h
    BY <1>2, <1>4, <1>13, Zenon
  <2> HIDE DEF h, k
  <2> QED  BY <2>1
<1>17. evm' \in [EvmAddrs -> Nat] /\ burned' \in Nat
  BY <1>2, <1>4
<1>18. inevm' + (S(evm) + burned) = inevm + (S(evm') + burned')
  <2> DEFINE h == S(held)
             k == Staked(tx)
             e == S(evm)
             d == S(ex.evm)
             x == ex.burned
  <2>1. /\ h \in Nat /\ k \in Nat /\ e \in Nat /\ d \in Nat /\ x \in Nat
        /\ h + d + x = e + k /\ inevm' = inevm + k - h /\ burned' = burned + x
    BY <1>2, <1>4, <1>13, Zenon
  <2> HIDE DEF h, k, e, d, x
  <2>2. inevm' + (e + burned) = inevm + (d + burned')
    BY <2>1
  <2> QED  BY <1>4, <2>2, Zenon DEF e, d
<1>19. income' \in Incomes
  BY <1>1, <1>4, SettleIncome, Zenon DEF Executes
<1> QED  BY <1>8, <1>11, <1>15, <1>16, <1>17, <1>18, <1>19, Zenon

\* So does process_tx as a whole.
LEMMA ProcessTxKeeps ==
  ASSUME NEW b, IsRows(b), Self \in DOMAIN b, NEW inc \in Incomes, NEW rest \in Seq(Actions),
         NEW tx, IsTx(tx), NEW miner, NEW minInclusion,
         cfg \in Configs, evm \in [EvmAddrs -> Nat], inevm \in Nat, burned \in Nat,
         ProcessTx(b, inc, tx, miner, minInclusion, rest)
  PROVE  Kept(b, rest)
<1> DEFINE b0 == IF tx.from \in Names THEN Ingress(b, tx) ELSE b
<1>1. PICK gasUsed \in 1..tx.gas, success \in BOOLEAN :
        /\ \A e \in EvmAddrs : Execution(tx, gasUsed, success).evm[e] >= 0
        /\ \E inclusionFee \in IF miner # Self /\ cfg.version >= 3
                               THEN 0..Execution(tx, gasUsed, success).fee ELSE {0} :
              Settle(b0, inc, tx, miner, Execution(tx, gasUsed, success),
                     MinerPortion(tx, miner, gasUsed, inclusionFee), rest)
  BY Zenon DEF ProcessTx
<1> DEFINE ex == Execution(tx, gasUsed, success)
<1>2. PICK inclusionFee \in IF miner # Self /\ cfg.version >= 3 THEN 0..ex.fee ELSE {0} :
         Settle(b0, inc, tx, miner, ex, MinerPortion(tx, miner, gasUsed, inclusionFee), rest)
  BY <1>1, Zenon
<1> DEFINE portion == MinerPortion(tx, miner, gasUsed, inclusionFee)
<1>3. portion \in 0..ex.fee
  <2> HIDE DEF ex, portion
  <2> QED  BY <1>2, Portion DEF ex, portion, Executes, ProcessTx
<1>4. IsRows(b0) /\ DOMAIN b0 = DOMAIN b /\ SumFunction(b0) = SumFunction(b) - Staked(tx)
  <2>1. CASE tx.from \in Names
    BY <2>1, IngressKeeps DEF ProcessTx
  <2>2. CASE tx.from \notin Names
    BY <2>2, RowsSum DEF Staked
  <2> QED  BY <2>1, <2>2, Zenon
<1>5. Settle(b0, inc, tx, miner, ex, portion, rest)
  BY <1>2, Zenon
<1>5a. (\A e \in EvmAddrs : ex.evm[e] >= 0) /\ ex = Execution(tx, gasUsed, success)
  BY <1>1, Zenon
<1>5b. Executes(tx, minInclusion, gasUsed, success) /\ miner \in DOMAIN b0
  BY <1>4, Zenon DEF ProcessTx, Executes
<1> HIDE DEF b0, ex, portion
<1>6. SumFunction(b0) + inevm + Staked(tx) + Flight(rest) * MinAsset = SumFunction(b) + inevm + Flight(rest) * MinAsset
  BY <1>4, RowsSum, Amounts, FlightNat, LedgerAssumption
<1>7. Self \in DOMAIN b0
  BY <1>4, Zenon
<1>8. /\ IsRows(balances') /\ inevm' \in Nat /\ evm' \in [EvmAddrs -> Nat] /\ burned' \in Nat
      /\ income' \in Incomes /\ inline' \in Seq(Actions)
      /\ SumFunction(balances') + inevm' + Flight(inline') * MinAsset
           = SumFunction(b0) + inevm + Staked(tx) + Flight(rest) * MinAsset
      /\ inevm' + (SumFunction(evm) + burned) = inevm + (SumFunction(evm') + burned')
  BY <1>3, <1>4, <1>5, <1>5a, <1>5b, <1>7, SettleKeeps, Zenon
<1> QED  BY <1>6, <1>8, Zenon DEF Kept

-----------------------------------------------------------------------------
(* Who pays *)

\* What the rows gain at least once a transaction's stake has been taken: the
\* contract the gas fee without the miner's portion, and a sender that pays
\* its own gas what it did not use.
LEMMA SettleGives ==
  ASSUME NEW tx, NEW minInclusion, NEW gasUsed, NEW success,
         Executes(tx, minInclusion, gasUsed, success),
         NEW ex, ex = Execution(tx, gasUsed, success), \A e \in EvmAddrs : ex.evm[e] >= 0,
         NEW portion \in 0..ex.fee,
         NEW b, IsRows(b), Self \in DOMAIN b, NEW miner \in DOMAIN b,
         NEW inc, NEW rest, Settle(b, inc, tx, miner, ex, portion, rest)
  PROVE  /\ IsRows(balances') /\ DOMAIN balances' = DOMAIN b
         /\ \A n \in DOMAIN b : balances'[n] >= b[n]
              + (IF n = Self THEN ex.fee - portion ELSE 0)
              + (IF n = tx.from /\ tx.payer = None THEN MaxGasCost(tx) - ex.fee ELSE 0)
<1> DEFINE b1 == Egress(b, ex, miner, portion)
           b2 == IF tx.payer = None THEN b1 ELSE Refund(b1, tx, ex)
           msgs == BridgeMessages(ex)
           D == DOMAIN b
           v == TxValue(tx)
           g == MaxGasCost(tx)
           fee == ex.fee
           all == Part(ex.done, SenderPays(ex.done))
           to == Part(ex.done, MessagesTo(ex.done, Self))
           out == Part(msgs, DOMAIN msgs)
           x == g - fee
<1>1. /\ ex.done \in Seq(Movements) /\ fee \in Nat /\ portion \in 0..fee /\ fee \in 0..g
      /\ v \in Nat /\ g \in Nat /\ all \in 0..v
  BY Spent, Amounts DEF Executes
<1>2. /\ ex.held \in [Names -> Nat]
      /\ \A n \in Names : ex.held[n] = Part(ex.done, MessagesTo(ex.done, n))
            + (IF n = tx.from THEN v + g - fee - all ELSE 0)
            + (IF n = Self THEN fee ELSE 0)
  BY ExecutionKeeps
<1>3. /\ EgressAllowed(b, ex, portion)
      /\ tx.payer # None => RefundAllowed(b1, tx, ex)
      /\ DeliveryAllowed(b2, msgs) /\ balances' = Delivery(b2, msgs)
  BY Zenon DEF Settle
<1>4. /\ IsRows(b1) /\ DOMAIN b1 = D
      /\ \A n \in D : b1[n] = b[n] + ex.held[n] + (IF n = miner THEN portion ELSE 0)
                                - (IF n = Self THEN portion ELSE 0)
  BY <1>1, <1>2, <1>3, EgressKeeps DEF Executed
<1>5. x \in Nat /\ Excess(tx, ex) = x
  BY <1>1 DEF Excess
<1> HIDE DEF b1, x
<1>6. /\ IsRows(b2) /\ DOMAIN b2 = D
      /\ \A n \in D : b2[n] >= b1[n] - (IF n = tx.from /\ tx.payer # None THEN x ELSE 0)
      /\ \A n \in D : b2[n] \in Nat
  <2>1. CASE tx.payer = None
    <3>1. b2 = b1
      BY <2>1, Zenon
    <3> HIDE DEF b2
    <3> QED  BY <1>4, <1>5, <2>1, <3>1, RowsSum
  <2>2. CASE tx.payer # None
    <3>1. b2 = Refund(b1, tx, ex)
      BY <2>2, Zenon
    <3> HIDE DEF b2
    <3> QED  BY <1>3, <1>4, <1>5, <2>2, <3>1, RefundKeeps, RowsSum
  <2> QED  BY <2>1, <2>2, Zenon
<1> HIDE DEF b2
<1>7. msgs \in Seq(Movements) /\ out <= to
  BY <1>1, BridgeMessagesFacts, Zenon
<1>8. out \in Nat /\ \A n \in Names : Part(ex.done, MessagesTo(ex.done, n)) \in Nat
  BY <1>1, <1>7, PartNat, Zenon DEF MessagesTo
<1> HIDE DEF msgs
<1>9. /\ IsRows(balances') /\ DOMAIN balances' = D
       /\ \A n \in D : /\ Part(msgs, For(msgs, n)) \in Nat
                       /\ balances'[n] = b2[n] + Part(msgs, For(msgs, n)) - (IF n = Self THEN out ELSE 0)
  BY <1>3, <1>6, <1>7, DeliveryKeeps
<1>10. ASSUME NEW n \in D
       PROVE  balances'[n] >= b[n] + (IF n = Self THEN fee - portion ELSE 0)
                + (IF n = tx.from /\ tx.payer = None THEN g - fee ELSE 0)
  <2> DEFINE h == ex.held[n]
             tn == Part(ex.done, MessagesTo(ex.done, n))
             fn == Part(msgs, For(msgs, n))
  <2>1. /\ h = tn + (IF n = tx.from THEN v + g - fee - all ELSE 0) + (IF n = Self THEN fee ELSE 0)
        /\ tn \in Nat
    BY <1>2, <1>8, RowsSum, Zenon
  <2>2. b1[n] = b[n] + h + (IF n = miner THEN portion ELSE 0) - (IF n = Self THEN portion ELSE 0)
    BY <1>4, Zenon
  <2>3. /\ b2[n] >= b1[n] - (IF n = tx.from /\ tx.payer # None THEN x ELSE 0)
        /\ b2[n] \in Nat
    BY <1>6, Zenon
  <2>4. balances'[n] = b2[n] + fn - (IF n = Self THEN out ELSE 0) /\ fn \in Nat
    BY <1>9, Zenon
  <2>5. n = Self => out <= tn
    BY <1>7, Zenon
  <2>6. b[n] \in Nat
    BY RowsSum, Zenon
  <2> HIDE DEF h, tn, fn, v, g, fee, all, out, to
  <2>7. b1[n] \in Int
    BY <1>1, <2>1, <2>2, <2>6
  <2>8. b1[n] >= b[n] + tn + (IF n = tx.from THEN g - fee ELSE 0) + (IF n = Self THEN fee - portion ELSE 0)
    BY <1>1, <2>1, <2>2, <2>6
  <2>9. b2[n] >= b[n] + tn + (IF n = tx.from /\ tx.payer = None THEN g - fee ELSE 0)
                    + (IF n = Self THEN fee - portion ELSE 0)
    BY <1>1, <2>1, <2>3, <2>6, <2>7, <2>8 DEF x
  <2> QED  BY <1>1, <1>8, <2>1, <2>3, <2>4, <2>5, <2>6, <2>9
<1> QED  BY <1>9, <1>10, Zenon

\* What process_tx debits rows b by, and what it records as income.
Pays(b, inc, tx) ==
  /\ DOMAIN balances' = DOMAIN b
  /\ \A n \in DOMAIN b : b[n] - balances'[n] <= Spends(tx)[n]
  /\ tx.from = Self /\ tx.payer = None => b[Self] - balances'[Self] <= TxValue(tx)
  /\ income'.ingress = inc.ingress
  /\ cfg.version < 3 => balances'[Self] - b[Self] + Spends(tx)[Self] >= income'.gas - inc.gas
  /\ tx.from = Self => income'.gas = inc.gas

\* What a transaction may debit is a natural number.
LEMMA SpendsNat ==
  ASSUME NEW tx, IsTx(tx)
  PROVE  /\ Spends(tx) \in [Names -> Nat]
         /\ \A n \in Names : Spends(tx)[n] = (IF n = tx.from THEN TxValue(tx) ELSE 0)
              + (IF n = (IF tx.payer = None THEN tx.from ELSE tx.payer) THEN MaxGasCost(tx) ELSE 0)
BY Amounts DEF Spends

\* process_tx debits no row more than Spends tells and records no more income
\* than it leaves on the contract's row.
LEMMA ProcessTxPays ==
  ASSUME NEW b, IsRows(b), Self \in DOMAIN b, NEW inc \in Incomes, NEW rest,
         NEW tx, IsTx(tx), NEW miner, NEW minInclusion, tx.from \in Names => miner = Self,
         cfg \in Configs, evm \in [EvmAddrs -> Nat],
         ProcessTx(b, inc, tx, miner, minInclusion, rest)
  PROVE  Pays(b, inc, tx)
<1> DEFINE b0 == IF tx.from \in Names THEN Ingress(b, tx) ELSE b
<1>1. PICK gasUsed \in 1..tx.gas, success \in BOOLEAN :
        /\ \A e \in EvmAddrs : Execution(tx, gasUsed, success).evm[e] >= 0
        /\ \E inclusionFee \in IF miner # Self /\ cfg.version >= 3
                               THEN 0..Execution(tx, gasUsed, success).fee ELSE {0} :
              Settle(b0, inc, tx, miner, Execution(tx, gasUsed, success),
                     MinerPortion(tx, miner, gasUsed, inclusionFee), rest)
  BY Zenon DEF ProcessTx
<1> DEFINE ex == Execution(tx, gasUsed, success)
<1>2. PICK inclusionFee \in IF miner # Self /\ cfg.version >= 3 THEN 0..ex.fee ELSE {0} :
         Settle(b0, inc, tx, miner, ex, MinerPortion(tx, miner, gasUsed, inclusionFee), rest)
  BY <1>1, Zenon
<1> DEFINE portion == MinerPortion(tx, miner, gasUsed, inclusionFee)
<1>3. /\ portion \in 0..ex.fee
      /\ cfg.version \in 1..2 => ex.fee >= portion + gasUsed * cfg.price
  <2> HIDE DEF ex, portion
  <2> QED  BY <1>2, Portion DEF ex, portion, Executes, ProcessTx
<1>4. miner = Self => portion = 0
  BY Zenon DEF MinerPortion
<1>5. Settle(b0, inc, tx, miner, ex, portion, rest)
  BY <1>2, Zenon
<1> DEFINE v == TxValue(tx)
           g == MaxGasCost(tx)
           payer == IF tx.payer = None THEN tx.from ELSE tx.payer
<1>6. v \in Nat /\ g \in Nat
  BY Amounts, Zenon
<1>7. /\ ex.gas = gasUsed /\ ex.fee \in 0..g /\ ex.fee \in Nat
  BY <1>6, Spent DEF Executes, ProcessTx
<1>8. /\ IsRows(b0) /\ DOMAIN b0 = DOMAIN b
       /\ \A n \in DOMAIN b : b0[n] = b[n] - (IF n = tx.from THEN v ELSE 0) - (IF n = payer THEN g ELSE 0)
  <2>1. CASE tx.from \in Names
    <3>1. IngressAllowed(b, tx) /\ b0 = Ingress(b, tx)
      BY <2>1, Zenon DEF ProcessTx
    <3> HIDE DEF b0
    <3> QED  BY <2>1, <3>1, IngressKeeps, Zenon
  <2>2. CASE tx.from \notin Names
    <3>1. b0 = b /\ payer = tx.from
      BY <2>2, Zenon DEF IsTx
    <3>2. DOMAIN b \in SUBSET Names /\ \A n \in DOMAIN b : b[n] \in Nat
      BY RowsSum, Zenon
    <3> HIDE DEF b0, payer
    <3>3. \A n \in DOMAIN b : n # tx.from /\ n # payer /\ b[n] = b[n] - 0 - 0
      BY ONLY <2>2, <3>1, <3>2, NothingTaken, Zenon
    <3> QED  BY <3>1, <3>3, Zenon
  <2> QED  BY <2>1, <2>2, Zenon
<1>8a. (\A e \in EvmAddrs : ex.evm[e] >= 0) /\ ex = Execution(tx, gasUsed, success)
  BY <1>1, Zenon
<1>8b. Executes(tx, minInclusion, gasUsed, success) /\ miner \in DOMAIN b0 /\ Self \in DOMAIN b0
  BY <1>8, Zenon DEF ProcessTx, Executes
<1> HIDE DEF b0, ex, portion
<1>9. /\ IsRows(balances') /\ DOMAIN balances' = DOMAIN b0
       /\ \A n \in DOMAIN b0 : balances'[n] >= b0[n]
            + (IF n = Self THEN ex.fee - portion ELSE 0)
            + (IF n = tx.from /\ tx.payer = None THEN g - ex.fee ELSE 0)
  BY <1>3, <1>5, <1>8, <1>8a, <1>8b, SettleGives, Zenon
<1>10. /\ DOMAIN b \in SUBSET Names
       /\ \A n \in DOMAIN b : b[n] \in Nat /\ b0[n] \in Nat
  BY <1>8, RowsSum, Zenon
<1>11. \A n \in DOMAIN b : balances'[n] >= b[n] - (IF n = tx.from THEN v ELSE 0) - (IF n = payer THEN g ELSE 0)
            + (IF n = Self THEN ex.fee - portion ELSE 0)
            + (IF n = tx.from /\ tx.payer = None THEN g - ex.fee ELSE 0)
  BY <1>8, <1>9, Zenon
<1> HIDE DEF v, g, payer
<1>12. \A n \in DOMAIN b : /\ b[n] - balances'[n] <= (IF n = tx.from THEN v ELSE 0) + (IF n = payer THEN g ELSE 0)
                           /\ balances'[n] \in Int
  <2> TAKE n \in DOMAIN b
  <2>1. b[n] \in Nat /\ balances'[n] \in Int
    BY <1>8, <1>9, <1>10, RowsSum
  <2> DEFINE p == IF n = tx.from THEN v ELSE 0
             q == IF n = payer THEN g ELSE 0
             r == IF n = Self THEN ex.fee - portion ELSE 0
             t == IF n = tx.from /\ tx.payer = None THEN g - ex.fee ELSE 0
  <2>2. ex.fee - portion \in Nat /\ g - ex.fee \in Nat
    BY ONLY <1>3, <1>6, <1>7
  <2>3. p \in Nat /\ q \in Nat /\ r \in Nat /\ t \in Nat
    BY <1>6, <2>2, Zenon
  <2>4. balances'[n] >= b[n] - p - q + r + t
    BY <1>11, Zenon
  <2> HIDE DEF p, q, r, t
  <2>5. b[n] - balances'[n] <= p + q
    BY ONLY <2>1, <2>3, <2>4
  <2> QED  BY <2>1, <2>5, Zenon DEF p, q
<1>13. \A n \in Names : Spends(tx)[n] = (IF n = tx.from THEN v ELSE 0) + (IF n = payer THEN g ELSE 0)
  BY SpendsNat, Zenon DEF v, g, payer
<1>14. ASSUME tx.from = Self, tx.payer = None PROVE b[Self] - balances'[Self] <= v
  <2>1. portion = 0 /\ payer = Self
    BY <1>4, <1>14, Zenon DEF payer, Names
  <2>2. balances'[Self] >= b[Self] - v - g + (ex.fee - portion) + (g - ex.fee)
    BY <1>11, <1>14, <2>1, Zenon
  <2>3. b[Self] \in Nat /\ balances'[Self] \in Int
    BY <1>10, <1>12, Zenon
  <2> QED  BY ONLY <1>6, <1>7, <2>1, <2>2, <2>3
<1>15. ASSUME cfg.version < 3 PROVE GasIncome(tx, ex, portion) <= ex.fee - portion
  <2>1. CASE tx.from = Self
    BY <1>3, <1>7, <2>1 DEF GasIncome
  <2>2. CASE tx.from # Self /\ cfg.version >= 1
    BY <1>3, <1>7, <1>15, <2>2, SettingsOK DEF GasIncome
  <2>3. CASE tx.from # Self /\ ~(cfg.version >= 1)
    BY <1>3, <1>7, <2>3 DEF GasIncome
  <2> QED  BY <2>1, <2>2, <2>3, Zenon
<1>16. ASSUME cfg.version < 3
       PROVE  balances'[Self] - b[Self] + Spends(tx)[Self] >= income'.gas - inc.gas
  <2> DEFINE k == GasIncome(tx, ex, portion)
             s == Spends(tx)[Self]
  <2>1. k \in Nat /\ k <= ex.fee - portion /\ income'.gas = inc.gas + k
    BY <1>3, <1>5, <1>7, <1>15, <1>16, SettingsOK DEF GasIncome, Incomes, Settle
  <2>2. s = (IF Self = tx.from THEN v ELSE 0) + (IF Self = payer THEN g ELSE 0)
    BY <1>13, Zenon DEF Names
  <2>3. b[Self] \in Nat /\ balances'[Self] \in Int
    BY <1>10, <1>12, Zenon
  <2> HIDE DEF k, s
  <2> DEFINE p == IF Self = tx.from THEN v ELSE 0
             q == IF Self = payer THEN g ELSE 0
             t == IF Self = tx.from /\ tx.payer = None THEN g - ex.fee ELSE 0
  <2>a. ex.fee - portion \in Nat /\ g - ex.fee \in Nat
    BY ONLY <1>3, <1>6, <1>7
  <2>b. p \in Nat /\ q \in Nat /\ t \in Nat /\ s = p + q
    BY <1>6, <2>2, <2>a, Zenon
  <2>c. balances'[Self] >= b[Self] - p - q + (ex.fee - portion) + t
    BY <1>11, Zenon
  <2> HIDE DEF p, q, t
  <2>4. balances'[Self] - b[Self] + s >= ex.fee - portion
    BY ONLY <2>3, <2>a, <2>b, <2>c
  <2>5. s \in Nat
    BY <1>6, <2>2
  <2> QED  BY <1>3, <1>5, <1>7, <2>1, <2>3, <2>4, <2>5 DEF s, Incomes, Settle
<1>17. \A n \in DOMAIN b : b[n] - balances'[n] <= Spends(tx)[n]
  BY <1>10, <1>12, <1>13, Zenon
<1> QED  BY <1>5, <1>8, <1>9, <1>14, <1>16, <1>17 DEF Pays, v, GasIncome, Incomes, Settle

-----------------------------------------------------------------------------
(* Transactions within a step of the ledger *)

\* Solvent and InEvmExact with what they need of the state.
Ready == TypeOK /\ Solvent /\ InEvmExact /\ Self \in DOMAIN balances

\* The tables as an abort would find them.
Commits ==
  IF inline' = <<>> THEN saved' = None
  ELSE saved' = IF inline = <<>> THEN Snapshot ELSE saved

\* A step after which the ledger is balanced again.
Sound ==
  /\ IsRows(balances') /\ IsRows(nextnonces') /\ IsRows(msgreceivers')
  /\ inevm' \in Nat /\ evm' \in [EvmAddrs -> Nat] /\ burned' \in Nat /\ removed' \in Nat
  /\ custody' \in 0..Supply /\ income' \in Incomes
  /\ egresslist' \subseteq Accounts /\ adjusted' \in (-MaxAdjust)..MaxAdjust
  /\ frozen' \in BOOLEAN /\ cfg' \in Configs /\ inline' \in Seq(Actions)
  /\ custody' * MinAsset + adjusted'
       = SumFunction(balances') + inevm' + Flight(inline') * MinAsset
  /\ inevm' = SumFunction(evm') + burned' + removed'
  /\ Commits

\* What Ready says, variable by variable.
LEMMA ReadyFacts ==
  ASSUME Ready
  PROVE  /\ IsRows(balances) /\ IsRows(nextnonces) /\ IsRows(msgreceivers)
         /\ inevm \in Nat /\ evm \in [EvmAddrs -> Nat] /\ burned \in Nat /\ removed \in Nat
         /\ custody \in 0..Supply /\ custody \in Nat /\ income \in Incomes
         /\ egresslist \subseteq Accounts /\ adjusted \in (-MaxAdjust)..MaxAdjust /\ adjusted \in Int
         /\ frozen \in BOOLEAN /\ cfg \in Configs /\ inline \in Seq(Actions)
         /\ (inline = <<>> => saved = None)
         /\ Flight(inline) \in Nat /\ Flight(inline) * MinAsset \in Nat /\ MinAsset \in Nat
         /\ SumFunction(balances) \in Nat /\ SumFunction(evm) \in Nat
         /\ custody * MinAsset \in Nat
         /\ custody * MinAsset + adjusted
              = SumFunction(balances) + inevm + Flight(inline) * MinAsset
         /\ inevm = SumFunction(evm) + burned + removed
         /\ Self \in DOMAIN balances
<1>1. /\ IsRows(balances) /\ IsRows(nextnonces) /\ IsRows(msgreceivers)
      /\ inevm \in Nat /\ evm \in [EvmAddrs -> Nat] /\ burned \in Nat /\ removed \in Nat
      /\ custody \in 0..Supply /\ income \in Incomes
      /\ egresslist \subseteq Accounts /\ adjusted \in (-MaxAdjust)..MaxAdjust
      /\ frozen \in BOOLEAN /\ cfg \in Configs /\ inline \in Seq(Actions)
      /\ (inline = <<>> => saved = None)
  BY Zenon DEF Ready, TypeOK, IsTables, Snapshot, Incomes
<1>2. custody \in Nat /\ adjusted \in Int /\ custody * MinAsset \in Nat
  BY <1>1, LedgerAssumption
<1>3. Flight(inline) \in Nat /\ InFlight = Flight(inline)
  BY <1>1, FlightNat, FlightIs, Zenon DEF InFlight
<1>4. Flight(inline) * MinAsset \in Nat
  BY <1>3, LedgerAssumption
<1>5. SumFunction(evm) \in Nat
  BY <1>1, NamesFinite, TotalNat, Zenon
<1> QED  BY <1>1, <1>2, <1>3, <1>4, <1>5, LedgerAssumption, RowsSum, Zenon DEF Ready, Solvent,
            InEvmExact

\* Sending actions.
LEMMA ContinueCommits ==
  ASSUME NEW actions \in Seq(Actions), NEW rest \in Seq(Actions), Continue(actions, rest)
  PROVE  /\ Commits /\ inline' \in Seq(Actions)
         /\ Flight(inline') = Flight(actions) + Flight(rest)
BY FlightConcat, Zenon DEF Continue, Commits

\* Sending no action.
LEMMA ContinueOnly ==
  ASSUME NEW rest \in Seq(Actions), Continue(<<>>, rest)
  PROVE  Commits /\ inline' = rest
BY DEF Continue, Commits

\* process_tx keeps the tables an abort would need.
LEMMA ProcessTxCommits ==
  ASSUME NEW b, NEW inc, NEW tx, NEW miner, NEW minInclusion, NEW rest,
         ProcessTx(b, inc, tx, miner, minInclusion, rest)
  PROVE  Commits
BY DEF Continue, Commits, Settle, ProcessTx

\* Whichever way dispatch_tx runs the transaction.
LEMMA DispatchTxKeeps ==
  ASSUME Ready, NEW b, IsRows(b), Self \in DOMAIN b, NEW inc \in Incomes,
         NEW tx, IsTx(tx), cfg.version < 1 => tx \in Transactions, DispatchTx(b, inc, tx)
  PROVE  Kept(b, inline) /\ Commits
<1>1. /\ cfg \in Configs /\ evm \in [EvmAddrs -> Nat] /\ inevm \in Nat /\ burned \in Nat
      /\ inline \in Seq(Actions) /\ SumFunction(evm) \in Nat
  BY ReadyFacts, Zenon
<1>2. CASE cfg.version >= 1
  BY <1>1, <1>2, ProcessTxKeeps, ProcessTxCommits, Zenon DEF DispatchTx
<1>3. CASE ~(cfg.version >= 1)
  <2> DEFINE a == [type |-> "pushtx", tx |-> tx]
  <2>1. /\ balances' = b /\ income' = inc /\ Continue(<<a>>, inline)
        /\ inevm' = inevm /\ evm' = evm /\ burned' = burned
    BY <1>3, Zenon DEF DispatchTx
  <2>2. a \in Actions /\ AmountOf[a] = 0
    BY <1>1, <1>3, SettingsOK DEF AmountOf, Actions
  <2> HIDE DEF a
  <2>3. <<a>> \in Seq(Actions) /\ Flight(<<a>>) = 0
    BY <2>2, FlightOne, Zenon
  <2>4. Commits /\ inline' \in Seq(Actions) /\ Flight(inline') = Flight(<<a>>) + Flight(inline)
    BY <1>1, <2>1, <2>3, ContinueCommits, Zenon
  <2>5. Flight(inline') = Flight(inline)
    BY <2>3, <2>4, ReadyFacts
  <2> QED  BY <1>1, <2>1, <2>4, <2>5, Zenon DEF Kept
<1> QED  BY <1>2, <1>3, Zenon

\* The transactions the bridge builds are transactions.
LEMMA BridgeTxOK ==
  ASSUME cfg \in Configs, NEW from \in Names \cup EvmAddrs, NEW payload \in Seq(Movements),
         NEW gas \in Nat, NEW payer \in Names \cup {None}, payer # None => from \in Names
  PROVE  /\ IsTx(BridgeTx(from, payer, payload, gas))
         /\ payer = None => BridgeTx(from, payer, payload, gas) \in Transactions
BY SettingsOK, Zenon DEF BridgeTx, IsTx, Transactions

\* Transactions keep the ledger balanced when nothing else changes.
LEMMA KeptSound ==
  ASSUME Ready, NEW b, NEW rest, Kept(b, rest), Commits,
         IsRows(nextnonces'), IsRows(msgreceivers'), custody' \in 0..Supply,
         UNCHANGED <<removed, egresslist, adjusted, frozen, cfg>>,
         custody' * MinAsset + adjusted = SumFunction(b) + inevm + Flight(rest) * MinAsset
  PROVE  Sound
<1> DEFINE x == SumFunction(evm) + burned
           y == SumFunction(evm') + burned'
<1>1. inevm = x + removed /\ SumFunction(evm) \in Nat /\ burned \in Nat /\ removed \in Nat
  BY ReadyFacts, Zenon
<1>2. inevm' + x = inevm + y /\ inevm' \in Nat
  BY Zenon DEF Kept
<1>3. x \in Nat /\ y \in Nat
  <2>1. evm' \in [EvmAddrs -> Nat] /\ burned' \in Nat
    BY Zenon DEF Kept
  <2>2. SumFunction(evm') \in Nat
    BY <2>1, NamesFinite, TotalNat, Zenon
  <2> QED  BY ONLY <1>1, <2>1, <2>2
<1>3a. inevm = x + removed /\ removed \in Nat /\ inevm \in Nat
  BY <1>1, ReadyFacts, Zenon
<1> HIDE DEF x, y
<1>4. inevm' = y + removed
  <2>1. inevm' = (inevm + y) - x
    <3>1. inevm' \in Nat
      BY <1>2, Zenon
    <3>2. inevm' + x = inevm + y
      BY <1>2, Zenon
    <3>3. \A k, l, m \in Nat : k + l = m => k = m - l
      OBVIOUS
    <3>4. inevm + y \in Nat
      BY ONLY <1>3, <1>3a
    <3> QED  BY ONLY <3>1, <3>2, <3>3, <3>4, <1>3, Zenon
  <2>2. inevm - x = removed
    BY ONLY <1>3, <1>3a, SMT
  <2> QED  BY ONLY <2>1, <2>2, <1>3, <1>3a, SMT
<1> QED  BY <1>4, ReadyFacts, Zenon DEF Kept, Sound, y

\* Using a nonce keeps the nonce rows natural numbers.
LEMMA NonceRowsOK ==
  ASSUME IsRows(nextnonces), NEW owner, UseNonce(owner)
  PROVE  IsRows(nextnonces')
BY DEF UseNonce, IsRows
=============================================================================
