--------------------------- MODULE TokenSwapProofs ---------------------------
(***************************************************************************)
(* Proofs about TokenSwap, for any accounts, tokens, amounts, portions and *)
(* number of swaps.  The invariants speak of two versions of the tables:   *)
(* the present ones, and the ones an abort puts back.                      *)
(***************************************************************************)
EXTENDS TokenSwap, DataLemmas, TLAPS

Stale(r, symbol) == {n \in DOMAIN r : r[n].symbol # symbol}

RowsOK(r, symbol) ==
  /\ DOMAIN r \subseteq Names /\ \A n \in DOMAIN r : r[n] \in Amounts
  /\ Self \in DOMAIN r /\ r[Self].symbol = symbol

\* TypeOK and SymbolsAgree of one version of the tables
TablesOK(t, r, i, s, m, c) ==
  /\ t \in Tokens
  /\ RowsOK(r, t.symbol)
  /\ i \in Amounts /\ i.symbol = t.symbol
  /\ s \in Symbols \cup {None} /\ s \in {None, t.symbol}
  /\ DOMAIN m \subseteq Names /\ \A n \in DOMAIN m : m[n] = t.symbol
  /\ c \in [Tokens -> Nat]

Transfers == [from : {Self, SwapAccount}, token : Tokens, quantity : Nat,
              to : Names \cup {SwapAccount}]

Present == TablesOK(token, rows, inevm, statistics, receivers, custody)

\* What an abort puts back is consistent as well, and a transaction that does
\* not swap has added no stale row to it.
Kept ==
  inline # <<>> =>
    /\ TablesOK(saved.token, saved.rows, saved.inevm, saved.statistics,
                saved.receivers, saved.custody)
    /\ saved.token = token => Stale(rows, token.symbol) \subseteq Stale(saved.rows, token.symbol)

Inv ==
  /\ Present /\ Kept
  /\ frozen \in BOOLEAN /\ inline \in Seq(Transfers)
  /\ inline = <<>> => saved = None

Shrinks == CommittedToken' = CommittedToken => NotMigrated' \subseteq NotMigrated

\* The rows left to migrate are the stale ones of the committed tables.
LEMMA CommittedStale ==
  NotMigrated = IF inline = <<>> THEN Stale(rows, token.symbol)
                ELSE Stale(saved.rows, saved.token.symbol)
BY Zenon DEF NotMigrated, CommittedRows, CommittedToken, Stale

\* A step that leaves the present tables consistent, makes no row stale unless
\* it changes the token, and changes the token only as the first step of a
\* transaction, keeps the invariant.
LEMMA StepKeeps ==
  ASSUME Inv, NEW transfers \in Seq(Transfers), NEW rest \in Seq(Transfers),
         Continue(transfers, rest), Present', frozen' \in BOOLEAN,
         token' = token => Stale(rows, token.symbol)' \subseteq Stale(rows, token.symbol),
         inline # <<>> => token' = token
  PROVE  Inv' /\ Shrinks
<1>0. NotMigrated' = IF inline' = <<>> THEN Stale(rows', token'.symbol)
                     ELSE Stale(saved'.rows, saved'.token.symbol)
  BY Zenon DEF NotMigrated, CommittedRows, CommittedToken, Stale
<1>1. inline' \in Seq(Transfers)
  BY DEF Continue
<1>2. CASE inline' = <<>>
  <2>1. saved' = None /\ Kept'
    BY <1>2, Zenon DEF Continue, Kept
  <2>2. Shrinks
    BY <1>2, CommittedStale, <1>0, Zenon DEF Shrinks, CommittedToken, Inv, Kept
  <2> QED BY <1>1, <1>2, <2>1, <2>2, Zenon DEF Inv
<1>3. CASE inline' # <<>> /\ inline = <<>>
  <2>1. saved' = Snapshot
    BY <1>3, Zenon DEF Continue
  <2>2. /\ saved'.token = token /\ saved'.rows = rows /\ saved'.inevm = inevm
        /\ saved'.statistics = statistics /\ saved'.receivers = receivers
        /\ saved'.custody = custody
    BY <2>1, Zenon DEF Snapshot
  <2>3. Kept'
    <3>1. TablesOK(saved.token, saved.rows, saved.inevm, saved.statistics,
                   saved.receivers, saved.custody)'
      BY <2>2, Zenon DEF Inv, Present, TablesOK
    <3>2. (saved.token = token
             => Stale(rows, token.symbol) \subseteq Stale(saved.rows, token.symbol))'
      BY <2>2, Zenon DEF Stale
    <3> QED BY <3>1, <3>2, Zenon DEF Kept
  <2>4. Shrinks
    BY <1>3, <2>2, CommittedStale, <1>0, Zenon DEF Shrinks, Stale
  <2> QED BY <1>1, <1>3, <2>3, <2>4, Zenon DEF Inv
<1>4. CASE inline' # <<>> /\ inline # <<>>
  <2>1. saved' = saved /\ token' = token
    BY <1>4, Zenon DEF Continue
  <2>2. Kept'
    <3>1. TablesOK(saved.token, saved.rows, saved.inevm, saved.statistics,
                   saved.receivers, saved.custody)'
      BY <1>4, <2>1, Zenon DEF Inv, Kept
    <3>2. (saved.token = token
             => Stale(rows, token.symbol) \subseteq Stale(saved.rows, token.symbol))'
      BY <1>4, <2>1, Zenon DEF Inv, Kept, Stale
    <3> QED BY <3>1, <3>2, Zenon DEF Kept
  <2>3. Shrinks
    BY <1>4, <2>1, CommittedStale, <1>0, Zenon DEF Shrinks, Stale
  <2> QED BY <1>1, <1>4, <2>2, <2>3, Zenon DEF Inv
<1> QED BY <1>2, <1>3, <1>4, Zenon

\* A portion of migratebal relabels rows and changes nothing else.
LEMMA MigrationKeeps ==
  ASSUME NEW r, RowsOK(r, r[Self].symbol), NEW from, NEW limit, NEW symbol \in Symbols
  PROVE  /\ DOMAIN Migration(r, from, limit, symbol) = DOMAIN r
         /\ \A n \in DOMAIN r : Migration(r, from, limit, symbol)[n] \in Amounts
         /\ \A n \in DOMAIN r : Migration(r, from, limit, symbol)[n].symbol
                                  \in {r[n].symbol, symbol}
BY Zenon DEF Migration, Labelled, RowsOK, Amounts

\* migratebal(get_self(), 1) visits the contract's own row.
LEMMA SelfVisited ==
  ASSUME NEW r, Self \in DOMAIN r, DOMAIN r \subseteq Names
  PROVE  Self \in Visited(r, Self, 1) /\ \A n \in Visited(r, Self, 1) : n = Self
<1>1. \A n \in DOMAIN r : n \in Int /\ Self \in Int
  BY TokenSwapAssumption, Zenon DEF Names
<1>2. {k \in DOMAIN r : Self <= k /\ k < Self} = {}
  BY <1>1
<1>3. Cardinality({k \in DOMAIN r : Self <= k /\ k < Self}) = 0
  BY <1>2, CardinalityNone, Zenon
<1>4. Self \in Visited(r, Self, 1)
  BY <1>1, <1>3 DEF Visited
<1>5. ASSUME NEW n \in Visited(r, Self, 1), n # Self PROVE FALSE
  <2> DEFINE before == {k \in DOMAIN r : Self <= k /\ k < n}
  <2>1. n \in DOMAIN r /\ Self <= n /\ Cardinality(before) < 1
    BY <1>5, Zenon DEF Visited
  <2>2. Self \in before
    BY <1>1, <1>5, <2>1
  <2>3. IsFiniteSet(Names)
    BY TokenSwapAssumption, FiniteAdd, Zenon DEF Names
  <2>4. IsFiniteSet(before)
    <3>1. before \subseteq Names
      BY Zenon
    <3> QED BY <2>3, <3>1, FiniteSubset, Zenon
  <2>5. Cardinality(before) \in Nat /\ Cardinality(before) # 0
    BY <2>2, <2>4, CardinalitySome, Zenon
  <2> QED BY <2>1, <2>5
<1> QED BY <1>4, <1>5, Zenon

\* Changing one row without giving it another symbol than the gas token's
LEMMA RowChange ==
  ASSUME NEW r, NEW symbol, RowsOK(r, symbol), NEW owner \in DOMAIN r,
         NEW row \in Amounts, row.symbol \in {r[owner].symbol, symbol}
  PROVE  LET new == [r EXCEPT ![owner] = row]
         IN  RowsOK(new, symbol) /\ Stale(new, symbol) \subseteq Stale(r, symbol)
BY Zenon DEF RowsOK, Stale

\* Adding to and taking from a row
LEMMA Arithmetic ==
  ASSUME NEW row \in Amounts, NEW quantity \in Nat
  PROVE  /\ Plus(row, quantity) \in Amounts /\ Plus(row, quantity).symbol = row.symbol
         /\ row.amount >= quantity =>
              Minus(row, quantity) \in Amounts /\ Minus(row, quantity).symbol = row.symbol
BY DEF Plus, Minus, Amounts

\* A new row has the symbol of the gas token.
LEMMA RowAdded ==
  ASSUME Inv, NEW owner \in Names
  PROVE  /\ RowsOK(WithRow(rows, owner), token.symbol)
         /\ Stale(WithRow(rows, owner), token.symbol) \subseteq Stale(rows, token.symbol)
<1>1. RowsOK(rows, token.symbol) /\ token.symbol \in Symbols
  BY Zenon DEF Inv, Present, TablesOK, Symbols
<1>2. [amount |-> 0, symbol |-> token.symbol] \in Amounts
  BY <1>1, Zenon DEF Amounts
<1> QED BY <1>1, <1>2, Zenon DEF WithRow, RowsOK, Stale

\* The first step of a transaction, or one of the rest of it
LEMMA InlineSequences ==
  ASSUME Inv
  PROVE  /\ inline \in Seq(Transfers) /\ <<>> \in Seq(Transfers)
         /\ inline # <<>> => Tail(inline) \in Seq(Transfers) /\ Head(inline) \in Transfers
         /\ \A t \in Transfers : <<t>> \in Seq(Transfers)
BY DEF Inv

\* What the steps send
LEMMA Sent ==
  ASSUME NEW from \in {Self, SwapAccount}, NEW t \in Tokens, NEW quantity \in Nat,
         NEW to \in Names \cup {SwapAccount}
  PROVE  <<Transfer(from, t, quantity, to)>> \in Seq(Transfers)
<1>1. Transfer(from, t, quantity, to) \in Transfers
  BY Zenon DEF Transfer, Transfers
<1> QED BY <1>1

\* Relabelling rows by migratebal adds no stale row.
LEMMA MigrateBalKeeps ==
  ASSUME Inv, NEW from, NEW limit, MigrateBal(from, limit)
  PROVE  Inv' /\ Shrinks
<1>1. /\ RowsOK(rows, token.symbol) /\ token \in Tokens /\ token.symbol \in Symbols
      /\ inevm.symbol = token.symbol /\ rows[Self].symbol = token.symbol
  BY Zenon DEF Inv, Present, TablesOK, RowsOK, Symbols
<1>2. /\ DOMAIN rows' = DOMAIN rows
      /\ \A n \in DOMAIN rows : rows'[n] \in Amounts /\ rows'[n].symbol \in {rows[n].symbol, token.symbol}
  BY <1>1, MigrationKeeps DEF MigrateBal
<1>3. RowsOK(rows', token.symbol) /\ Stale(rows', token.symbol) \subseteq Stale(rows, token.symbol)
  BY <1>1, <1>2, Zenon DEF RowsOK, Stale
<1>4. Present'
  BY <1>3, Zenon DEF MigrateBal, Inv, Present, TablesOK
<1> QED BY <1>3, <1>4, StepKeeps, InlineSequences, Zenon DEF MigrateBal, Inv, Stale

\* A swap relabels every table but the rows of others, which are then stale.
LEMMA SwapGasTokenKeeps ==
  ASSUME Inv, NEW t \in DOMAIN Exchange, NEW dest \in Dests, SwapGasToken(t, dest)
  PROVE  Inv' /\ Shrinks
<1>1. /\ RowsOK(rows, token.symbol) /\ token \in Tokens /\ rows[Self].symbol = token.symbol
      /\ t \in Tokens /\ t.symbol \in Symbols
  BY TokenSwapAssumption, Zenon DEF Inv, Present, TablesOK, RowsOK, Symbols
<1>2. t # token
  BY <1>1, SelfVisited, Zenon DEF SwapGasToken, SomethingChanges, RowsOK
<1>3. /\ DOMAIN rows' = DOMAIN rows /\ \A n \in DOMAIN rows : rows'[n] \in Amounts
  BY <1>1, MigrationKeeps DEF SwapGasToken, SelfMigrated
<1>4. rows'[Self].symbol = t.symbol
  <2>1. Self \in Visited(rows, Self, 1) /\ Self \in DOMAIN rows /\ rows[Self] \in Amounts
    BY <1>1, SelfVisited, Zenon DEF RowsOK
  <2>2. rows'[Self] = Labelled(rows[Self], t.symbol)
    BY <2>1, Zenon DEF SwapGasToken, SelfMigrated, Migration
  <2> QED BY <2>1, <2>2, Zenon DEF Labelled, Amounts
<1>5. RowsOK(rows', t.symbol)
  BY <1>1, <1>3, <1>4, Zenon DEF RowsOK
<1>6. inevm' \in Amounts /\ inevm'.symbol = t.symbol
  BY <1>1, Zenon DEF SwapGasToken, Inv, Present, TablesOK, Amounts
<1>7. Present'
  BY <1>1, <1>5, <1>6, Zenon DEF SwapGasToken, Inv, Present, TablesOK
<1>8. OldTokensSent(dest) \in Seq(Transfers)
  <2>1. custody[token] \in Nat
    BY Zenon DEF Inv, Present, TablesOK
  <2>2. dest # None => dest = SwapAccount
    BY TokenSwapAssumption, Zenon
  <2> QED BY <1>1, <2>1, <2>2, Sent DEF OldTokensSent
<1> QED BY <1>2, <1>7, <1>8, StepKeeps, InlineSequences, Zenon DEF SwapGasToken, Inv

\* Steps that touch neither the rows nor the token, and no other symbol
LEMMA RowsUntouched ==
  ASSUME Inv, UNCHANGED <<token, rows, statistics, receivers>>, frozen' \in BOOLEAN,
         inevm' \in Amounts, inevm'.symbol = token.symbol, custody' \in [Tokens -> Nat],
         NEW transfers \in Seq(Transfers), NEW rest \in Seq(Transfers), Continue(transfers, rest)
  PROVE  Inv' /\ Shrinks
<1>1. Present'
  BY Zenon DEF Inv, Present, TablesOK
<1>2. Stale(rows, token.symbol)' = Stale(rows, token.symbol)
  BY Zenon DEF Stale
<1> QED BY <1>1, <1>2, StepKeeps, Zenon

\* Steps of the bridge, which change rows without making one stale
LEMMA RowsMoved ==
  ASSUME Inv, UNCHANGED <<token, frozen>>, RowsOK(rows', token.symbol),
         Stale(rows', token.symbol) \subseteq Stale(rows, token.symbol),
         inevm' \in Amounts, inevm'.symbol = token.symbol,
         statistics' \in {statistics, token.symbol},
         DOMAIN receivers' \subseteq Names, \A n \in DOMAIN receivers' : receivers'[n] = token.symbol,
         custody' \in [Tokens -> Nat],
         NEW transfers \in Seq(Transfers), NEW rest \in Seq(Transfers), Continue(transfers, rest)
  PROVE  Inv' /\ Shrinks
<1>1. token \in Tokens /\ token.symbol \in Symbols
  BY Zenon DEF Inv, Present, TablesOK, Symbols
<1>2. Present'
  BY <1>1, Zenon DEF Inv, Present, TablesOK
<1>3. Stale(rows, token.symbol)' \subseteq Stale(rows, token.symbol)
  BY Zenon DEF Stale
<1> QED BY <1>2, <1>3, StepKeeps, Zenon DEF Inv

\* What the invariant says of the present tables
LEMMA PresentFacts ==
  ASSUME Inv
  PROVE  /\ token \in Tokens /\ token.symbol \in Symbols /\ RowsOK(rows, token.symbol)
         /\ inevm \in Amounts /\ inevm.symbol = token.symbol
         /\ DOMAIN receivers \subseteq Names
         /\ \A n \in DOMAIN receivers : receivers[n] = token.symbol
         /\ custody \in [Tokens -> Nat]
         /\ statistics \in {None, token.symbol}
         /\ StatisticsSymbol = token.symbol
BY TokenSwapAssumption, Zenon DEF Inv, Present, TablesOK, Symbols, StatisticsSymbol

\* An abort puts consistent tables back, and the committed ones are untouched.
LEMMA AbortKeeps ==
  ASSUME Inv, Abort
  PROVE  Inv' /\ Shrinks
<1>1. Present'
  BY Zenon DEF Abort, Inv, Kept, Present, TablesOK
<1>2. inline' = <<>> /\ saved' = None /\ frozen' = frozen /\ Kept'
  BY Zenon DEF Abort, Kept
<1>3. Shrinks
  <2>1. CommittedToken' = CommittedToken /\ CommittedRows' = CommittedRows
    BY Zenon DEF Abort, CommittedToken, CommittedRows
  <2> QED BY <2>1, Zenon DEF Shrinks, NotMigrated
<1> QED BY <1>1, <1>2, <1>3 DEF Inv

\* The inline transfers move tokens and touch no table of the contract.
LEMMA RunKeeps ==
  ASSUME Inv, RunTransfer \/ RunExchange
  PROVE  Inv' /\ Shrinks
<1> DEFINE t == Head(inline)
<1>1. inline # <<>> /\ t \in Transfers /\ Tail(inline) \in Seq(Transfers) /\ <<>> \in Seq(Transfers)
  BY InlineSequences, Zenon DEF RunTransfer, RunExchange
<1>2. t.token \in Tokens /\ t.quantity \in Nat
  BY <1>1, Zenon DEF Transfers
<1>3. custody \in [Tokens -> Nat] /\ inevm \in Amounts /\ inevm.symbol = token.symbol
  BY PresentFacts, Zenon
<1>4. CASE RunTransfer
  <2>1. custody' \in [Tokens -> Nat]
    BY <1>2, <1>3, <1>4 DEF RunTransfer
  <2>2. CASE t.to = SwapAccount /\ t.token \in DOMAIN Exchange
    <3> DEFINE answer == <<Transfer(SwapAccount, Exchange[t.token], t.quantity, Self)>>
    <3>1. answer \in Seq(Transfers)
      <4>1. Exchange[t.token] \in Tokens /\ Self \in Names
        BY <2>2, TokenSwapAssumption, Zenon DEF Names
      <4> QED BY <1>2, <4>1, Sent, Zenon
    <3>2. Continue(answer, Tail(inline))
      BY <1>4, <2>2, Zenon DEF RunTransfer
    <3> HIDE DEF answer
    <3> QED BY <1>1, <1>3, <1>4, <2>1, <3>1, <3>2, RowsUntouched, Zenon DEF RunTransfer, Inv
  <2>3. CASE ~(t.to = SwapAccount /\ t.token \in DOMAIN Exchange)
    <3>1. Continue(<<>>, Tail(inline))
      BY <1>4, <2>3, Zenon DEF RunTransfer
    <3> QED BY <1>1, <1>3, <1>4, <2>1, <3>1, RowsUntouched, Zenon DEF RunTransfer, Inv
  <2> QED BY <2>2, <2>3, Zenon
<1>5. CASE RunExchange
  <2>1. custody' \in [Tokens -> Nat]
    BY <1>2, <1>3, <1>5 DEF RunExchange
  <2> QED BY <1>1, <1>3, <1>5, <2>1, RowsUntouched, Zenon DEF RunExchange, Inv
<1> QED BY <1>4, <1>5, Zenon

\* Between transactions, a step that sends nothing continues with nothing.
LEMMA NothingSent ==
  ASSUME Inv, inline = <<>>, UNCHANGED <<inline, saved>>
  PROVE  Continue(<<>>, <<>>)
BY TokenSwapAssumption DEF Inv, Continue

\* Opening, closing and registering
LEMMA RowActionsKeep ==
  ASSUME Inv, NEW owner \in Names,
         Open(owner) \/ Close(owner) \/ \E s \in Symbols : BridgeReg(owner, s)
  PROVE  Inv' /\ Shrinks
<1>1. CASE Open(owner)
  BY <1>1, RowAdded, PresentFacts, RowsMoved, InlineSequences, Zenon DEF Open
<1>2. CASE Close(owner)
  <2>1. RowsOK(rows, token.symbol) /\ owner # Self
    BY <1>2, PresentFacts, Zenon DEF Close
  <2>2. DOMAIN rows' = DOMAIN rows \ {owner} /\ \A n \in DOMAIN rows' : rows'[n] = rows[n]
    BY <1>2, Zenon DEF Close, Restrict
  <2>3. RowsOK(rows', token.symbol) /\ Stale(rows', token.symbol) \subseteq Stale(rows, token.symbol)
    BY <2>1, <2>2, Zenon DEF RowsOK, Stale
  <2> QED BY <1>2, <2>3, PresentFacts, RowsMoved, InlineSequences, Zenon DEF Close
<1>3. CASE \E s \in Symbols : BridgeReg(owner, s)
  <2>1. PICK s \in Symbols : BridgeReg(owner, s)
    BY <1>3, Zenon
  <2>2. Continue(<<>>, <<>>) /\ s = token.symbol
    BY <2>1, NothingSent, Zenon DEF BridgeReg
  <2>3. DOMAIN receivers' \subseteq Names /\ \A n \in DOMAIN receivers' : receivers'[n] = token.symbol
    BY <2>1, <2>2, PresentFacts, Zenon DEF BridgeReg
  <2> QED BY <2>1, <2>2, <2>3, RowAdded, PresentFacts, RowsMoved, InlineSequences, Zenon DEF
             BridgeReg
<1> QED BY <1>1, <1>2, <1>3, Zenon

\* Deposits
LEMMA DepositsKeep ==
  ASSUME Inv, NEW from, NEW receiver, NEW t \in Tokens, NEW quantity \in Quantities,
         DepositToAccount(from, receiver, t, quantity) \/ DepositToEvm(from, t, quantity)
  PROVE  Inv' /\ Shrinks
<1>1. quantity \in Nat /\ Fee \in Nat
  BY TokenSwapAssumption, Zenon
<1>2. custody' \in [Tokens -> Nat]
  BY <1>1, PresentFacts DEF DepositToAccount, DepositToEvm
<1>3. CASE DepositToAccount(from, receiver, t, quantity)
  <2>1. receiver \in DOMAIN rows /\ rows[receiver] \in Amounts
    BY <1>3, PresentFacts, Zenon DEF DepositToAccount, RowsOK
  <2>2. /\ Plus(rows[receiver], quantity) \in Amounts
        /\ Plus(rows[receiver], quantity).symbol = rows[receiver].symbol
    BY <1>1, <2>1, Arithmetic, Zenon
  <2>3. rows' = [rows EXCEPT ![receiver] = Plus(rows[receiver], quantity)]
    BY <1>3, Zenon DEF DepositToAccount
  <2>4. RowsOK(rows', token.symbol) /\ Stale(rows', token.symbol) \subseteq Stale(rows, token.symbol)
    BY <2>1, <2>2, <2>3, RowChange, PresentFacts, Zenon
  <2> QED BY <1>2, <1>3, <2>4, PresentFacts, RowsMoved, InlineSequences, Zenon DEF DepositToAccount
<1>4. CASE DepositToEvm(from, t, quantity)
  <2>1. Self \in DOMAIN rows /\ rows[Self] \in Amounts
    BY PresentFacts, Zenon DEF RowsOK
  <2>2. Plus(rows[Self], Fee) \in Amounts /\ Plus(rows[Self], Fee).symbol = rows[Self].symbol
    BY <1>1, <2>1, Arithmetic, Zenon
  <2>3. rows' = [rows EXCEPT ![Self] = Plus(rows[Self], Fee)]
    BY <1>4, Zenon DEF DepositToEvm
  <2>4. RowsOK(rows', token.symbol) /\ Stale(rows', token.symbol) \subseteq Stale(rows, token.symbol)
    BY <2>1, <2>2, <2>3, RowChange, PresentFacts, Zenon
  <2>5. inevm' \in Amounts /\ inevm'.symbol = token.symbol
    <3>1. quantity - Fee \in Nat
      BY <1>1, <1>4 DEF DepositToEvm
    <3> QED BY <1>4, <3>1, Arithmetic, PresentFacts, Zenon DEF DepositToEvm
  <2> QED BY <1>2, <1>4, <2>4, <2>5, PresentFacts, RowsMoved, InlineSequences, Zenon DEF
             DepositToEvm
<1> QED BY <1>3, <1>4, Zenon

\* withdraw, which relabels the row it takes from
LEMMA WithdrawKeeps ==
  ASSUME Inv, NEW owner \in Names, NEW quantity \in Quantities,
         NEW to \in Accounts \cup {SwapAccount}, Withdraw(owner, quantity, to)
  PROVE  Inv' /\ Shrinks
<1> DEFINE row == Relabelled(rows[owner])
<1>1. quantity \in Nat /\ owner \in DOMAIN rows /\ rows[owner] \in Amounts
  BY TokenSwapAssumption, PresentFacts, Zenon DEF Withdraw, RowsOK
<1>2. row \in Amounts /\ row.symbol = token.symbol /\ row.amount >= quantity
  BY <1>1, PresentFacts, Zenon DEF Withdraw, Relabelled, Labelled, Covers, Amounts
<1>3. Minus(row, quantity) \in Amounts /\ Minus(row, quantity).symbol = token.symbol
  BY <1>1, <1>2, Arithmetic, Zenon
<1>4. rows' = [rows EXCEPT ![owner] = Minus(row, quantity)]
  BY Zenon DEF Withdraw
<1>5. RowsOK(rows', token.symbol) /\ Stale(rows', token.symbol) \subseteq Stale(rows, token.symbol)
  BY <1>1, <1>3, <1>4, RowChange, PresentFacts, Zenon
<1>6. <<Transfer(Self, token, quantity, to)>> \in Seq(Transfers)
  BY <1>1, PresentFacts, Sent, Zenon DEF Names
<1> QED BY <1>5, <1>6, PresentFacts, RowsMoved, InlineSequences, Zenon DEF Withdraw

\* Value that enters and leaves the EVM; a row keeps its symbol, stale or not.
LEMMA EvmKeeps ==
  ASSUME Inv, NEW name \in Names, NEW amount \in Quantities,
         Ingress(name, amount) \/ Egress(name, amount)
  PROVE  Inv' /\ Shrinks
<1>1. amount \in Nat
  BY TokenSwapAssumption, Zenon
<1>2. CASE Ingress(name, amount)
  <2>1. name \in DOMAIN rows /\ rows[name] \in Amounts /\ rows[name].amount >= amount
    BY <1>2, PresentFacts, Zenon DEF Ingress, RowsOK, Covers
  <2>2. /\ Minus(rows[name], amount) \in Amounts
        /\ Minus(rows[name], amount).symbol = rows[name].symbol
    BY <1>1, <2>1, Arithmetic, Zenon
  <2>3. rows' = [rows EXCEPT ![name] = Minus(rows[name], amount)]
    BY <1>2, Zenon DEF Ingress
  <2>4. RowsOK(rows', token.symbol) /\ Stale(rows', token.symbol) \subseteq Stale(rows, token.symbol)
    BY <2>1, <2>2, <2>3, RowChange, PresentFacts, Zenon
  <2>5. inevm' \in Amounts /\ inevm'.symbol = token.symbol
    BY <1>1, <1>2, Arithmetic, PresentFacts, Zenon DEF Ingress
  <2>6. statistics' \in {statistics, token.symbol}
    BY <1>2, PresentFacts, Zenon DEF Ingress
  <2> QED BY <1>2, <2>4, <2>5, <2>6, PresentFacts, RowsMoved, InlineSequences, Zenon DEF Ingress
<1>3. CASE Egress(name, amount)
  <2>1. inevm' \in Amounts /\ inevm'.symbol = token.symbol
    BY <1>1, <1>3, Arithmetic, PresentFacts, Zenon DEF Egress
  <2>2. statistics' = token.symbol
    BY <1>3, PresentFacts, Zenon DEF Egress
  <2>3. CASE name \in DOMAIN rows
    <3>1. rows[name] \in Amounts
      BY <2>3, PresentFacts, Zenon DEF RowsOK
    <3>2. /\ Plus(rows[name], amount) \in Amounts
          /\ Plus(rows[name], amount).symbol = rows[name].symbol
      BY <1>1, <3>1, Arithmetic, Zenon
    <3>3. rows' = [rows EXCEPT ![name] = Plus(rows[name], amount)] /\ Continue(<<>>, inline)
      BY <1>3, <2>3, Zenon DEF Egress
    <3>4. /\ RowsOK(rows', token.symbol)
          /\ Stale(rows', token.symbol) \subseteq Stale(rows, token.symbol)
      BY <2>3, <3>2, <3>3, RowChange, PresentFacts, Zenon
    <3> QED BY <1>3, <2>1, <2>2, <3>3, <3>4, PresentFacts, RowsMoved, InlineSequences, Zenon
               DEF Egress
  <2>4. CASE name \notin DOMAIN rows
    <3>1. rows' = rows /\ Continue(<<Transfer(Self, token, amount, name)>>, inline)
      BY <1>3, <2>4, Zenon DEF Egress
    <3>2. <<Transfer(Self, token, amount, name)>> \in Seq(Transfers)
      BY <1>1, PresentFacts, Sent, Zenon
    <3> QED BY <1>3, <2>1, <2>2, <3>1, <3>2, PresentFacts, RowsMoved, InlineSequences, Zenon
               DEF Egress
  <2> QED BY <2>3, <2>4, Zenon
<1> QED BY <1>2, <1>3, Zenon

\* Every step keeps the invariant, and only a swap adds rows to migrate.
LEMMA InvNext ==
  ASSUME Inv, [Next]_vars
  PROVE  Inv' /\ Shrinks
<1>1. CASE UNCHANGED vars
  <2>1. UNCHANGED <<token, rows, inevm, statistics, receivers, custody, frozen, inline, saved>>
    BY <1>1, Zenon DEF vars, tables
  <2>2. Inv'
    BY <2>1, Zenon DEF Inv, Present, Kept
  <2> QED BY <2>1, <2>2, Zenon DEF Shrinks, NotMigrated, CommittedRows, CommittedToken
<1>2. ASSUME NEW from \in Names, NEW limit \in Limits, MigrateBal(from, limit)
      PROVE  Inv' /\ Shrinks
  BY <1>2, MigrateBalKeeps, Zenon
<1>3. ASSUME NEW t \in DOMAIN Exchange, NEW dest \in Dests, SwapGasToken(t, dest)
      PROVE  Inv' /\ Shrinks
  BY <1>3, SwapGasTokenKeeps, Zenon
<1>4. ASSUME NEW t \in Tokens, ExchangeByHand(t)
      PROVE  Inv' /\ Shrinks
  <2>1. <<Transfer(Self, t, custody[t], SwapAccount)>> \in Seq(Transfers)
    BY <1>4, PresentFacts, Sent, Zenon
  <2> QED BY <1>4, <2>1, PresentFacts, RowsUntouched, InlineSequences, Zenon DEF
             ExchangeByHand, tables, Inv
<1>5. ASSUME NEW owner \in Names, Open(owner) \/ Close(owner)
      PROVE  Inv' /\ Shrinks
  BY <1>5, RowActionsKeep, Zenon
<1>6. ASSUME NEW from \in Accounts, NEW receiver \in Names, NEW t \in Tokens,
             NEW quantity \in Quantities,
             DepositToAccount(from, receiver, t, quantity) \/ DepositToEvm(from, t, quantity)
      PROVE  Inv' /\ Shrinks
  BY <1>6, DepositsKeep, Zenon
<1>7. ASSUME NEW owner \in Names, NEW quantity \in Quantities,
             NEW to \in Accounts \cup {SwapAccount}, Withdraw(owner, quantity, to)
      PROVE  Inv' /\ Shrinks
  BY <1>7, WithdrawKeeps, Zenon
<1>8. ASSUME NEW name \in Names, NEW amount \in Quantities,
             Ingress(name, amount) \/ Egress(name, amount)
      PROVE  Inv' /\ Shrinks
  BY <1>8, EvmKeeps, Zenon
<1>9. ASSUME NEW receiver \in Receivers, NEW s \in Symbols, BridgeReg(receiver, s)
      PROVE  Inv' /\ Shrinks
  <2>1. receiver \in Names
    BY TokenSwapAssumption, Zenon DEF Names
  <2> QED BY <1>9, <2>1, RowActionsKeep, Zenon
<1>10. ASSUME NEW value \in BOOLEAN, Freeze(value)
       PROVE  Inv' /\ Shrinks
  <2>1. Continue(<<>>, <<>>)
    BY <1>10, NothingSent, Zenon DEF Freeze
  <2> QED BY <1>10, <2>1, PresentFacts, RowsUntouched, InlineSequences, Zenon DEF Freeze, tables
<1>11. CASE RunTransfer \/ RunExchange
  BY <1>11, RunKeeps, Zenon
<1>12. CASE Abort
  BY <1>12, AbortKeeps, Zenon
<1>13. ASSUME NEW from \in Accounts, NEW t \in Tokens, NEW quantity \in Quantities,
             DepositToEvm(from, t, quantity)
      PROVE  Inv' /\ Shrinks
  BY <1>13, DepositsKeep, Zenon
<1> QED
  BY <1>1, <1>2, <1>3, <1>4, <1>5, <1>6, <1>7, <1>8, <1>9, <1>10, <1>11, <1>12, <1>13, Zenon DEF Next

\* The initial tables are consistent.
LEMMA InvInit ==
  ASSUME Init
  PROVE  Inv
<1>1. FirstToken \in Tokens /\ FirstToken.symbol \in Symbols
  BY TokenSwapAssumption, Zenon DEF Symbols
<1>2. [amount |-> 0, symbol |-> FirstToken.symbol] \in Amounts
  BY <1>1, Zenon DEF Amounts
<1>3. RowsOK(rows, token.symbol)
  BY <1>2, Zenon DEF Init, RowsOK, Names
<1>4. Present
  BY <1>1, <1>2, <1>3 DEF Init, Present, TablesOK
<1>5. inline = <<>> /\ saved = None /\ frozen = FALSE
  BY Zenon DEF Init
<1>6. inline \in Seq(Transfers)
  BY <1>5
<1>7. frozen \in BOOLEAN
  BY <1>5, Zenon
<1> QED BY <1>4, <1>5, <1>6, <1>7, Zenon DEF Inv, Kept

\* Every symbol the contract adds to, subtracts from or compares with a quantity
\* of the gas token is the gas token's, through any number of swaps, portions of
\* migratebal and aborted transactions (swapgastoken, migratebal).
THEOREM SymbolsAlwaysAgree == Spec => []SymbolsAgree
<1>1. Init => Inv
  BY InvInit, Zenon
<1>2. Inv /\ [Next]_vars => Inv'
  BY InvNext, Zenon
<1>3. Inv => SymbolsAgree
  BY Zenon DEF Inv, Present, TablesOK, RowsOK, SymbolsAgree
<1> QED BY <1>1, <1>2, <1>3, PTL DEF Spec

\* Rows, inevm and custody hold amounts that are not negative, in symbols of known
\* tokens, and no transaction leaves anything behind to put back.
THEOREM TypeCorrect == Spec => []TypeOK
<1>1. Init => Inv
  BY InvInit, Zenon
<1>2. Inv /\ [Next]_vars => Inv'
  BY InvNext, Zenon
<1>3. Inv => TypeOK
  BY Zenon DEF Inv, Present, TablesOK, RowsOK, TypeOK
<1> QED BY <1>1, <1>2, <1>3, PTL DEF Spec

\* Nothing but a swap makes rows stale: opening, closing, depositing, withdrawing
\* and aborting leave at most the rows to migrate that there were.
THEOREM OnlySwapsMakeRowsStale == Spec => MigrationOnlyShrinks
<1>1. Init => Inv
  BY InvInit, Zenon
<1>2. Inv /\ [Next]_vars => Inv'
  BY InvNext, Zenon
<1>3. Inv /\ [Next]_vars
        => [CommittedToken' = CommittedToken => NotMigrated' \subseteq NotMigrated]_vars
  BY InvNext, Zenon DEF Shrinks
<1> QED BY <1>1, <1>2, <1>3, PTL DEF Spec, MigrationOnlyShrinks

-----------------------------------------------------------------------------
(* Backing *)

\* SwapAccount exchanges two tokens for one another.
OneForAnother == \A t, u \in DOMAIN Exchange : Exchange[t] = u <=> t # u

\* What a transfer moves of t, if it comes from one side, and what all of them do.
Moves(from, t) ==
  [x \in Transfers |-> IF x.from = from /\ x.token = t THEN x.quantity ELSE 0]
Moved(u, from, t) == SumFunction(Weights(u, Moves(from, t)))

AmountsIn(r) == [n \in DOMAIN r |-> r[n].amount]
ClaimsIn(r, i) == SumFunction(AmountsIn(r)) + i.amount
HeldIn(c) == SumFunctionOnSet(c, DOMAIN Exchange)

\* The tokens of the other kind are only sent to be exchanged.
Outgoing(u, t) ==
  \A i \in DOMAIN u : u[i].from = Self /\ u[i].token # t => u[i].to = SwapAccount

\* What an abort puts back is backed as well.
Funds ==
  /\ token \in DOMAIN Exchange /\ Outgoing(inline, token)
  /\ HeldIn(custody) + Moved(inline, SwapAccount, token)
       = ClaimsIn(rows, inevm) + Moved(inline, Self, token)
  /\ inline # <<>> =>
       /\ saved.token \in DOMAIN Exchange
       /\ HeldIn(saved.custody) = ClaimsIn(saved.rows, saved.inevm)

\* The quantities of the transfers.
LEMMA MovesNat ==
  ASSUME NEW from, NEW t
  PROVE  \A x \in Transfers : Moves(from, t)[x] \in Nat
<1> SUFFICES ASSUME NEW x \in Transfers PROVE Moves(from, t)[x] \in Nat
  BY Zenon
<1> QED  BY Zenon DEF Moves, Transfers

\* What the transfers under way move, as a number, of two sequences, of one
\* transfer, of the first and the others, and of none.
LEMMA MovedFacts ==
  ASSUME NEW from, NEW t
  PROVE  /\ \A u \in Seq(Transfers) : Moved(u, from, t) \in Nat
         /\ \A u, v \in Seq(Transfers) : /\ u \o v \in Seq(Transfers)
                                         /\ Moved(u \o v, from, t) = Moved(u, from, t) + Moved(v, from, t)
         /\ \A x \in Transfers : /\ <<x>> \in Seq(Transfers)
                                 /\ Moved(<<x>>, from, t) = Moves(from, t)[x]
         /\ \A u \in Seq(Transfers) : u # <<>> =>
              Moved(u, from, t) = Moves(from, t)[Head(u)] + Moved(Tail(u), from, t)
         /\ <<>> \in Seq(Transfers) /\ Moved(<<>>, from, t) = 0
<1> DEFINE w == Moves(from, t)
<1>1. \A x \in Transfers : w[x] \in Nat
  BY MovesNat, Zenon
<1> HIDE DEF w
<1>2. \A u \in Seq(Transfers) : SumFunction(Weights(u, w)) \in Nat
  BY <1>1, WeightsNat, Zenon
<1>3. \A u, v \in Seq(Transfers) :
        /\ u \o v \in Seq(Transfers)
        /\ SumFunction(Weights(u \o v, w)) = SumFunction(Weights(u, w)) + SumFunction(Weights(v, w))
  BY <1>1, WeightsConcat
<1>4. \A x \in Transfers : <<x>> \in Seq(Transfers) /\ SumFunction(Weights(<<x>>, w)) = w[x]
  BY <1>1, WeightsOne
<1>5. \A u \in Seq(Transfers) : u # <<>> =>
        SumFunction(Weights(u, w)) = w[Head(u)] + SumFunction(Weights(Tail(u), w))
  BY <1>1, WeightsTail
<1>6. SumFunction(Weights(<<>>, w)) = 0
  BY WeightsNone, Zenon
<1> QED  BY <1>2, <1>3, <1>4, <1>5, <1>6 DEF Moved, w

\* What two sequences of transfers move.
LEMMA MovedConcat ==
  ASSUME NEW from, NEW t
  PROVE  \A u, v \in Seq(Transfers) : Moved(u \o v, from, t) = Moved(u, from, t) + Moved(v, from, t)
<1> DEFINE w == Moves(from, t)
<1>1. \A x \in Transfers : w[x] \in Nat
  BY MovesNat, Zenon
<1> HIDE DEF w
<1>2. \A u, v \in Seq(Transfers) :
        SumFunction(Weights(u \o v, w)) = SumFunction(Weights(u, w)) + SumFunction(Weights(v, w))
  BY <1>1, WeightsConcat
<1> QED  BY <1>2, Zenon DEF Moved, w

\* What the first transfer and the others move.
LEMMA MovedFirst ==
  ASSUME NEW from, NEW t, NEW u \in Seq(Transfers), u # <<>>
  PROVE  /\ Moved(u, from, t) = Moves(from, t)[Head(u)] + Moved(Tail(u), from, t)
         /\ Moved(Tail(u), from, t) \in Nat
<1> DEFINE w == Moves(from, t)
<1>1. \A x \in Transfers : w[x] \in Nat
  BY MovesNat, Zenon
<1>2. Tail(u) \in Seq(Transfers)
  OBVIOUS
<1> HIDE DEF w
<1>3. SumFunction(Weights(u, w)) = w[Head(u)] + SumFunction(Weights(Tail(u), w))
  BY <1>1, WeightsTail
<1>4. SumFunction(Weights(Tail(u), w)) \in Nat
  BY <1>1, <1>2, WeightsNat, Zenon
<1> QED  BY <1>3, <1>4, Zenon DEF Moved, w

\* The rows, added up.
LEMMA AmountsFinite ==
  ASSUME NEW r, NEW symbol, RowsOK(r, symbol)
  PROVE  /\ IsFiniteSet(DOMAIN AmountsIn(r)) /\ DOMAIN AmountsIn(r) = DOMAIN r
         /\ \A n \in DOMAIN r : AmountsIn(r)[n] = r[n].amount /\ r[n].amount \in Nat
         /\ SumFunction(AmountsIn(r)) \in Nat
<1>1. IsFiniteSet(Names)
  BY TokenSwapAssumption, FiniteAdd, Zenon DEF Names
<1>2. IsFiniteSet(DOMAIN r)
  BY <1>1, FiniteSubset, Zenon DEF RowsOK
<1>3. \A n \in DOMAIN r : AmountsIn(r)[n] = r[n].amount /\ r[n].amount \in Nat
  BY Zenon DEF RowsOK, AmountsIn, Amounts
<1>4. DOMAIN AmountsIn(r) = DOMAIN r
  BY Zenon DEF AmountsIn
<1> QED  BY <1>2, <1>3, <1>4, TotalNat, Zenon

\* One row changes.
LEMMA RowTotal ==
  ASSUME NEW r, NEW symbol, RowsOK(r, symbol), NEW owner \in DOMAIN r, NEW row \in Amounts
  PROVE  SumFunction(AmountsIn([r EXCEPT ![owner] = row]))
           = SumFunction(AmountsIn(r)) - r[owner].amount + row.amount
<1> DEFINE f == AmountsIn(r)
<1>1. /\ IsFiniteSet(DOMAIN f) /\ \A n \in DOMAIN f : f[n] \in Int
      /\ owner \in DOMAIN f /\ f[owner] = r[owner].amount
  BY AmountsFinite
<1>2. row.amount \in Int
  BY DEF Amounts
<1>3. AmountsIn([r EXCEPT ![owner] = row]) = [f EXCEPT ![owner] = row.amount]
  BY Zenon DEF AmountsIn
<1> HIDE DEF f
<1>4. SumFunction([f EXCEPT ![owner] = row.amount]) = SumFunction(f) - f[owner] + row.amount
  BY <1>1, <1>2, TotalUpdate, Zenon
<1> QED  BY <1>1, <1>3, <1>4, Zenon DEF f

\* A row with nothing in it appears or goes.
LEMMA EmptyRow ==
  ASSUME NEW r, NEW symbol, RowsOK(r, symbol), NEW owner \in DOMAIN r, r[owner].amount = 0,
         NEW s, DOMAIN s = DOMAIN r \ {owner}, \A n \in DOMAIN s : s[n] = r[n]
  PROVE  SumFunction(AmountsIn(s)) = SumFunction(AmountsIn(r))
<1> DEFINE f == AmountsIn(r)
           g == AmountsIn(s)
<1>1. /\ IsFiniteSet(DOMAIN f) /\ \A n \in DOMAIN f : f[n] \in Int
      /\ owner \in DOMAIN f /\ f[owner] = 0
  BY AmountsFinite
<1>2. DOMAIN g = DOMAIN f \ {owner} /\ \A n \in DOMAIN g : g[n] = f[n]
  BY Zenon DEF AmountsIn
<1> HIDE DEF f, g
<1> QED  BY <1>1, <1>2, TotalDrop, Zenon DEF f, g

\* There are two tokens SwapAccount exchanges.
LEMMA ExchangeFinite ==
  ASSUME OneForAnother
  PROVE  IsFiniteSet(DOMAIN Exchange)
<1> DEFINE D == DOMAIN Exchange
<1>1. FirstToken \in D /\ Exchange[FirstToken] \in D
  BY TokenSwapAssumption, Zenon
<1>2. \A u \in D : u # FirstToken => u = Exchange[FirstToken]
  BY <1>1, Zenon DEF OneForAnother
<1> DEFINE first == {} \cup {FirstToken}
<1>3. D = first \cup {Exchange[FirstToken]}
  BY <1>1, <1>2, Zenon
<1>4. IsFiniteSet(first)
  BY FiniteEmpty, FiniteAdd, Zenon
<1> HIDE DEF first
<1> QED  BY <1>3, <1>4, FiniteAdd, Zenon

\* The tokens that count, added up, and the difference one of them makes.
LEMMA HeldFacts ==
  ASSUME OneForAnother, NEW c \in [Tokens -> Nat]
  PROVE  /\ HeldIn(c) \in Nat
         /\ \A t \in Tokens, v \in Nat :
              HeldIn([c EXCEPT ![t] = v]) = IF t \in DOMAIN Exchange THEN HeldIn(c) - c[t] + v
                                            ELSE HeldIn(c)
<1> DEFINE D == DOMAIN Exchange
<1>1. IsFiniteSet(D)
  BY ExchangeFinite, Zenon
<1>2. D \subseteq Tokens /\ \A t \in D : c[t] \in Nat
  BY TokenSwapAssumption, Zenon
<1> HIDE DEF D
<1>3. SumFunctionOnSet(c, D) \in Nat
  BY <1>1, <1>2, SumNat, Zenon
<1>4. ASSUME NEW t \in Tokens, NEW v \in Nat
      PROVE  SumFunctionOnSet([c EXCEPT ![t] = v], D)
               = IF t \in D THEN SumFunctionOnSet(c, D) - c[t] + v ELSE SumFunctionOnSet(c, D)
  <2> DEFINE d == [c EXCEPT ![t] = v]
  <2>1. (\A x \in D : d[x] = IF x = t THEN v ELSE c[x]) /\ (t \in D => d[t] = v)
    BY <1>2, Zenon
  <2> HIDE DEF d
  <2>2. CASE t \in D
    <3>1. IsFiniteSet(D \ {t}) /\ (\A x \in D \ {t} : d[x] = c[x] /\ c[x] \in Int)
      BY <1>1, <1>2, <2>1, FiniteSubset
    <3>2. \A x \in D : d[x] \in Int /\ c[x] \in Int
      BY <1>2, <2>1
    <3>3. SumFunctionOnSet(d, D) = d[t] + SumFunctionOnSet(d, D \ {t})
      BY <1>1, <2>2, <3>2, SumAny
    <3>4. SumFunctionOnSet(c, D) = c[t] + SumFunctionOnSet(c, D \ {t})
      BY <1>1, <2>2, <3>2, SumAny
    <3>5. SumFunctionOnSet(d, D \ {t}) = SumFunctionOnSet(c, D \ {t})
      BY <3>1, SumSame, Zenon
    <3>6. SumFunctionOnSet(c, D \ {t}) \in Int /\ c[t] \in Int
      BY <2>2, <3>1, <3>2, SumInt, Zenon
    <3> QED  BY <2>1, <2>2, <3>3, <3>4, <3>5, <3>6 DEF d
  <2>3. CASE t \notin D
    <3>1. \A x \in D : c[x] \in Int /\ d[x] = c[x]
      BY <1>2, <2>1, <2>3
    <3> QED  BY <1>1, <2>3, <3>1, SumSame, Zenon DEF d
  <2> QED  BY <2>2, <2>3, Zenon
<1> QED  BY <1>3, <1>4, Zenon DEF HeldIn, D

\* What the equation of Funds is about, as numbers.
LEMMA FundsNumbers ==
  ASSUME OneForAnother, Inv
  PROVE  /\ HeldIn(custody) \in Nat /\ ClaimsIn(rows, inevm) \in Nat
         /\ inevm.amount \in Nat /\ SumFunction(AmountsIn(rows)) \in Nat
<1>1. inevm.amount \in Nat
  BY PresentFacts, Zenon DEF Amounts
<1>2. SumFunction(AmountsIn(rows)) \in Nat
  BY PresentFacts, AmountsFinite, Zenon
<1> QED  BY <1>1, <1>2, PresentFacts, HeldFacts DEF ClaimsIn

\* And after a step.
LEMMA FundsNumbersNext ==
  ASSUME OneForAnother, Inv'
  PROVE  /\ HeldIn(custody') \in Nat /\ ClaimsIn(rows', inevm') \in Nat
         /\ inevm'.amount \in Nat /\ SumFunction(AmountsIn(rows')) \in Nat
<1>1. HeldIn(custody') \in Nat
  BY HeldFacts, Zenon DEF Inv, Present, TablesOK
<1>2. inevm'.amount \in Nat /\ RowsOK(rows', token'.symbol)
  BY Zenon DEF Inv, Present, TablesOK, Amounts, RowsOK
<1>3. SumFunction(AmountsIn(rows')) \in Nat
  BY <1>2, AmountsFinite, Zenon
<1> QED  BY <1>1, <1>2, <1>3 DEF ClaimsIn

\* A step that balances what is held, claimed and sent keeps the bridge backed,
\* and the tables an abort puts back as well.
LEMMA StepFunds ==
  ASSUME OneForAnother, Inv, Inv', Funds,
         NEW transfers \in Seq(Transfers), NEW rest \in Seq(Transfers), Continue(transfers, rest),
         token' \in DOMAIN Exchange, Outgoing(transfers, token'), Outgoing(rest, token'),
         HeldIn(custody') + (Moved(transfers, SwapAccount, token') + Moved(rest, SwapAccount, token'))
           = ClaimsIn(rows', inevm') + (Moved(transfers, Self, token') + Moved(rest, Self, token'))
  PROVE  Funds'
<1>1. inline' = transfers \o rest
  BY Zenon DEF Continue
<1>2. \A from : Moved(inline', from, token') = Moved(transfers, from, token') + Moved(rest, from, token')
  <2> TAKE from
  <2>1. Moved(transfers \o rest, from, token') = Moved(transfers, from, token') + Moved(rest, from, token')
    <3> DEFINE t == token'
    <3> HIDE DEF t
    <3>1. \A u, v \in Seq(Transfers) : Moved(u \o v, from, t) = Moved(u, from, t) + Moved(v, from, t)
      BY MovedConcat, Zenon
    <3>2. Moved(transfers \o rest, from, t) = Moved(transfers, from, t) + Moved(rest, from, t)
      BY <3>1, Zenon
    <3> QED  BY <3>2, Zenon DEF t
  <2> QED  BY <1>1, <2>1, Zenon
<1>3. HeldIn(custody') + Moved(inline', SwapAccount, token')
        = ClaimsIn(rows', inevm') + Moved(inline', Self, token')
  BY <1>2, Zenon
<1>4. Outgoing(inline', token')
  BY <1>1 DEF Outgoing
<1>5. ASSUME inline' # <<>>
      PROVE  /\ saved'.token \in DOMAIN Exchange
             /\ HeldIn(saved'.custody) = ClaimsIn(saved'.rows, saved'.inevm)
  <2>1. CASE inline = <<>>
    <3>1. saved' = Snapshot
      BY <1>5, <2>1, Zenon DEF Continue
    <3>2. \A from : Moved(inline, from, token) = 0
      BY <2>1, MovedFacts, Zenon
    <3>3. HeldIn(custody) = ClaimsIn(rows, inevm) /\ token \in DOMAIN Exchange
      BY <3>2, FundsNumbers DEF Funds
    <3> QED  BY <3>1, <3>3, Zenon DEF Snapshot
  <2>2. CASE inline # <<>>
    BY <1>5, <2>2, Zenon DEF Continue, Funds
  <2> QED  BY <2>1, <2>2, Zenon
<1> QED  BY <1>3, <1>4, <1>5, Zenon DEF Funds, Outgoing, Moved, ClaimsIn, AmountsIn, HeldIn,
            Weights, Moves

\* A step that leaves the token alone and adds to what runs.
LEMMA StepAdds ==
  ASSUME OneForAnother, Inv, Inv', Funds, token' = token,
         NEW transfers \in Seq(Transfers), Continue(transfers, inline), Outgoing(transfers, token),
         HeldIn(custody') + Moved(transfers, SwapAccount, token) + ClaimsIn(rows, inevm)
           = HeldIn(custody) + ClaimsIn(rows', inevm') + Moved(transfers, Self, token)
  PROVE  Funds'
<1>1. inline \in Seq(Transfers)
  BY InlineSequences, Zenon
<1>2. \A from : Moved(transfers, from, token) \in Nat /\ Moved(inline, from, token) \in Nat
  BY <1>1, MovedFacts, Zenon
<1>3. /\ HeldIn(custody) \in Nat /\ ClaimsIn(rows, inevm) \in Nat
      /\ HeldIn(custody') \in Nat /\ ClaimsIn(rows', inevm') \in Nat
  BY FundsNumbers, FundsNumbersNext, Zenon
<1>4. HeldIn(custody) + Moved(inline, SwapAccount, token)
        = ClaimsIn(rows, inevm) + Moved(inline, Self, token)
  BY Zenon DEF Funds
<1>5. HeldIn(custody') + (Moved(transfers, SwapAccount, token) + Moved(inline, SwapAccount, token))
        = ClaimsIn(rows', inevm') + (Moved(transfers, Self, token) + Moved(inline, Self, token))
  <2> DEFINE x == Moved(transfers, SwapAccount, token)
             y == Moved(transfers, Self, token)
             v == Moved(inline, SwapAccount, token)
             w == Moved(inline, Self, token)
             a == HeldIn(custody')
             b == ClaimsIn(rows', inevm')
             c == HeldIn(custody)
             d == ClaimsIn(rows, inevm)
  <2>1. x \in Nat /\ y \in Nat /\ v \in Nat /\ w \in Nat /\ a \in Nat /\ b \in Nat /\ c \in Nat /\ d \in Nat
    BY <1>2, <1>3, Zenon
  <2>2. a + x + d = c + b + y /\ c + v = d + w
    BY <1>4, Zenon
  <2> HIDE DEF x, y, v, w, a, b, c, d
  <2>3. a + (x + v) = b + (y + w)
    BY ONLY <2>1, <2>2
  <2> QED  BY <2>3, Zenon DEF x, y, v, w, a, b, c, d
<1> QED  BY <1>1, <1>5, StepFunds, Zenon DEF Funds

\* What a single transfer moves.
LEMMA SentMoves ==
  ASSUME NEW f \in {Self, SwapAccount}, NEW t \in Tokens, NEW quantity \in Nat,
         NEW to \in Names \cup {SwapAccount}, NEW from, NEW u
  PROVE  Moved(<<Transfer(f, t, quantity, to)>>, from, u) = IF f = from /\ t = u THEN quantity ELSE 0
<1> DEFINE x == Transfer(f, t, quantity, to)
<1>1. /\ x \in Transfers /\ x.from = f /\ x.token = t /\ x.quantity = quantity
  BY Zenon DEF Transfer, Transfers
<1> HIDE DEF x
<1>2. Moves(from, u)[x] = IF f = from /\ t = u THEN quantity ELSE 0
  BY <1>1, Zenon DEF Moves
<1>3. Moved(<<x>>, from, u) = Moves(from, u)[x]
  BY <1>1, MovedFacts
<1> QED  BY <1>2, <1>3, Zenon DEF x

\* A step that sends nothing moves what it claims into or out of custody.
LEMMA StepSendsNothing ==
  ASSUME OneForAnother, Inv, Inv', Funds, token' = token, Continue(<<>>, inline),
         HeldIn(custody') + ClaimsIn(rows, inevm) = HeldIn(custody) + ClaimsIn(rows', inevm')
  PROVE  Funds'
<1> DEFINE none == <<>>
           out == Moved(none, SwapAccount, token)
           back == Moved(none, Self, token)
<1>1. none \in Seq(Transfers) /\ Outgoing(none, token) /\ out = 0 /\ back = 0
  BY MovedFacts DEF Outgoing
<1>2. HeldIn(custody') + out + ClaimsIn(rows, inevm) = HeldIn(custody) + ClaimsIn(rows', inevm') + back
  <2> DEFINE a == HeldIn(custody')
             b == ClaimsIn(rows', inevm')
             c == HeldIn(custody)
             d == ClaimsIn(rows, inevm)
  <2>1. a \in Nat /\ b \in Nat /\ c \in Nat /\ d \in Nat
    BY FundsNumbers, FundsNumbersNext, Zenon
  <2>2. a + d = c + b
    BY Zenon
  <2> HIDE DEF a, b, c, d, out, back
  <2>3. a + out + d = c + b + back
    BY ONLY <1>1, <2>1, <2>2
  <2> QED  BY <2>3, Zenon DEF a, b, c, d
<1>3. Continue(none, inline)
  BY Zenon
<1> HIDE DEF none
<1> QED  BY <1>1, <1>2, <1>3, StepAdds, Zenon

\* A step that sends gas tokens away settles a claim.
LEMMA StepPays ==
  ASSUME OneForAnother, Inv, Inv', Funds, token' = token, UNCHANGED custody,
         NEW quantity \in Nat, NEW to \in Names \cup {SwapAccount},
         Continue(<<Transfer(Self, token, quantity, to)>>, inline),
         ClaimsIn(rows, inevm) = ClaimsIn(rows', inevm') + quantity
  PROVE  Funds'
<1> DEFINE sent == <<Transfer(Self, token, quantity, to)>>
           out == Moved(sent, SwapAccount, token)
           back == Moved(sent, Self, token)
<1>0. token \in Tokens
  BY PresentFacts, Zenon
<1>1. sent \in Seq(Transfers)
  BY ONLY <1>0, quantity \in Nat, to \in Names \cup {SwapAccount}, Sent, Zenon
<1>2. out = 0 /\ back = quantity
  BY PresentFacts, SentMoves, TokenSwapAssumption DEF Names
<1>3. Outgoing(sent, token)
  BY DEF Outgoing, Transfer
<1>4. HeldIn(custody') + out + ClaimsIn(rows, inevm) = HeldIn(custody) + ClaimsIn(rows', inevm') + back
  <2> DEFINE b == ClaimsIn(rows', inevm')
             c == HeldIn(custody)
             d == ClaimsIn(rows, inevm)
  <2>1. b \in Nat /\ c \in Nat /\ d \in Nat /\ quantity \in Nat
    BY FundsNumbers, FundsNumbersNext, Zenon
  <2>2. d = b + quantity
    BY Zenon
  <2> HIDE DEF b, c, d, out, back
  <2>3. c + out + d = c + b + back
    BY ONLY <1>2, <2>1, <2>2
  <2> QED  BY <2>3, Zenon DEF b, c, d
<1>5. Continue(sent, inline)
  BY Zenon
<1> HIDE DEF sent
<1> QED  BY <1>1, <1>3, <1>4, <1>5, StepAdds, Zenon

\* A row changes, and with it the claims.
LEMMA RowClaims ==
  ASSUME Inv, NEW owner \in DOMAIN rows, NEW row \in Amounts, NEW r,
         r = [rows EXCEPT ![owner] = row]
  PROVE  /\ SumFunction(AmountsIn(r)) = SumFunction(AmountsIn(rows)) - rows[owner].amount + row.amount
         /\ rows[owner].amount \in Nat /\ row.amount \in Nat
<1>1. RowsOK(rows, token.symbol)
  BY PresentFacts, Zenon
<1> QED  BY <1>1, RowTotal, Zenon DEF RowsOK, Amounts

\* What is added to and taken from a row.
LEMMA RowArithmetic ==
  ASSUME NEW row \in Amounts, NEW quantity \in Nat
  PROVE  /\ Plus(row, quantity).amount = row.amount + quantity
         /\ Minus(row, quantity).amount = row.amount - quantity
BY Zenon DEF Plus, Minus, Amounts

\* migratebal changes no amount.
LEMMA MigrateBalFunds ==
  ASSUME OneForAnother, Inv, Inv', Funds, NEW from, NEW limit, MigrateBal(from, limit)
  PROVE  Funds'
<1>1. \A n \in DOMAIN rows : rows[n] \in Amounts
  BY PresentFacts, Zenon DEF RowsOK
<1>2. AmountsIn(rows') = AmountsIn(rows)
  BY <1>1, Zenon DEF MigrateBal, Migration, Labelled, AmountsIn, Amounts
<1>3. ClaimsIn(rows', inevm') = ClaimsIn(rows, inevm)
  BY <1>2, Zenon DEF ClaimsIn, MigrateBal
<1> QED  BY <1>3, StepSendsNothing, Zenon DEF MigrateBal

\* A row that is opened is empty.
LEMMA OpenedEmpty ==
  ASSUME Inv, NEW owner \in Names
  PROVE  SumFunction(AmountsIn(WithRow(rows, owner))) = SumFunction(AmountsIn(rows))
<1> DEFINE r == WithRow(rows, owner)
<1>1. RowsOK(r, token.symbol)
  BY RowAdded, Zenon
<1>2. CASE owner \in DOMAIN rows
  <2>1. AmountsIn(r) = AmountsIn(rows)
    BY <1>2, Zenon DEF AmountsIn, WithRow
  <2> QED  BY <2>1, Zenon
<1>3. CASE owner \notin DOMAIN rows
  <2>1. /\ owner \in DOMAIN r /\ r[owner].amount = 0
        /\ DOMAIN rows = DOMAIN r \ {owner} /\ \A n \in DOMAIN rows : rows[n] = r[n]
    BY <1>3, Zenon DEF WithRow
  <2> DEFINE symbol == token.symbol
  <2>2. RowsOK(r, symbol)
    BY <1>1, Zenon
  <2> HIDE DEF r, symbol
  <2>3. SumFunction(AmountsIn(rows)) = SumFunction(AmountsIn(r))
    BY <2>1, <2>2, EmptyRow, Zenon
  <2> QED  BY <2>3, Zenon DEF r
<1> QED  BY <1>2, <1>3, Zenon

\* A row that is opened or closed is empty.
LEMMA RowActionsFunds ==
  ASSUME OneForAnother, Inv, Inv', Funds, NEW owner \in Names,
         Open(owner) \/ Close(owner) \/ \E s \in Symbols : BridgeReg(owner, s)
  PROVE  Funds'
<1>1. CASE Open(owner)
  <2>1. ClaimsIn(rows', inevm') = ClaimsIn(rows, inevm)
    BY <1>1, OpenedEmpty, Zenon DEF Open, ClaimsIn
  <2> QED  BY <1>1, <2>1, StepSendsNothing, Zenon DEF Open
<1>2. CASE Close(owner)
  <2>1. RowsOK(rows, token.symbol) /\ owner \in DOMAIN rows /\ rows[owner].amount = 0
    BY <1>2, PresentFacts, Zenon DEF Close
  <2>2. DOMAIN rows' = DOMAIN rows \ {owner} /\ \A n \in DOMAIN rows' : rows'[n] = rows[n]
    BY <1>2, Zenon DEF Close, Restrict
  <2>3. SumFunction(AmountsIn(rows')) = SumFunction(AmountsIn(rows))
    BY <2>1, <2>2, EmptyRow, Zenon
  <2>4. ClaimsIn(rows', inevm') = ClaimsIn(rows, inevm)
    BY <1>2, <2>3, Zenon DEF Close, ClaimsIn
  <2> QED  BY <1>2, <2>4, StepSendsNothing, Zenon DEF Close
<1>3. CASE \E s \in Symbols : BridgeReg(owner, s)
  <2>1. PICK s \in Symbols : BridgeReg(owner, s)
    BY <1>3, Zenon
  <2>2. ClaimsIn(rows', inevm') = ClaimsIn(rows, inevm)
    BY <2>1, OpenedEmpty, Zenon DEF BridgeReg, ClaimsIn
  <2>3. Continue(<<>>, inline)
    BY <2>1, NothingSent, Zenon DEF BridgeReg
  <2> QED  BY <2>1, <2>2, <2>3, StepSendsNothing, Zenon DEF BridgeReg
<1> QED  BY <1>1, <1>2, <1>3, Zenon

\* What the contract receives is the gas token.
LEMMA ReceivedToken ==
  ASSUME Inv, NEW t \in Tokens, Received(t)
  PROVE  t = token
BY PresentFacts, TokenSwapAssumption, Zenon DEF Received

\* A deposit of the gas token raises what is held.
LEMMA DepositHeld ==
  ASSUME OneForAnother, Inv, Funds, NEW t \in Tokens, Received(t), NEW quantity \in Nat, NEW c,
         c = [custody EXCEPT ![t] = @ + quantity]
  PROVE  HeldIn(c) = HeldIn(custody) + quantity
<1>1. t = token /\ t \in DOMAIN Exchange
  BY ReceivedToken, Zenon DEF Funds
<1>2. custody \in [Tokens -> Nat] /\ custody[t] \in Nat
  BY PresentFacts, Zenon
<1> DEFINE v == custody[t] + quantity
<1>3. v \in Nat /\ c = [custody EXCEPT ![t] = v]
  BY <1>2
<1>4. HeldIn(custody) \in Nat
  BY FundsNumbers, Zenon
<1> HIDE DEF v
<1>5. \A x \in Tokens, y \in Nat :
        HeldIn([custody EXCEPT ![x] = y]) = IF x \in DOMAIN Exchange THEN HeldIn(custody) - custody[x] + y
                                            ELSE HeldIn(custody)
  BY <1>2, HeldFacts, Zenon
<1>6. HeldIn([custody EXCEPT ![t] = v]) = HeldIn(custody) - custody[t] + v
  BY <1>1, <1>3, <1>5, Zenon
<1> QED  BY <1>2, <1>3, <1>4, <1>6 DEF v

\* Deposits raise what is held and what is claimed.
LEMMA DepositsFunds ==
  ASSUME OneForAnother, Inv, Inv', Funds, NEW from, NEW receiver, NEW t \in Tokens,
         NEW quantity \in Quantities,
         DepositToAccount(from, receiver, t, quantity) \/ DepositToEvm(from, t, quantity)
  PROVE  Funds'
<1>1. quantity \in Nat /\ Fee \in Nat
  BY TokenSwapAssumption, Zenon
<1>2. HeldIn(custody') = HeldIn(custody) + quantity
  BY <1>1, DepositHeld, Zenon DEF DepositToAccount, DepositToEvm
<1>3. HeldIn(custody) \in Nat /\ inevm.amount \in Nat /\ SumFunction(AmountsIn(rows)) \in Nat
  BY FundsNumbers, Zenon
<1>4. SUFFICES ClaimsIn(rows', inevm') = ClaimsIn(rows, inevm) + quantity
  <2>1. Continue(<<>>, inline) /\ token' = token
    BY Zenon DEF DepositToAccount, DepositToEvm
  <2>2. HeldIn(custody') + ClaimsIn(rows, inevm) = HeldIn(custody) + ClaimsIn(rows', inevm')
    BY <1>1, <1>2, <1>3, <1>4 DEF ClaimsIn
  <2> QED  BY <2>1, <2>2, StepSendsNothing, Zenon
<1>5. CASE DepositToAccount(from, receiver, t, quantity)
  <2> DEFINE row == Plus(rows[receiver], quantity)
  <2>1. receiver \in DOMAIN rows /\ rows[receiver] \in Amounts
    BY <1>5, PresentFacts, Zenon DEF DepositToAccount, RowsOK
  <2>2. row \in Amounts /\ row.amount = rows[receiver].amount + quantity
    BY <1>1, <2>1, Arithmetic, RowArithmetic, Zenon
  <2>3. rows' = [rows EXCEPT ![receiver] = row] /\ inevm' = inevm
    BY <1>5, Zenon DEF DepositToAccount
  <2> HIDE DEF row
  <2>4. /\ SumFunction(AmountsIn(rows')) = SumFunction(AmountsIn(rows)) - rows[receiver].amount + row.amount
        /\ rows[receiver].amount \in Nat
    BY <2>1, <2>2, <2>3, RowClaims, Zenon
  <2> QED  BY <1>1, <1>3, <2>2, <2>3, <2>4 DEF ClaimsIn
<1>6. CASE DepositToEvm(from, t, quantity)
  <2> DEFINE row == Plus(rows[Self], Fee)
  <2>1. Self \in DOMAIN rows /\ rows[Self] \in Amounts
    BY PresentFacts, Zenon DEF RowsOK
  <2>2. row \in Amounts /\ row.amount = rows[Self].amount + Fee
    BY <1>1, <2>1, Arithmetic, RowArithmetic, Zenon
  <2>3. rows' = [rows EXCEPT ![Self] = row] /\ inevm' = Plus(inevm, quantity - Fee) /\ quantity > Fee
    BY <1>6, Zenon DEF DepositToEvm
  <2>4. inevm'.amount = inevm.amount + (quantity - Fee)
    <3>1. quantity - Fee \in Nat /\ inevm \in Amounts
      BY <1>1, <2>3, PresentFacts
    <3> QED  BY <2>3, <3>1, RowArithmetic, Zenon
  <2> HIDE DEF row
  <2>5. /\ SumFunction(AmountsIn(rows')) = SumFunction(AmountsIn(rows)) - rows[Self].amount + row.amount
        /\ rows[Self].amount \in Nat
    BY <2>1, <2>2, <2>3, RowClaims, Zenon
  <2> QED  BY <1>1, <1>3, <2>2, <2>4, <2>5 DEF ClaimsIn
<1> QED  BY <1>5, <1>6, Zenon

\* withdraw settles what it takes from the row.
LEMMA WithdrawFunds ==
  ASSUME OneForAnother, Inv, Inv', Funds, NEW owner \in Names, NEW quantity \in Quantities,
         NEW to \in Accounts \cup {SwapAccount}, Withdraw(owner, quantity, to)
  PROVE  Funds'
<1> DEFINE old == Relabelled(rows[owner])
           row == Minus(old, quantity)
<1>1. quantity \in Nat /\ owner \in DOMAIN rows /\ rows[owner] \in Amounts
  BY TokenSwapAssumption, PresentFacts, Zenon DEF Withdraw, RowsOK
<1>2. old \in Amounts /\ old.amount = rows[owner].amount /\ old.amount >= quantity
  BY <1>1, PresentFacts, Zenon DEF Withdraw, Relabelled, Labelled, Covers, Amounts
<1>3. row \in Amounts /\ row.amount = rows[owner].amount - quantity
  BY <1>1, <1>2, Arithmetic, RowArithmetic, Zenon
<1>4. rows' = [rows EXCEPT ![owner] = row] /\ inevm' = inevm
  BY Zenon DEF Withdraw
<1> HIDE DEF row
<1>5. /\ SumFunction(AmountsIn(rows')) = SumFunction(AmountsIn(rows)) - rows[owner].amount + row.amount
      /\ rows[owner].amount \in Nat
  BY <1>1, <1>3, <1>4, RowClaims, Zenon
<1>6. inevm.amount \in Nat /\ SumFunction(AmountsIn(rows)) \in Nat
  BY FundsNumbers, Zenon
<1>7. ClaimsIn(rows, inevm) = ClaimsIn(rows', inevm') + quantity
  BY <1>1, <1>3, <1>4, <1>5, <1>6 DEF ClaimsIn
<1> QED  BY <1>1, <1>7, StepPays, Zenon DEF Withdraw, Names

\* Value enters the EVM from a row.
LEMMA IngressFunds ==
  ASSUME OneForAnother, Inv, Inv', Funds, NEW name \in Names, NEW amount \in Quantities,
         Ingress(name, amount)
  PROVE  Funds'
<1> DEFINE row == Minus(rows[name], amount)
<1>1. amount \in Nat /\ inevm \in Amounts
  BY TokenSwapAssumption, PresentFacts, Zenon
<1>2. inevm.amount \in Nat /\ SumFunction(AmountsIn(rows)) \in Nat
  BY FundsNumbers, Zenon
<1>3. name \in DOMAIN rows /\ rows[name] \in Amounts /\ rows[name].amount >= amount
  BY PresentFacts, Zenon DEF Ingress, RowsOK, Covers
<1>4. row \in Amounts /\ row.amount = rows[name].amount - amount
  BY <1>1, <1>3, Arithmetic, RowArithmetic, Zenon
<1>5. rows' = [rows EXCEPT ![name] = row] /\ inevm'.amount = inevm.amount + amount
  BY <1>1, RowArithmetic, Zenon DEF Ingress
<1> HIDE DEF row
<1>6. /\ SumFunction(AmountsIn(rows')) = SumFunction(AmountsIn(rows)) - rows[name].amount + row.amount
      /\ rows[name].amount \in Nat
  BY <1>3, <1>4, <1>5, RowClaims, Zenon
<1>7. ClaimsIn(rows', inevm') = ClaimsIn(rows, inevm)
  BY <1>1, <1>2, <1>4, <1>5, <1>6 DEF ClaimsIn
<1> QED  BY <1>7, StepSendsNothing, Zenon DEF Ingress

\* Value leaves the EVM, for a row or as a transfer.
LEMMA EgressFunds ==
  ASSUME OneForAnother, Inv, Inv', Funds, NEW name \in Names, NEW amount \in Quantities,
         Egress(name, amount)
  PROVE  Funds'
<1>1. amount \in Nat /\ inevm \in Amounts
  BY TokenSwapAssumption, PresentFacts, Zenon
<1>2. inevm.amount \in Nat /\ SumFunction(AmountsIn(rows)) \in Nat
  BY FundsNumbers, Zenon
<1>3. inevm'.amount = inevm.amount - amount
  BY <1>1, RowArithmetic, Zenon DEF Egress
<1>4. CASE name \in DOMAIN rows
  <2> DEFINE row == Plus(rows[name], amount)
  <2>1. rows[name] \in Amounts
    BY <1>4, PresentFacts, Zenon DEF RowsOK
  <2>2. row \in Amounts /\ row.amount = rows[name].amount + amount
    BY <1>1, <2>1, Arithmetic, RowArithmetic, Zenon
  <2>3. rows' = [rows EXCEPT ![name] = row] /\ Continue(<<>>, inline)
    BY <1>4, Zenon DEF Egress
  <2> HIDE DEF row
  <2>4. /\ SumFunction(AmountsIn(rows')) = SumFunction(AmountsIn(rows)) - rows[name].amount + row.amount
        /\ rows[name].amount \in Nat
    BY <1>4, <2>2, <2>3, RowClaims, Zenon
  <2>5. ClaimsIn(rows', inevm') = ClaimsIn(rows, inevm)
    BY <1>1, <1>2, <1>3, <2>2, <2>4 DEF ClaimsIn
  <2> QED  BY <2>3, <2>5, StepSendsNothing, Zenon DEF Egress
<1>5. CASE name \notin DOMAIN rows
  <2>1. rows' = rows /\ Continue(<<Transfer(Self, token, amount, name)>>, inline)
    BY <1>5, Zenon DEF Egress
  <2>2. ClaimsIn(rows, inevm) = ClaimsIn(rows', inevm') + amount
    BY <1>1, <1>2, <1>3, <2>1 DEF ClaimsIn
  <2> QED  BY <1>1, <2>1, <2>2, StepPays, Zenon DEF Egress
<1> QED  BY <1>4, <1>5, Zenon

\* Tokens that are not the gas token go to be exchanged: the swap itself, and
\* afterwards.
LEMMA StepExchanges ==
  ASSUME OneForAnother, Inv, Inv', Funds, inline = <<>>, token' \in DOMAIN Exchange,
         UNCHANGED custody, ClaimsIn(rows', inevm') = ClaimsIn(rows, inevm),
         NEW transfers, Continue(transfers, <<>>),
         \/ transfers = <<>>
         \/ \E t \in Tokens \ {token'} : transfers = <<Transfer(Self, t, custody[t], SwapAccount)>>
  PROVE  Funds'
<1> DEFINE none == <<>>
           after == token'
<1>1. none \in Seq(Transfers) /\ Outgoing(none, after) /\ \A from, t : Moved(none, from, t) = 0
  BY MovedFacts DEF Outgoing
<1>2. transfers \in Seq(Transfers) /\ Outgoing(transfers, after) /\ \A from : Moved(transfers, from, after) = 0
  <2>1. CASE transfers = <<>>
    BY <1>1, <2>1, Zenon
  <2>2. CASE \E t \in Tokens \ {after} : transfers = <<Transfer(Self, t, custody[t], SwapAccount)>>
    <3>1. PICK t \in Tokens \ {after} : transfers = <<Transfer(Self, t, custody[t], SwapAccount)>>
      BY <2>2, Zenon
    <3>2. custody[t] \in Nat
      BY PresentFacts, Zenon
    <3>3. transfers \in Seq(Transfers)
      BY <3>1, <3>2, Sent, Zenon
    <3>4. \A from : Moved(transfers, from, after) = 0
      <4> DEFINE q == custody[t]
      <4> HIDE DEF q, after
      <4> TAKE from
      <4>1. Moved(<<Transfer(Self, t, q, SwapAccount)>>, from, after) = IF Self = from /\ t = after THEN q ELSE 0
        <5>1. q \in Nat /\ t \in Tokens
          BY <3>1, <3>2, Zenon DEF q
        <5> QED  BY ONLY <5>1, SentMoves
      <4>2. transfers = <<Transfer(Self, t, q, SwapAccount)>> /\ t # after
        BY <3>1, Zenon DEF q
      <4> QED  BY <4>1, <4>2, Zenon
    <3>5. Outgoing(transfers, after)
      BY <3>1 DEF Outgoing, Transfer
    <3> QED  BY <3>3, <3>4, <3>5, Zenon
  <2> QED  BY <2>1, <2>2, Zenon
<1>3. HeldIn(custody) = ClaimsIn(rows, inevm) /\ HeldIn(custody) \in Nat
  BY <1>1, FundsNumbers DEF Funds
<1>4. HeldIn(custody') + (Moved(transfers, SwapAccount, after) + Moved(none, SwapAccount, after))
        = ClaimsIn(rows', inevm') + (Moved(transfers, Self, after) + Moved(none, Self, after))
  BY <1>1, <1>2, <1>3, Zenon
<1>5. Continue(transfers, none)
  BY Zenon
<1> HIDE DEF none
<1> QED  BY <1>1, <1>2, <1>4, <1>5, StepFunds, Zenon

\* The swap and the exchange afterwards touch no amount.
LEMMA ExchangeFunds ==
  ASSUME OneForAnother, Inv, Inv', Funds, NEW t \in Tokens,
         \/ ExchangeByHand(t)
         \/ t \in DOMAIN Exchange /\ \E dest \in Dests : SwapGasToken(t, dest)
  PROVE  Funds'
<1>1. CASE ExchangeByHand(t)
  <2> DEFINE transfers == <<Transfer(Self, t, custody[t], SwapAccount)>>
  <2>1. /\ inline = <<>> /\ t # token /\ Continue(transfers, <<>>)
        /\ token' = token /\ rows' = rows /\ inevm' = inevm /\ custody' = custody
    BY <1>1, Zenon DEF ExchangeByHand, tables
  <2>2. t \in Tokens \ {token'} /\ token' \in DOMAIN Exchange /\ ClaimsIn(rows', inevm') = ClaimsIn(rows, inevm)
    BY <2>1, Zenon DEF Funds
  <2>3. \E x \in Tokens \ {token'} : transfers = <<Transfer(Self, x, custody[x], SwapAccount)>>
    BY <2>2, Zenon
  <2> HIDE DEF transfers
  <2> QED  BY <2>1, <2>2, <2>3, StepExchanges, Zenon
<1>2. ASSUME t \in DOMAIN Exchange, NEW dest \in Dests, SwapGasToken(t, dest)
      PROVE  Funds'
  <2> USE <1>2
  <2>1. t # token
    BY PresentFacts, SelfVisited, Zenon DEF SwapGasToken, SomethingChanges, RowsOK
  <2>2. AmountsIn(rows') = AmountsIn(rows)
    <3>1. \A n \in DOMAIN rows : rows[n] \in Amounts
      BY PresentFacts, Zenon DEF RowsOK
    <3> QED  BY <3>1, Zenon DEF SwapGasToken, SelfMigrated, Migration, Labelled, AmountsIn, Amounts
  <2>3. inevm'.amount = inevm.amount
    BY PresentFacts, Zenon DEF SwapGasToken, Amounts
  <2>4. ClaimsIn(rows', inevm') = ClaimsIn(rows, inevm)
    BY <2>2, <2>3, Zenon DEF ClaimsIn
  <2>5. inline = <<>> /\ token' = t /\ custody' = custody /\ Continue(OldTokensSent(dest), <<>>)
    BY Zenon DEF SwapGasToken
  <2> DEFINE transfers == OldTokensSent(dest)
  <2>6. \/ transfers = <<>>
        \/ \E x \in Tokens \ {token'} : transfers = <<Transfer(Self, x, custody[x], SwapAccount)>>
    <3>1. dest = None \/ dest = SwapAccount
      BY TokenSwapAssumption, Zenon
    <3>2. token \in Tokens \ {token'}
      BY <2>1, <2>5, PresentFacts, Zenon
    <3> QED  BY <3>1, <3>2, Zenon DEF OldTokensSent
  <2> HIDE DEF transfers
  <2>7. Continue(transfers, <<>>)
    BY <2>5, Zenon DEF transfers
  <2> QED  BY <2>4, <2>5, <2>6, <2>7, StepExchanges, Zenon
<1> QED  BY <1>1, <1>2, Zenon

\* The answer of SwapAccount becomes what the bridge holds.
LEMMA RunExchangeFunds ==
  ASSUME OneForAnother, Inv, Inv', Funds, RunExchange
  PROVE  Funds'
<1> DEFINE t == Head(inline)
           rest == Tail(inline)
           none == <<>>
<1>1. inline # <<>> /\ t \in Transfers /\ rest \in Seq(Transfers) /\ none \in Seq(Transfers)
  BY InlineSequences, Zenon DEF RunExchange
<1>2. t.token \in Tokens /\ t.quantity \in Nat /\ t.from = SwapAccount /\ SwapAccount # Self
  BY <1>1, TokenSwapAssumption, Zenon DEF Transfers, RunExchange, Names
<1>3. /\ Received(t.token) /\ custody' = [custody EXCEPT ![t.token] = @ + t.quantity]
      /\ Continue(none, rest)
      /\ token' = token /\ rows' = rows /\ inevm' = inevm
  BY Zenon DEF RunExchange
<1>4. t.token = token
  BY <1>2, <1>3, ReceivedToken, Zenon
<1>5. HeldIn(custody') = HeldIn(custody) + t.quantity
  BY <1>2, <1>3, DepositHeld, Zenon
<1>6. Moves(SwapAccount, token)[t] = t.quantity /\ Moves(Self, token)[t] = 0
  BY <1>1, <1>2, <1>4, Zenon DEF Moves
<1>7. \A from : /\ Moved(inline, from, token) = Moves(from, token)[t] + Moved(rest, from, token)
                /\ Moved(rest, from, token) \in Nat /\ Moved(none, from, token) = 0
  <2>1. \A from : Moved(none, from, token) = 0
    BY MovedFacts, Zenon
  <2>2. inline \in Seq(Transfers)
    BY InlineSequences, Zenon
  <2>3. \A from : /\ Moved(inline, from, token) = Moves(from, token)[t] + Moved(rest, from, token)
                  /\ Moved(rest, from, token) \in Nat
    BY <1>1, <2>2, MovedFirst, Zenon
  <2> QED  BY <2>1, <2>3, Zenon
<1>8. Outgoing(rest, token) /\ Outgoing(none, token)
  <2>1. Outgoing(inline, token) /\ inline \in Seq(Transfers)
    BY InlineSequences, Zenon DEF Funds
  <2> QED  BY <1>1, <2>1 DEF Outgoing
<1> DEFINE a == HeldIn(custody')
           b == HeldIn(custody)
           c == ClaimsIn(rows, inevm)
           q == t.quantity
           x == Moved(rest, SwapAccount, token)
           y == Moved(rest, Self, token)
           v == Moved(none, SwapAccount, token)
           w == Moved(none, Self, token)
<1>9. b \in Nat /\ c \in Nat /\ q \in Nat /\ x \in Nat /\ y \in Nat
  BY <1>2, <1>7, FundsNumbers, Zenon
<1>10. a = b + q /\ v = 0 /\ w = 0
  BY <1>5, <1>7, Zenon
<1>11. b + (q + x) = c + (0 + y)
  BY <1>6, <1>7, Zenon DEF Funds
<1> HIDE DEF a, b, c, q, x, y, v, w
<1>12. a + (v + x) = c + (w + y)
  BY ONLY <1>9, <1>10, <1>11
<1>13. HeldIn(custody') + (Moved(none, SwapAccount, token') + Moved(rest, SwapAccount, token'))
         = ClaimsIn(rows', inevm') + (Moved(none, Self, token') + Moved(rest, Self, token'))
  BY <1>3, <1>12, Zenon DEF a, c, x, y, v, w
<1>14. token' \in DOMAIN Exchange
  BY <1>3, Zenon DEF Funds
<1> HIDE DEF none, rest, t
<1> QED  BY <1>1, <1>3, <1>8, <1>13, <1>14, StepFunds, Zenon

\* A transfer from the contract runs: it settles a claim, or SwapAccount answers.
LEMMA RunTransferFunds ==
  ASSUME OneForAnother, Inv, Inv', Funds, RunTransfer
  PROVE  Funds'
<1> DEFINE t == Head(inline)
           rest == Tail(inline)
           answered == t.to = SwapAccount /\ t.token \in DOMAIN Exchange
           answer == Transfer(SwapAccount, Exchange[t.token], t.quantity, Self)
           transfers == IF answered THEN <<answer>> ELSE <<>>
           q == t.quantity
           paid == IF t.token = token THEN q ELSE 0
           owed == IF t.token \in DOMAIN Exchange /\ t.token # token THEN q ELSE 0
<1>1. inline \in Seq(Transfers) /\ inline # <<>> /\ t \in Transfers /\ rest \in Seq(Transfers)
  BY InlineSequences, Zenon DEF RunTransfer
<1>2. /\ t.token \in Tokens /\ q \in Nat /\ t.from = Self /\ SwapAccount # Self /\ Self \in Names
      /\ token \in DOMAIN Exchange
  BY <1>1, TokenSwapAssumption, Zenon DEF Transfers, RunTransfer, Names, Funds
<1>3. /\ custody[t.token] >= q /\ custody' = [custody EXCEPT ![t.token] = @ - q]
      /\ Continue(transfers, rest)
      /\ token' = token /\ rows' = rows /\ inevm' = inevm
  BY Zenon DEF RunTransfer
<1>4. HeldIn(custody') + (paid + owed) = HeldIn(custody)
  <2> DEFINE v == custody[t.token] - q
             x == t.token
  <2>1. custody \in [Tokens -> Nat] /\ v \in Nat /\ custody[x] \in Nat /\ x \in Tokens
        /\ custody' = [custody EXCEPT ![x] = v]
    BY <1>2, <1>3, PresentFacts
  <2>2. \A z \in Tokens, y \in Nat :
          HeldIn([custody EXCEPT ![z] = y]) = IF z \in DOMAIN Exchange THEN HeldIn(custody) - custody[z] + y
                                              ELSE HeldIn(custody)
    BY <2>1, HeldFacts, Zenon
  <2>3. HeldIn(custody) \in Nat
    BY FundsNumbers, Zenon
  <2> HIDE DEF v, x
  <2>4. HeldIn([custody EXCEPT ![x] = v]) = IF x \in DOMAIN Exchange THEN HeldIn(custody) - custody[x] + v
                                            ELSE HeldIn(custody)
    BY <2>1, <2>2, Zenon
  <2> QED  BY <1>2, <2>1, <2>3, <2>4 DEF v, x
<1>5. answered => answer \in Transfers /\ Exchange[t.token] \in Tokens
  BY <1>2, TokenSwapAssumption, Zenon DEF Transfer, Transfers
<1>6. transfers \in Seq(Transfers) /\ Outgoing(transfers, token)
  <2>1. CASE answered
    <3>1. transfers = <<answer>> /\ answer \in Transfers /\ answer.from # Self
      BY <1>2, <1>5, <2>1, Zenon DEF Transfer
    <3> HIDE DEF transfers, answer
    <3> QED  BY ONLY <3>1 DEF Outgoing
  <2>2. CASE ~answered
    <3>1. transfers = <<>>
      BY <2>2, Zenon
    <3> HIDE DEF transfers
    <3> QED  BY ONLY <3>1 DEF Outgoing
  <2> QED  BY <2>1, <2>2, Zenon
<1>7. Moved(transfers, SwapAccount, token) = owed /\ Moved(transfers, Self, token) = 0
  <2>1. CASE answered
    <3>1. Exchange[t.token] = token <=> t.token # token
      BY <1>2, <2>1, Zenon DEF OneForAnother
    <3>2. transfers = <<answer>>
      BY <2>1, Zenon
    <3> DEFINE u == Exchange[t.token]
    <3>3. u \in Tokens /\ q \in Nat
      BY <1>2, <1>5, <2>1, Zenon
    <3> HIDE DEF u, q
    <3>4. \A from : Moved(<<Transfer(SwapAccount, u, q, Self)>>, from, token)
                      = IF SwapAccount = from /\ u = token THEN q ELSE 0
      BY <1>2, <3>3, SentMoves
    <3>5. \A from : Moved(transfers, from, token) = IF SwapAccount = from /\ u = token THEN q ELSE 0
      BY <3>2, <3>4, Zenon DEF u, q
    <3> QED  BY <1>2, <2>1, <3>1, <3>5, Zenon DEF u
  <2>2. CASE ~answered
    <3>1. transfers = <<>> /\ \A from : Moved(<<>>, from, token) = 0
      BY <2>2, MovedFacts, Zenon
    <3>2. owed = 0
      <4>1. 1 \in DOMAIN inline /\ inline[1] = t
        BY <1>1
      <4> QED  BY <1>2, <2>2, <4>1, Zenon DEF Funds, Outgoing
    <3> QED  BY <3>1, <3>2
  <2> QED  BY <2>1, <2>2, Zenon
<1>8. Moves(SwapAccount, token)[t] = 0 /\ Moves(Self, token)[t] = paid
  BY <1>1, <1>2, Zenon DEF Moves
<1>9. \A from : /\ Moved(inline, from, token) = Moves(from, token)[t] + Moved(rest, from, token)
                /\ Moved(rest, from, token) \in Nat
  BY <1>1, MovedFirst, Zenon
<1>10. Outgoing(rest, token)
  BY <1>1 DEF Outgoing, Funds
<1> DEFINE a == HeldIn(custody')
           b == HeldIn(custody)
           c == ClaimsIn(rows, inevm)
           x == Moved(rest, SwapAccount, token)
           y == Moved(rest, Self, token)
           v == Moved(transfers, SwapAccount, token)
           w == Moved(transfers, Self, token)
<1>11. a \in Nat /\ b \in Nat /\ c \in Nat /\ x \in Nat /\ y \in Nat /\ paid \in Nat /\ owed \in Nat
  BY <1>2, <1>9, FundsNumbers, FundsNumbersNext, Zenon
<1>12. a + (paid + owed) = b /\ v = owed /\ w = 0
  BY <1>4, <1>7, Zenon
<1>13. b + (0 + x) = c + (paid + y)
  BY <1>8, <1>9, Zenon DEF Funds
<1> HIDE DEF a, b, c, x, y, v, w, paid, owed
<1>14. a + (v + x) = c + (w + y)
  BY ONLY <1>11, <1>12, <1>13
<1> HIDE DEF transfers, rest
<1>15. HeldIn(custody') + (Moved(transfers, SwapAccount, token') + Moved(rest, SwapAccount, token'))
         = ClaimsIn(rows', inevm') + (Moved(transfers, Self, token') + Moved(rest, Self, token'))
  BY <1>3, <1>14, Zenon DEF a, c, x, y, v, w
<1>16. token' \in DOMAIN Exchange /\ Outgoing(transfers, token') /\ Outgoing(rest, token')
  BY <1>2, <1>3, <1>6, <1>10, Zenon
<1> QED  BY <1>1, <1>3, <1>6, <1>15, <1>16, StepFunds, Zenon

\* What an abort puts back is backed.
LEMMA AbortFunds ==
  ASSUME OneForAnother, Inv, Inv', Funds, Abort
  PROVE  Funds'
<1>1. /\ token' = saved.token /\ rows' = saved.rows /\ inevm' = saved.inevm /\ custody' = saved.custody
      /\ inline' = <<>> /\ inline # <<>>
  BY Zenon DEF Abort
<1>2. token' \in DOMAIN Exchange /\ HeldIn(custody') = ClaimsIn(rows', inevm')
  BY <1>1, Zenon DEF Funds
<1>3. Outgoing(inline', token') /\ \A from : Moved(inline', from, token') = 0
  BY <1>1, MovedFacts DEF Outgoing
<1>4. HeldIn(custody') + Moved(inline', SwapAccount, token')
        = ClaimsIn(rows', inevm') + Moved(inline', Self, token')
  BY <1>2, <1>3, Zenon
<1> QED  BY <1>1, <1>2, <1>3, <1>4, Zenon DEF Funds, Outgoing, Moved, ClaimsIn, AmountsIn, HeldIn, Weights, Moves

\* A step that changes none of it.
LEMMA SameFunds ==
  ASSUME Funds, UNCHANGED <<token, rows, inevm, custody, inline, saved>>
  PROVE  Funds'
BY DEF Funds, Outgoing, Moved, ClaimsIn, AmountsIn, HeldIn, Weights, Moves

\* Every step keeps the bridge backed.
LEMMA FundsNext ==
  ASSUME OneForAnother, Inv, Inv', Funds, [Next]_vars
  PROVE  Funds'
<1>1. CASE UNCHANGED vars
  BY <1>1, SameFunds, Zenon DEF vars, tables
<1>2. ASSUME NEW from \in Names, NEW limit \in Limits, MigrateBal(from, limit)
      PROVE  Funds'
  BY <1>2, MigrateBalFunds, Zenon
<1>3. ASSUME NEW t \in DOMAIN Exchange, NEW dest \in Dests, SwapGasToken(t, dest)
      PROVE  Funds'
  <2>1. t \in Tokens
    BY TokenSwapAssumption, Zenon
  <2> QED  BY <1>3, <2>1, ExchangeFunds, Zenon
<1>4. ASSUME NEW t \in Tokens, ExchangeByHand(t)
      PROVE  Funds'
  BY <1>4, ExchangeFunds, Zenon
<1>5. ASSUME NEW owner \in Names, Open(owner) \/ Close(owner)
      PROVE  Funds'
  BY <1>5, RowActionsFunds, Zenon
<1>6. ASSUME NEW from \in Accounts, NEW receiver \in Names, NEW t \in Tokens,
             NEW quantity \in Quantities, DepositToAccount(from, receiver, t, quantity)
      PROVE  Funds'
  BY <1>6, DepositsFunds, Zenon
<1>7. ASSUME NEW from \in Accounts, NEW t \in Tokens, NEW quantity \in Quantities,
             DepositToEvm(from, t, quantity)
      PROVE  Funds'
  BY <1>7, DepositsFunds, Zenon
<1>8. ASSUME NEW owner \in Names, NEW quantity \in Quantities,
             NEW to \in Accounts \cup {SwapAccount}, Withdraw(owner, quantity, to)
      PROVE  Funds'
  BY <1>8, WithdrawFunds, Zenon
<1>9. ASSUME NEW name \in Names, NEW amount \in Quantities,
             Ingress(name, amount) \/ Egress(name, amount)
      PROVE  Funds'
  BY <1>9, IngressFunds, EgressFunds, Zenon
<1>10. ASSUME NEW receiver \in Receivers, NEW s \in Symbols, BridgeReg(receiver, s)
       PROVE  Funds'
  <2>1. receiver \in Names
    BY TokenSwapAssumption, Zenon DEF Names
  <2> QED  BY <1>10, <2>1, RowActionsFunds, Zenon
<1>11. ASSUME NEW value \in BOOLEAN, Freeze(value)
       PROVE  Funds'
  BY <1>11, SameFunds, Zenon DEF Freeze, tables
<1>12. CASE RunTransfer \/ RunExchange
  BY <1>12, RunTransferFunds, RunExchangeFunds, Zenon
<1>13. CASE Abort
  BY <1>13, AbortFunds, Zenon
<1> QED
  BY <1>1, <1>2, <1>3, <1>4, <1>5, <1>6, <1>7, <1>8, <1>9, <1>10, <1>11, <1>12, <1>13, Zenon DEF Next

\* Before anything happened there is nothing to back.
LEMMA FundsInit ==
  ASSUME OneForAnother, Init, Inv
  PROVE  Funds
<1> DEFINE D == DOMAIN Exchange
           r == [n \in {Self} |-> [amount |-> 0, symbol |-> FirstToken.symbol]]
           none == <<>>
<1>1. token = FirstToken /\ custody = [t \in Tokens |-> 0] /\ rows = r /\ inline = none /\ inevm.amount = 0
  BY Zenon DEF Init
<1>2. token \in DOMAIN Exchange
  BY <1>1, TokenSwapAssumption, Zenon
<1>3. HeldIn(custody) = 0
  <2>1. \A t \in D : custody[t] = 0
    BY <1>1, TokenSwapAssumption, Zenon
  <2>2. IsFiniteSet(D)
    BY ExchangeFinite, Zenon
  <2> HIDE DEF D
  <2>3. SumFunctionOnSet(custody, D) = 0
    BY <2>1, <2>2, SumZero, Zenon
  <2> QED  BY <2>3, Zenon DEF HeldIn, D
<1>4. SumFunction(AmountsIn(rows)) = 0
  <2> DEFINE f == AmountsIn(rows)
  <2>1. DOMAIN f = {Self} /\ f[Self] = 0
    BY <1>1, Zenon DEF AmountsIn
  <2>2. IsFiniteSet(DOMAIN f)
    BY PresentFacts, AmountsFinite, Zenon
  <2> HIDE DEF f
  <2>3. SumFunctionOnSet(f, DOMAIN f) = 0
    BY <2>1, <2>2, SumZero, Zenon
  <2> QED  BY <2>3, Zenon DEF f, SumFunction
<1>5. Outgoing(inline, token) /\ \A from : Moved(inline, from, token) = 0
  BY <1>1, MovedFacts DEF Outgoing
<1>6. ClaimsIn(rows, inevm) = 0
  BY <1>1, <1>4 DEF ClaimsIn
<1> QED  BY <1>1, <1>2, <1>3, <1>5, <1>6, Zenon DEF Funds

\* The transfers under way, counted as Funds and as Backed do.
LEMMA FundsBacked ==
  ASSUME Inv, Funds
  PROVE  Backed
<1>1. inline \in Seq(Transfers)
  BY InlineSequences, Zenon
<1>2. ASSUME NEW from PROVE Moved(inline, from, token) = InFlight(from)
  <2>1. Weights(inline, Moves(from, token))
          = [i \in DOMAIN inline |-> IF inline[i].from = from /\ inline[i].token = token
                                     THEN inline[i].quantity ELSE 0]
    <3>1. \A i \in DOMAIN inline : inline[i] \in Transfers
      BY <1>1
    <3> QED  BY <3>1, Zenon DEF Weights, Moves
  <2> QED  BY <2>1, Zenon DEF Moved, InFlight
<1>3. HeldIn(custody) = Held /\ ClaimsIn(rows, inevm) = Claims
  BY Zenon DEF HeldIn, Held, ClaimsIn, Claims, AmountsIn
<1> QED  BY <1>2, <1>3, Zenon DEF Funds, Backed

\* If SwapAccount exchanges two tokens for one another, the claims of all
\* accounts and of the EVM are covered, token for token, by the old and the new
\* tokens the bridge holds or is about to get, at every step of swapgastoken, of
\* the exchange, of transfers and of what an abort undoes.
THEOREM AlwaysBacked ==
  ASSUME OneForAnother
  PROVE  Spec => []Backed
<1>1. Init => Inv /\ Funds
  BY InvInit, FundsInit, Zenon
<1>2. Inv /\ Funds /\ [Next]_vars => (Inv /\ Funds)'
  BY InvNext, FundsNext, Zenon
<1>3. Inv /\ Funds => Backed
  BY FundsBacked, Zenon
<1> QED  BY <1>1, <1>2, <1>3, PTL DEF Spec
=============================================================================
