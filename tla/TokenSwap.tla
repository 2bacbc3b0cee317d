------------------------------ MODULE TokenSwap ------------------------------
(***************************************************************************)
(* Replacing the gas token under a running bridge.  The symbol of the      *)
(* token is written in many rows: the configuration, inevm, the            *)
(* statistics, the message receivers and every opened balance.             *)
(* swapgastoken rewrites all of them but the balances of others, which     *)
(* migratebal rewrites later, in portions, while deposits, withdrawals and *)
(* EVM transactions go on.  The tokens themselves are exchanged by another *)
(* contract, through inline transfers of the same transaction.             *)
(*                                                                         *)
(* Amounts are in natively representable units; dust is BalanceWithDust's  *)
(* subject.  All tokens have one precision: nothing in swapgastoken        *)
(* converts amounts.  Adding or subtracting two assets fails when their    *)
(* symbols differ; balance_with_dust adds and subtracts plain numbers.     *)
(* Transactions and aborts are as in BridgeLedger.                         *)
(***************************************************************************)
EXTENDS Integers, Sequences, FiniteSets, FiniteSetsExt, Functions

CONSTANTS
  Accounts,     \* account names other than the contract's own, as numbers
  Self,         \* get_self()
  SwapAccount,  \* the contract that exchanges tokens one to one
  Tokens,       \* tokens: token contract and symbol
  FirstToken,   \* the one the bridge is initialised with
  Exchange,     \* tokens SwapAccount takes -> what it gives for them
  Dests,        \* swap_dest_account: SwapAccount, or None
  Contracts,    \* accounts with code: they get control when notified
  Quantities,   \* amounts moved by one operation
  Limits,       \* portions of migratebal
  Receivers,    \* names the administration registers for bridge messages
  Fee,          \* ingress_bridge_fee
  None,         \* no destination, no row
  MaxSwaps, MaxInline, Supply  \* bounds of the exploration

Names == Accounts \cup {Self}
Symbols == {t.symbol : t \in Tokens}

ASSUME TokenSwapAssumption ==
  /\ Names \subseteq Int /\ IsFiniteSet(Accounts) /\ Self \notin Accounts
  /\ \A t, u \in Tokens : t.contract = u.contract /\ t.symbol = u.symbol => t = u
  /\ SwapAccount \notin Names /\ None \notin Names \cup {SwapAccount} /\ None \notin Symbols
  /\ FirstToken \in DOMAIN Exchange
  /\ DOMAIN Exchange \subseteq Tokens /\ \A t \in DOMAIN Exchange : Exchange[t] \in DOMAIN Exchange
  /\ Dests \subseteq {SwapAccount, None} /\ Contracts \subseteq Accounts
  /\ Receivers \subseteq Accounts
  /\ Quantities \subseteq Nat \ {0} /\ Limits \subseteq Nat
  /\ Fee \in Nat /\ MaxSwaps \in Nat /\ MaxInline \in Nat /\ Supply \in Nat

VARIABLES
  token,      \* token_contract, and the symbol of ingress_bridge_fee
  rows,       \* opened accounts -> amount and symbol
  inevm,      \* the inevm singleton: amount and symbol
  statistics, \* symbol of the statistics singleton, None before it is created
  receivers,  \* bridge message receivers -> symbol of min_fee
  custody,    \* tokens of Self in each token contract
  frozen,     \* status flag frozen
  inline,     \* inline transfers of the running transaction still to run
  saved,      \* the tables as the running transaction found them
  swaps       \* swaps so far

tables == <<token, rows, inevm, statistics, receivers, custody, swaps>>
vars == <<tables, frozen, inline, saved>>

Init ==
  /\ token = FirstToken
  /\ rows = [n \in {Self} |-> [amount |-> 0, symbol |-> FirstToken.symbol]]
  /\ inevm = [amount |-> 0, symbol |-> FirstToken.symbol]
  /\ statistics = None /\ receivers = <<>>
  /\ custody = [t \in Tokens |-> 0]
  /\ frozen = FALSE /\ inline = <<>> /\ saved = None /\ swaps = 0

-----------------------------------------------------------------------------
(* Transactions of the host chain *)

Snapshot == [token |-> token, rows |-> rows, inevm |-> inevm,
             statistics |-> statistics, receivers |-> receivers,
             custody |-> custody, swaps |-> swaps]

\* The step sends transfers, which run before the rest of the transaction.
Continue(transfers, rest) ==
  /\ Len(transfers \o rest) <= MaxInline
  /\ inline' = transfers \o rest
  /\ saved' = IF inline' = <<>> THEN None
              ELSE IF inline = <<>> THEN Snapshot ELSE saved

MayAct(who) == inline = <<>> \/ who \in Contracts
AnyoneMayAct == inline = <<>> \/ Contracts # {}

Abort ==
  /\ inline # <<>>
  /\ token' = saved.token /\ rows' = saved.rows /\ inevm' = saved.inevm
  /\ statistics' = saved.statistics /\ receivers' = saved.receivers
  /\ custody' = saved.custody /\ swaps' = saved.swaps
  /\ inline' = <<>> /\ saved' = None
  /\ UNCHANGED frozen

Transfer(from, t, quantity, to) == [from |-> from, token |-> t, quantity |-> quantity, to |-> to]

-----------------------------------------------------------------------------
(* The swap *)

\* The rows migratebal visits: at most limit, in the order of the names.
Visited(r, from, limit) ==
  {n \in DOMAIN r : from <= n /\ Cardinality({k \in DOMAIN r : from <= k /\ k < n}) < limit}
Labelled(row, symbol) == [row EXCEPT !.symbol = symbol]

Migration(r, from, limit, symbol) ==
  [n \in DOMAIN r |-> IF n \in Visited(r, from, limit) THEN Labelled(r[n], symbol) ELSE r[n]]
SomethingChanges(r, from, limit, symbol) ==
  \E n \in Visited(r, from, limit) : r[n].symbol # symbol

\* As MigrateBal, but always from the first row
MigrateBalFromStart(from, limit) ==
  /\ AnyoneMayAct
  /\ SomethingChanges(rows, Min(Names), limit, inevm.symbol)
  /\ rows' = Migration(rows, Min(Names), limit, inevm.symbol)
  /\ Continue(<<>>, inline)
  /\ UNCHANGED <<token, inevm, statistics, receivers, custody, swaps, frozen>>

\* migratebal, by anyone, also while the contract is frozen
MigrateBal(from, limit) ==
  /\ AnyoneMayAct
  /\ SomethingChanges(rows, from, limit, inevm.symbol)
  /\ rows' = Migration(rows, from, limit, inevm.symbol)
  /\ Continue(<<>>, inline)
  /\ UNCHANGED <<token, inevm, statistics, receivers, custody, swaps, frozen>>

\* Forgets the contract's own row
RowsOfOthers(t) == rows

\* migratebal(get_self(), 1) of swapgastoken
SelfMigrated(t) == Migration(rows, Self, 1, t.symbol)

\* The whole balance of the old token goes to dest.
OldTokensSent(dest) ==
  IF dest = None THEN <<>> ELSE <<Transfer(Self, token, custody[token], dest)>>

SwapGasToken(t, dest) ==
  /\ inline = <<>> /\ swaps < MaxSwaps
  /\ token' = t
  /\ inevm' = [inevm EXCEPT !.symbol = t.symbol]
  /\ receivers' = [n \in DOMAIN receivers |-> t.symbol]
  /\ statistics' = t.symbol
  /\ SomethingChanges(rows, Self, 1, t.symbol)
  /\ rows' = SelfMigrated(t)
  /\ Continue(OldTokensSent(dest), <<>>)
  /\ swaps' = swaps + 1
  /\ UNCHANGED <<custody, frozen>>

\* The contract's account sends tokens that are not the gas token any more to be
\* exchanged by hand, after a swap without a destination.
ExchangeByHand(t) ==
  /\ inline = <<>> /\ t # token /\ custody[t] > 0
  /\ Continue(<<Transfer(Self, t, custody[t], SwapAccount)>>, <<>>)
  /\ UNCHANGED <<tables, frozen>>

-----------------------------------------------------------------------------
(* What goes on beside it *)

\* A new row in the symbol the contract was initialised with
WithFirstSymbol(r, owner) ==
  [n \in DOMAIN r \cup {owner} |->
     IF n \in DOMAIN r THEN r[n] ELSE [amount |-> 0, symbol |-> FirstToken.symbol]]

WithRow(r, owner) ==
  [n \in DOMAIN r \cup {owner} |->
     IF n \in DOMAIN r THEN r[n] ELSE [amount |-> 0, symbol |-> token.symbol]]

Open(owner) ==
  /\ ~frozen /\ MayAct(owner)
  /\ rows' = WithRow(rows, owner)
  /\ Continue(<<>>, inline)
  /\ UNCHANGED <<token, inevm, statistics, receivers, custody, swaps, frozen>>

Close(owner) ==
  /\ ~frozen /\ MayAct(owner) /\ owner # Self
  /\ owner \in DOMAIN rows /\ rows[owner].amount = 0
  /\ rows' = Restrict(rows, DOMAIN rows \ {owner})
  /\ Continue(<<>>, inline)
  /\ UNCHANGED <<token, inevm, statistics, receivers, custody, swaps, frozen>>

\* asset += and -= with a quantity of the gas token; the symbols must agree.
Plus(row, quantity) == [row EXCEPT !.amount = @ + quantity]
Minus(row, quantity) == [row EXCEPT !.amount = @ - quantity]

\* Forgets the check
NeverOverdrawn(row, quantity) == TRUE
Covers(row, quantity) == row.amount >= quantity

\* get_statistics creates the row in the symbol of the moment.
StatisticsSymbol == IF statistics = None THEN token.symbol ELSE statistics

\* Looks at the symbol only
SymbolReceived(t) == t.symbol = token.symbol

\* transfer: only the gas token of the moment is received.
Received(t) == t.contract = token.contract /\ t.symbol = token.symbol

\* A deposit to an opened account: handle_account_transfer
DepositToAccount(from, receiver, t, quantity) ==
  /\ ~frozen /\ MayAct(from)
  /\ custody[t] + quantity <= Supply
  /\ Received(t)
  /\ receiver \in DOMAIN rows /\ rows[receiver].symbol = t.symbol
  /\ rows' = [rows EXCEPT ![receiver] = Plus(@, quantity)]
  /\ custody' = [custody EXCEPT ![t] = @ + quantity]
  /\ Continue(<<>>, inline)
  /\ UNCHANGED <<token, inevm, statistics, receivers, swaps, frozen>>

\* A deposit to an EVM address: handle_evm_transfer, with the transaction that
\* moves the quantity without the fee from the contract's row into the EVM.
DepositToEvm(from, t, quantity) ==
  /\ ~frozen /\ MayAct(from)
  /\ custody[t] + quantity <= Supply
  /\ Received(t) /\ quantity > Fee
  /\ rows[Self].symbol = t.symbol
  /\ StatisticsSymbol = token.symbol
  /\ rows' = [rows EXCEPT ![Self] = Plus(@, Fee)]
  /\ statistics' = StatisticsSymbol
  /\ inevm' = Plus(inevm, quantity - Fee)
  /\ custody' = [custody EXCEPT ![t] = @ + quantity]
  /\ Continue(<<>>, inline)
  /\ UNCHANGED <<token, receivers, swaps, frozen>>

\* Forgets to relabel
OldLabel(row) == row

\* withdraw relabels the row before it subtracts.
Relabelled(row) == Labelled(row, token.symbol)

Withdraw(owner, quantity, to) ==
  /\ ~frozen /\ MayAct(owner)
  /\ owner \in DOMAIN rows /\ Covers(rows[owner], quantity)
  /\ Relabelled(rows[owner]).symbol = token.symbol
  /\ rows' = [rows EXCEPT ![owner] = Minus(Relabelled(@), quantity)]
  /\ Continue(<<Transfer(Self, token, quantity, to)>>, inline)
  /\ UNCHANGED <<token, inevm, statistics, receivers, custody, swaps, frozen>>

\* A call, of which the value (and the gas) goes from the row into the EVM
Ingress(owner, amount) ==
  /\ ~frozen /\ MayAct(owner)
  /\ owner \in DOMAIN rows /\ Covers(rows[owner], amount)
  /\ rows' = [rows EXCEPT ![owner] = Minus(@, amount)]
  /\ inevm' = Plus(inevm, amount)
  /\ statistics' = IF owner = Self THEN statistics ELSE StatisticsSymbol
  /\ Continue(<<>>, inline)
  /\ UNCHANGED <<token, receivers, custody, swaps, frozen>>

\* An EVM transaction that sends value out: to the row of an opened account, or
\* as a transfer of the gas token.
Egress(to, amount) ==
  /\ ~frozen /\ AnyoneMayAct
  /\ inevm.amount >= amount
  /\ inevm' = Minus(inevm, amount)
  /\ \/ /\ to \in DOMAIN rows
        /\ rows' = [rows EXCEPT ![to] = Plus(@, amount)]
        /\ Continue(<<>>, inline)
     \/ /\ to \notin DOMAIN rows
        /\ Continue(<<Transfer(Self, token, amount, to)>>, inline)
        /\ UNCHANGED rows
  /\ statistics' = StatisticsSymbol
  /\ UNCHANGED <<token, receivers, custody, swaps, frozen>>

\* bridgereg with a min_fee in the symbol s
BridgeReg(receiver, s) ==
  /\ ~frozen /\ inline = <<>>
  /\ s = token.symbol
  /\ receivers' = [n \in DOMAIN receivers \cup {receiver} |->
                     IF n = receiver THEN s ELSE receivers[n]]
  /\ rows' = WithRow(rows, receiver)
  /\ UNCHANGED <<token, inevm, statistics, custody, swaps, frozen, inline, saved>>

Freeze(value) ==
  /\ inline = <<>> /\ frozen' = value
  /\ UNCHANGED <<tables, inline, saved>>

-----------------------------------------------------------------------------
(* Inline transfers *)

\* A token contract moves tokens of Self and notifies the contract and the
\* receiver; SwapAccount answers with the exchanged token.
RunTransfer ==
  /\ inline # <<>> /\ Head(inline).from = Self
  /\ LET t == Head(inline)
     IN  /\ t.quantity > 0 /\ t.to # Self /\ custody[t.token] >= t.quantity
         /\ custody' = [custody EXCEPT ![t.token] = @ - t.quantity]
         /\ Continue(IF t.to = SwapAccount /\ t.token \in DOMAIN Exchange
                     THEN <<Transfer(SwapAccount, Exchange[t.token], t.quantity, Self)>>
                     ELSE <<>>, Tail(inline))
  /\ ~frozen
  /\ UNCHANGED <<token, rows, inevm, statistics, receivers, swaps, frozen>>

\* The answer, with an empty memo: transfer accepts it, without crediting anyone,
\* if it comes from the token contract itself.
RunExchange ==
  /\ inline # <<>> /\ Head(inline).from = SwapAccount
  /\ LET t == Head(inline)
     IN  /\ Received(t.token) /\ t.from = token.contract
         /\ custody' = [custody EXCEPT ![t.token] = @ + t.quantity]
  /\ ~frozen
  /\ Continue(<<>>, Tail(inline))
  /\ UNCHANGED <<token, rows, inevm, statistics, receivers, swaps, frozen>>

Next ==
  \/ \E from \in Names, limit \in Limits : MigrateBal(from, limit)
  \/ \E t \in DOMAIN Exchange, dest \in Dests : SwapGasToken(t, dest)
  \/ \E t \in Tokens : ExchangeByHand(t)
  \/ \E owner \in Names : Open(owner) \/ Close(owner)
  \/ \E from \in Accounts, receiver \in Names, t \in Tokens, quantity \in Quantities :
       DepositToAccount(from, receiver, t, quantity)
  \/ \E from \in Accounts, t \in Tokens, quantity \in Quantities : DepositToEvm(from, t, quantity)
  \/ \E owner \in Names, quantity \in Quantities, to \in Accounts \cup {SwapAccount} :
       Withdraw(owner, quantity, to)
  \/ \E owner \in Names, amount \in Quantities : Ingress(owner, amount)
  \/ \E to \in Names, amount \in Quantities : Egress(to, amount)
  \/ \E receiver \in Receivers, s \in Symbols : BridgeReg(receiver, s)
  \/ \E value \in BOOLEAN : Freeze(value)
  \/ RunTransfer \/ RunExchange \/ Abort

Spec == Init /\ [][Next]_vars

\* No transaction runs for ever (the host chain limits its time), and somebody
\* repeats migratebal as long as a row is left: it takes no authority.
\* Transactions of others come in between, so its turn comes again and again,
\* not always.
Migrating == inline = <<>> /\ \E from \in Names, limit \in Limits : MigrateBal(from, limit)
FairSpec == Spec /\ WF_vars(Abort) /\ SF_vars(Migrating)

-----------------------------------------------------------------------------
(* Properties *)

Amounts == [amount : Nat, symbol : Symbols]

\* Rows hold amounts in symbols of known tokens, and nothing is kept to
\* put back once a transaction has ended.
TypeOK ==
  /\ token \in Tokens /\ inevm \in Amounts
  /\ DOMAIN rows \subseteq Names /\ \A n \in DOMAIN rows : rows[n] \in Amounts
  /\ statistics \in Symbols \cup {None}
  /\ DOMAIN receivers \subseteq Names
  /\ custody \in [Tokens -> Nat] /\ frozen \in BOOLEAN
  /\ inline = <<>> => saved = None

\* Everything that is added to, subtracted from or compared with a quantity of
\* the gas token without being relabelled first has its symbol: the contract's
\* own row, inevm, the statistics and the fees of the message receivers, at
\* every point of every sequence of swaps, registrations and aborted swaps.
SymbolsAgree ==
  /\ Self \in DOMAIN rows /\ rows[Self].symbol = token.symbol
  /\ inevm.symbol = token.symbol
  /\ statistics \in {None, token.symbol}
  /\ \A n \in DOMAIN receivers : receivers[n] = token.symbol

Held == SumFunctionOnSet(custody, DOMAIN Exchange)
Claims == SumFunction([n \in DOMAIN rows |-> rows[n].amount]) + inevm.amount
InFlight(from) ==
  SumFunction([i \in DOMAIN inline |-> IF inline[i].from = from /\ inline[i].token = token
                                      THEN inline[i].quantity ELSE 0])

\* The claims on the bridge are covered, token for token, by what it holds of the
\* old and the new token and what SwapAccount is about to give, at every point
\* of a swap and of the transactions around it.  Of the transfers in flight only
\* those of the gas token settle claims: the others are on their way to be
\* exchanged.
Backed == Held + InFlight(SwapAccount) = Claims + InFlight(Self)

\* Once the old tokens are exchanged, every holder can withdraw all of its
\* balance, whether its row has been migrated or not.
HoldersCanWithdraw ==
  inline = <<>> /\ ~frozen /\ (\A t \in Tokens \ {token} : custody[t] = 0) =>
    \A owner \in DOMAIN rows \ {Self}, quantity \in Quantities :
      rows[owner].amount >= quantity =>
        ENABLED Withdraw(owner, quantity, owner) /\ custody[token] >= quantity

CommittedToken == IF inline = <<>> THEN token ELSE saved.token
CommittedRows == IF inline = <<>> THEN rows ELSE saved.rows
NotMigrated == {n \in DOMAIN CommittedRows : CommittedRows[n].symbol # CommittedToken.symbol}

\* Only a swap makes rows stale: nothing else, no reopened account, no aborted
\* withdrawal, adds to the rows that are left to migrate.
MigrationOnlyShrinks ==
  [][CommittedToken' = CommittedToken => NotMigrated' \subseteq NotMigrated]_vars

\* However small the portions, in the end every row has the symbol of the gas
\* token, if swaps end.
AllMigrated == <>[](NotMigrated = {})
=============================================================================
