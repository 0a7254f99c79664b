---------------------------- MODULE PostgresDemo ----------------------------
(***************************************************************************)
(* The services of apps/postgres-demo: wallets, ledger and purchases, and  *)
(* the two-person approval.  They share no rows.                           *)
(***************************************************************************)
EXTENDS Integers, Sequences, FiniteSets, FiniteSetsExt, TLC

(***************************************************************************)
(* The money of apps/postgres-demo: services/wallet_service.go with its    *)
(* rules (wallet_rule_service.go) and double-entry ledger                  *)
(* (ledger_service.go), and the purchases of purchase_service.go, for one  *)
(* user.  A call first validates with queries of its own and then runs one *)
(* serializable transaction: the transaction is one step, at its commit,   *)
(* and holds a connection of the pool from its begin.                      *)
(***************************************************************************)

CONSTANTS
  Shoppers,      \* goroutines that serve requests
  WalletTypes,   \* the active rows of wallet_types, "primary" among them
  MinBalance,    \* min_balance of a type, 0 for none
  MaxBalance,    \* max_balance of a type, 0 for none
  Rules,         \* the active wallet_rules: [type, wallet, min, max], "any" for no wallet_type
  Deposits,      \* bound: the amounts of AddWalletBalance
  Transfers,     \* bound: the amounts of TransferBetweenWallets
  Carts,         \* bound: the requests of MakePurchase, sequences of [product, quantity]
  Price,         \* price of a product
  InitialStock,  \* stock of a product
  MaxOpenConns,  \* size of the connection pool
  MaxRequests    \* bound: requests served by a goroutine

VARIABLES
  db,        \* the tables: wallets, transactions, journals, stock, orders
  request,   \* what a goroutine serves, and where it is in it
  openConns, \* connections held by transactions
  requestsMade     \* requests served so far

shopVars == <<db, request, openConns, requestsMade>>

Idle == [op |-> "none", pc |-> "idle"]

Setup ==
  /\ db = [wallets |-> <<>>, transactions |-> <<>>, journals |-> <<>>, stock |-> InitialStock, orders |-> <<>>]
  /\ request = [s \in Shoppers |-> Idle] /\ openConns = 0 /\ requestsMade = [s \in Shoppers |-> 0]

-----------------------------------------------------------------------------
(* The rules.                                                              *)

ApplicableRules(type, t) == {r \in Rules : r.type = type /\ r.wallet \in {t, "any"}}

WithinMax(type, t, value) == \A r \in ApplicableRules(type, t) : value <= r.max

ValidateBalance(t, balance) ==
  (\A r \in ApplicableRules("min_balance", t) : balance >= r.min) /\ WithinMax("max_balance", t, balance)

BalanceOf(t) == IF t \in DOMAIN db.wallets THEN db.wallets[t].balance ELSE 0

SumWhere(d, Test(_)) == MapThenSumSet(LAMBDA i : d.transactions[i].amount,
                                      {i \in DOMAIN d.transactions : Test(d.transactions[i])})

ValidateAddBalance(t, amount) == WithinMax("deposit_limit", t, amount) /\ ValidateBalance(t, BalanceOf(t) + amount)

DailyTotal(t) == SumWhere(db, LAMBDA r : r.wallet = t /\ r.type = "debit" /\ r.status = "completed")

ValidateTransfer(t, amount) ==
  /\ \A r \in ApplicableRules("transfer_limit", t) : r.min <= amount /\ amount <= r.max
  /\ WithinMax("daily_limit", t, DailyTotal(t) + amount)

ValidateFreeze(t, amount) == WithinMax("freeze_limit", t, amount)

-----------------------------------------------------------------------------
(* Statements.  A statement maps the tables to the set of their next states, *)
(* empty when it fails and the transaction is rolled back.                   *)

Then(ds, F(_)) == UNION {F(d) : d \in ds}

(* The CHECK constraints of the table wallets. *)
CheckConstraint(w) == w.balance >= 0 /\ w.frozen >= 0 /\ w.balance >= w.frozen

UpdateWallet(d, t, balance, frozen) ==
  IF t \in DOMAIN d.wallets
    THEN LET w == [balance |-> d.wallets[t].balance + balance, frozen |-> d.wallets[t].frozen + frozen]
         IN  IF CheckConstraint(w) THEN {[d EXCEPT !.wallets[t] = w]} ELSE {}
    ELSE {}

InsertWallet(d, t, balance) ==
  IF t \in DOMAIN d.wallets THEN {}
    ELSE {[d EXCEPT !.wallets = @ @@ (t :> [balance |-> balance, frozen |-> 0])]}

(* INSERT ... ON CONFLICT DO UPDATE. *)
Upsert(d, t, amount) == IF t \in DOMAIN d.wallets THEN UpdateWallet(d, t, amount, 0) ELSE InsertWallet(d, t, amount)

InsertTransaction(d, t, type, amount, status) ==
  {[d EXCEPT !.transactions = Append(@, [wallet |-> t, type |-> type, amount |-> amount, status |-> status])]}

(* Every journal of the services has one debit and one credit of the same amount. *)
CreateJournal(d, debit, credit, amount) ==
  IF amount > 0
    THEN {[d EXCEPT !.journals = Append(@, [debit |-> debit, credit |-> credit, amount |-> amount, status |-> "pending"])]}
    ELSE {}

PostJournal(d, j) ==
  IF d.journals[j].status = "pending" THEN {[d EXCEPT !.journals[j].status = "posted"]} ELSE {}

CreateAndPost(d, debit, credit, amount) ==
  Then(CreateJournal(d, debit, credit, amount), LAMBDA e : PostJournal(e, Len(e.journals)))

(* Mutant: the amount stays frozen. *)
SettleKeepsFrozen(d, t, id, balance, status) ==
  IF t \in DOMAIN d.wallets /\ d.wallets[t].frozen >= d.transactions[id].amount
    THEN Then(UpdateWallet(d, t, balance, 0),
              LAMBDA e : {[e EXCEPT !.transactions[id].status = IF @ = "pending" THEN status ELSE @]})
    ELSE {}

(* CommitTransactionByType and RollbackTransactionByType: UPDATE ... WHERE frozen >= amount, *)
(* and the transaction leaves "pending".                                                     *)
Settle(d, t, id, balance, status) ==
  LET amount == d.transactions[id].amount
  IN  IF t \in DOMAIN d.wallets /\ d.wallets[t].frozen >= amount
        THEN Then(UpdateWallet(d, t, balance, -amount),
                  LAMBDA e : {[e EXCEPT !.transactions[id].status = IF @ = "pending" THEN status ELSE @]})
        ELSE {}

CommitTransaction(d, t, id) ==
  Then(Settle(d, t, id, 0, "completed"), LAMBDA e : CreateAndPost(e, "cash", "frozen", e.transactions[id].amount))

RollbackTransaction(d, t, id) ==
  Then(Settle(d, t, id, d.transactions[id].amount, "cancelled"),
       LAMBDA e : CreateAndPost(e, "wallets", "frozen", e.transactions[id].amount))

(* FreezeAmountByType leaves its journal pending. *)
FreezeAmount(d, t, amount) ==
  IF ValidateFreeze(t, amount) /\ t \in DOMAIN d.wallets /\ d.wallets[t].balance > 0 /\ d.wallets[t].balance >= amount
    THEN Then(UpdateWallet(d, t, -amount, amount),
              LAMBDA e : Then(InsertTransaction(e, t, "debit", amount, "pending"),
                              LAMBDA f : CreateJournal(f, "frozen", "wallets", amount)))
    ELSE {}

-----------------------------------------------------------------------------
(* Requests.                                                               *)

Total(cart) == MapThenSumSet(LAMBDA i : Price[cart[i].product] * cart[i].quantity, DOMAIN cart)

(* ShopGoto ends the validation of a request, or answers it with an error. *)
ShopGoto(s, r, ok) == request' = [request EXCEPT ![s] = IF ok THEN r @@ [pc |-> "begin"] ELSE Idle]

Accepts(s) ==
  /\ request[s].pc = "idle" /\ requestsMade[s] < MaxRequests
  /\ requestsMade' = [requestsMade EXCEPT ![s] = @ + 1] /\ UNCHANGED openConns

(* A query that is not in a transaction needs a connection for its duration. *)
FreeConn == openConns < MaxOpenConns

(* GetWalletBalanceByType creates a wallet that is missing, and answers balance - frozen. *)
GetWalletBalance(t) ==
  IF t \in DOMAIN db.wallets THEN [d |-> db, available |-> db.wallets[t].balance - db.wallets[t].frozen]
    ELSE [d |-> CHOOSE d \in InsertWallet(db, t, 0) : TRUE, available |-> 0]

AddWalletBalance(s) ==
  /\ Accepts(s) /\ FreeConn
  /\ \E t \in WalletTypes, amount \in Deposits :
       LET r == [op |-> "add", wallet |-> t, amount |-> amount]
       IN  IF ValidateAddBalance(t, amount) /\ MaxBalance[t] > 0
             THEN LET b == GetWalletBalance(t) IN db' = b.d /\ ShopGoto(s, r, b.available + amount <= MaxBalance[t])
             ELSE UNCHANGED db /\ ShopGoto(s, r, ValidateAddBalance(t, amount))

TransferBetweenWallets(s) ==
  /\ Accepts(s) /\ FreeConn
  /\ \E t, to \in WalletTypes, amount \in Transfers :
       LET r == [op |-> "transfer", wallet |-> t, to |-> to, amount |-> amount]
       IN  IF t # to /\ ValidateTransfer(t, amount)
             THEN LET b == GetWalletBalance(t) IN db' = b.d /\ ShopGoto(s, r, b.available >= amount)
             ELSE UNCHANGED db /\ ShopGoto(s, r, FALSE)

MakePurchase(s) ==
  /\ Accepts(s)
  /\ \E cart \in Carts : ShopGoto(s, [op |-> "purchase", cart |-> cart], cart # <<>>)
  /\ UNCHANGED db

(* CreateWalletForUser: the type is validated and the wallet found missing before the INSERT. *)
CreateWallet(s) ==
  /\ Accepts(s) /\ FreeConn
  /\ \E t \in WalletTypes : ShopGoto(s, [op |-> "create", wallet |-> t], t \notin DOMAIN db.wallets)
  /\ UNCHANGED db

AutoCreateWallets(s) ==
  /\ Accepts(s) /\ FreeConn
  /\ ShopGoto(s, [op |-> "createAll"], WalletTypes # {})
  /\ UNCHANGED db

(* FreezeAmountByType in a transaction of its own, as a purchase that waits for a third party *)
(* uses it.                                                                                   *)
Freeze(s) ==
  /\ Accepts(s)
  /\ \E t \in WalletTypes, amount \in Transfers :
       ShopGoto(s, [op |-> "freeze", wallet |-> t, amount |-> amount], TRUE)
  /\ UNCHANGED db

BeginTx(s) ==
  /\ request[s].pc = "begin" /\ FreeConn
  /\ openConns' = openConns + 1
  /\ request' = [request EXCEPT ![s].pc = "query"]
  /\ UNCHANGED <<db, requestsMade>>

(* Inside their transaction the services also read wallet types, rules and accounts through *)
(* the pool, on another connection.                                                          *)
QueryOutsideTx(s) ==
  /\ request[s].pc = "query"
  /\ request[s].op \in {"create", "createAll"} \/ FreeConn
  /\ request' = [request EXCEPT ![s].pc = "commit"]
  /\ UNCHANGED <<db, openConns, requestsMade>>

AddTx(d, t, amount) ==
  Then(Upsert(d, t, amount),
       LAMBDA e : Then(InsertTransaction(e, t, "credit", amount, "completed"),
                       LAMBDA f : CreateAndPost(f, "wallets", "cash", amount)))

TransferTx(d, t, to, amount) ==
  IF t \in DOMAIN d.wallets /\ d.wallets[t].balance - d.wallets[t].frozen >= amount
    THEN Then(UpdateWallet(d, t, -amount, 0), LAMBDA e :
         Then(Upsert(e, to, amount), LAMBDA f :
         Then(InsertTransaction(f, t, "debit", amount, "completed"), LAMBDA g :
         Then(InsertTransaction(g, to, "credit", amount, "completed"), LAMBDA h :
              CreateAndPost(h, "wallets", "wallets", amount)))))
    ELSE {}

(* Mutant: the items are taken from the stock before it is known to suffice. *)
UncheckedStock(d, cart) == TRUE

StockSuffices(d, cart) == \A i \in DOMAIN cart : d.stock[cart[i].product] >= cart[i].quantity

(* Every item sets the stock that was read in step 1 less its quantity: the last one wins. *)
NewStock(d, cart) ==
  [p \in DOMAIN d.stock |->
     LET is == {i \in DOMAIN cart : cart[i].product = p}
     IN  IF is = {} THEN d.stock[p] ELSE d.stock[p] - cart[Max(is)].quantity]

PurchaseTx(d, cart) ==
  IF StockSuffices(d, cart)
    THEN Then(FreezeAmount([d EXCEPT !.orders = Append(@, cart)], "primary", Total(cart)), LAMBDA e :
              CommitTransaction([e EXCEPT !.stock = NewStock(d, cart)], "primary", Len(e.transactions)))
    ELSE {}

CreateTx(d, ts) == {[d EXCEPT !.wallets = @ @@ [t \in ts \ DOMAIN d.wallets |-> [balance |-> MinBalance[t], frozen |-> 0]]]}

Tx(r) ==
  CASE r.op = "add" -> AddTx(db, r.wallet, r.amount)
    [] r.op = "transfer" -> TransferTx(db, r.wallet, r.to, r.amount)
    [] r.op = "purchase" -> PurchaseTx(db, r.cart)
    [] r.op = "create" -> InsertWallet(db, r.wallet, MinBalance[r.wallet])
    [] r.op = "createAll" -> CreateTx(db, WalletTypes)
    [] r.op = "freeze" -> FreezeAmount(db, r.wallet, r.amount)
    [] r.op = "settle" -> CommitTransaction(db, r.wallet, r.id) \cup RollbackTransaction(db, r.wallet, r.id)

(* Mutant: an error returns without the deferred Rollback. *)
LeakingEnd(s, ok) == openConns' = IF ok THEN openConns - 1 ELSE openConns

(* The deferred Rollback, a no-op after Commit, returns the connection. *)
EndTx(s, ok) == openConns' = openConns - 1

(* The transaction commits, or a statement or the commit itself fails, for a serialization      *)
(* failure too.  A transaction that froze an amount is followed by the one that settles it.     *)
CommitTx(s) ==
  /\ request[s].pc = "commit"
  /\ \/ /\ db' \in Tx(request[s]) /\ EndTx(s, TRUE)
        /\ request' = [request EXCEPT ![s] = IF @.op = "freeze"
             THEN [op |-> "settle", wallet |-> @.wallet, id |-> Len(db'.transactions), pc |-> "begin"] ELSE Idle]
     \/ EndTx(s, FALSE) /\ request' = [request EXCEPT ![s] = Idle] /\ UNCHANGED db
  /\ UNCHANGED requestsMade

ShopperStep(s) == BeginTx(s) \/ QueryOutsideTx(s) \/ CommitTx(s)

ShopNext ==
  \E s \in Shoppers :
    \/ AddWalletBalance(s) \/ TransferBetweenWallets(s) \/ MakePurchase(s)
    \/ CreateWallet(s) \/ AutoCreateWallets(s) \/ Freeze(s)
    \/ ShopperStep(s)

ShopSpec == Setup /\ [][ShopNext]_shopVars /\ \A s \in Shoppers : WF_shopVars(ShopperStep(s))

-----------------------------------------------------------------------------
(* What is frozen in a wallet is what its pending transactions took (the   *)
(* IsConsistent of GetPendingInfoByType), and balance and frozen together  *)
(* are what its completed transactions left, whatever requests raced.      *)
MoneyAccounted ==
  \A t \in DOMAIN db.wallets :
    LET w == db.wallets[t]
        SumOf(type, status) == SumWhere(db, LAMBDA r : r.wallet = t /\ r.type = type /\ r.status = status)
    IN  /\ w.frozen = SumOf("debit", "pending")
        /\ w.balance + w.frozen - SumOf("credit", "completed") + SumOf("debit", "completed") \in {0, MinBalance[t]}

Ordered(p) ==
  MapThenSumSet(LAMBDA i : MapThenSumSet(LAMBDA j : IF db.orders[i][j].product = p THEN db.orders[i][j].quantity ELSE 0,
                                         DOMAIN db.orders[i]), DOMAIN db.orders)

(* What was ordered left the stock, which never runs below zero, when no   *)
(* request names a product twice.                                          *)
StockAccounted == \A p \in DOMAIN InitialStock : db.stock[p] >= 0 /\ db.stock[p] + Ordered(p) = InitialStock[p]

(* GetAccountBalance of the account of the wallets: posted journals only. *)
AccountBalance(account) ==
  MapThenSumSet(LAMBDA j : LET e == db.journals[j]
                           IN  IF e.status # "posted" THEN 0
                               ELSE (IF e.debit = account THEN e.amount ELSE 0) - (IF e.credit = account THEN e.amount ELSE 0),
                DOMAIN db.journals)

(* The ledger's account of the user wallets holds what the wallets hold    *)
(* ("Keep journal as pending (will be posted when committed or reversed    *)
(* when rolled back)", wallet_service.go:566).                             *)
LedgerMatchesWallets ==
  AccountBalance("wallets") = MapThenSumSet(LAMBDA t : db.wallets[t].balance, DOMAIN db.wallets)

(* A request is answered: it gets its connections, as long as there are    *)
(* more of them than goroutines.                                           *)
RequestsAnswered == \A s \in Shoppers : []<>(request[s].pc = "idle")

-----------------------------------------------------------------------------
(***************************************************************************)
(* One request of the two-person approval workflow of apps/postgres-demo   *)
(* (services/approval_service.go).  Approve and Reject read the row, check *)
(* it, and only then update it; other calls run in between.                *)
(***************************************************************************)

CONSTANTS
  Requester,  \* the one who called CreateApproval
  Nobody,     \* NULL
  Deciders    \* bound: the calls of Approve and Reject, a function to the user of each

ASSUME ApprovalAssumption ==
  /\ Requester # Nobody /\ IsFiniteSet(DOMAIN Deciders)
  /\ \A c \in DOMAIN Deciders : Deciders[c] # Nobody

VARIABLES
  approval, \* the row: [status, first, second, rejectedBy]
  decision, \* what a call does: "idle", "approve", "reject", "ok", "error"
  expired   \* expires_at has passed

approvalVars == <<approval, decision, expired>>

CreateApproval ==
  /\ approval = [status |-> "pending", first |-> Nobody, second |-> Nobody, rejectedBy |-> Nobody]
  /\ decision = [c \in DOMAIN Deciders |-> "idle"] /\ expired = FALSE

(* The checks on the row that GetApproval read, before the transaction. *)
MayApprove(u) == approval.status = "pending" /\ u \notin {Requester, approval.first, approval.second}

MayReject(u) == approval.status = "pending" /\ u # Requester

Answer(c, d) == decision' = [decision EXCEPT ![c] = d]

Approve(c) ==
  /\ decision[c] = "idle"
  /\ Answer(c, IF MayApprove(Deciders[c]) THEN "approve" ELSE "error")
  /\ UNCHANGED <<approval, expired>>

Reject(c) ==
  /\ decision[c] = "idle"
  /\ Answer(c, IF MayReject(Deciders[c]) THEN "reject" ELSE "error")
  /\ UNCHANGED <<approval, expired>>

(* Mutant: the status is not checked again under the row lock. *)
RecordUnchecked(c) ==
  /\ decision[c] = "approve"
  /\ approval' = IF approval.first = Nobody THEN [approval EXCEPT !.first = Deciders[c]]
                 ELSE [approval EXCEPT !.second = Deciders[c], !.status = "approved"]
  /\ Answer(c, "ok") /\ UNCHANGED expired

(* The transaction of Approve, with the row locked: it finds another state, or fails. *)
RecordApproval(c) ==
  /\ decision[c] = "approve"
  /\ \/ /\ approval.status = "pending" /\ approval.first = Nobody
        /\ approval' = [approval EXCEPT !.first = Deciders[c]] /\ Answer(c, "ok")
     \/ /\ approval.status = "pending" /\ approval.first # Nobody /\ approval.second = Nobody
        /\ approval' = [approval EXCEPT !.second = Deciders[c], !.status = "approved"] /\ Answer(c, "ok")
     \/ UNCHANGED approval /\ Answer(c, "error")
  /\ UNCHANGED expired

(* The UPDATE of Reject, of a row that is still pending. *)
RecordRejection(c) ==
  /\ decision[c] = "reject"
  /\ \/ /\ approval.status = "pending"
        /\ approval' = [approval EXCEPT !.status = "rejected", !.rejectedBy = Deciders[c]] /\ Answer(c, "ok")
     \/ UNCHANGED approval /\ Answer(c, "error")
  /\ UNCHANGED expired

Expire == ~expired /\ expired' = TRUE /\ UNCHANGED <<approval, decision>>

ExpirePendingApprovals ==
  /\ expired /\ approval.status = "pending"
  /\ approval' = [approval EXCEPT !.status = "expired"]
  /\ UNCHANGED <<decision, expired>>

ApprovalNext ==
  \/ \E c \in DOMAIN Deciders : Approve(c) \/ Reject(c) \/ RecordApproval(c) \/ RecordRejection(c)
  \/ Expire \/ ExpirePendingApprovals

ApprovalSpec == CreateApproval /\ [][ApprovalNext]_approvalVars

(* A request that has been decided stays as it was decided, and the calls  *)
(* that were told "ok" are the ones whose decision it carries: no answer   *)
(* is lost to a call that read the row earlier.                            *)
DecisionsStand ==
  /\ approval.status = "approved" <=> approval.second # Nobody
  /\ approval.status = "rejected" <=> approval.rejectedBy # Nobody
  /\ Requester \notin {approval.first, approval.second, approval.rejectedBy}
  /\ Cardinality({c \in DOMAIN Deciders : decision[c] = "ok"}) =
       Cardinality({f \in {"first", "second", "rejectedBy"} : approval[f] # Nobody})
=============================================================================
