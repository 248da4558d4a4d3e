------------------------------ MODULE Payments ------------------------------
(***************************************************************************)
(* Payments through YooKassa and the billing account                       *)
(* (services/yookassa_service.py, api/payments.py, services/billing.py,    *)
(* api/billing.py).  A payment is created at the provider and recorded     *)
(* when the answer arrives.  The provider settles it and notifies the      *)
(* webhook, again and again until it is answered.                          *)
(*                                                                         *)
(* create_payment and payment_webhook are coroutines of one API process    *)
(* (docker-compose.yml), which interleave where they await: a creation at  *)
(* its POST, a webhook nowhere between its query and its commit.           *)
(*                                                                         *)
(* The provider is external: a payment there goes from pending to          *)
(* succeeded or canceled and stays so.  Amounts are left out: a row gets   *)
(* the amount of its payment, and the balance is never changed.            *)
(***************************************************************************)
EXTENDS Deployment, FiniteSets

CONSTANTS
  PayIds,        \* payments at the provider
  TxIds          \* billing_transactions that may be created

TxStatus == {"pending", "completed", "failed"}
Tx == [pay : PayIds \cup {"demo"}, status : TxStatus]

ASSUME PaymentsAssumption == "demo" \notin PayIds /\ None \notin Tx

VARIABLES
  configured,  \* the shop's credentials are set
  prov,        \* the provider's payments
  creating,    \* payments whose creation waits for the provider's answer
  notify,      \* payments whose notification was not answered
  txs,         \* billing_transactions: external_id and status, or None
  account,     \* the organization's billing account exists
  overtaken    \* payments whose webhook came before the answer (history)

payVars == <<configured, prov, creating, notify, txs, account, overtaken>>

PayInit ==
  /\ configured \in BOOLEAN
  /\ prov = [p \in PayIds |-> "none"]
  /\ creating = {}
  /\ notify = {}
  /\ txs = [t \in TxIds |-> None]
  /\ account = FALSE
  /\ overtaken = {}

Insert(p, status) ==
  \E t \in TxIds :
    /\ txs[t] = None
    /\ txs' = [txs EXCEPT ![t] = [pay |-> p, status |-> status]]

-----------------------------------------------------------------------------
(* create_payment *)

\* The POST reaches the provider; without credentials nothing happens.
CreateAtProvider(p) ==
  /\ configured
  /\ prov[p] = "none"
  /\ prov' = [prov EXCEPT ![p] = "pending"]
  /\ creating' = creating \cup {p}
  /\ UNCHANGED <<configured, notify, txs, account, overtaken>>

\* Its answer arrives.
SavePending(p) ==
  /\ p \in creating
  /\ Insert(p, "pending")
  /\ creating' = creating \ {p}
  /\ UNCHANGED <<configured, prov, notify, account, overtaken>>

\* Or it is lost, or the process is: nothing is recorded of the payment.
LoseAnswer(p) ==
  /\ p \in creating
  /\ creating' = creating \ {p}
  /\ UNCHANGED <<configured, prov, notify, txs, account, overtaken>>

-----------------------------------------------------------------------------
(* The provider *)

Settle(p) ==
  /\ prov[p] = "pending"
  /\ \E s \in {"succeeded", "canceled"} : prov' = [prov EXCEPT ![p] = s]
  /\ notify' = notify \cup {p}
  /\ UNCHANGED <<configured, creating, txs, account, overtaken>>

-----------------------------------------------------------------------------
(* process_webhook *)

\* Mutant of RowsOf: the external_id is not compared.
RowsOfAny(p) == {t \in TxIds : txs[t] # None}

RowsOf(p) == {t \in TxIds : txs[t] # None /\ txs[t].pay = p}

\* The provider notifies no more, unless the answer is lost.
Answer(p) == notify' = notify \ {p} \/ notify' = notify

SetFirst(p, status) ==
  \E t \in RowsOf(p) : txs' = [txs EXCEPT ![t].status = status]

Overtakes(p) == overtaken' = IF p \in creating THEN overtaken \cup {p} ELSE overtaken

\* Mutant of CreditBalance: a payment whose row is not found is ignored.
CreditKnown(p) ==
  /\ p \in notify /\ prov[p] = "succeeded"
  /\ IF RowsOf(p) = {} THEN UNCHANGED txs ELSE SetFirst(p, "completed")
  /\ Answer(p)
  /\ Overtakes(p)
  /\ UNCHANGED <<configured, prov, creating, account>>

\* Mutant of CreditBalance: the row is not looked for.
CreditAgain(p) ==
  /\ p \in notify /\ prov[p] = "succeeded"
  /\ Insert(p, "completed")
  /\ Answer(p)
  /\ Overtakes(p)
  /\ UNCHANGED <<configured, prov, creating, account>>

\* _credit_balance: some row of the payment is completed, or a completed one
\* inserted if there is none.  The account is not touched.
CreditBalance(p) ==
  /\ p \in notify /\ prov[p] = "succeeded"
  /\ IF RowsOf(p) = {} THEN Insert(p, "completed") ELSE SetFirst(p, "completed")
  /\ Answer(p)
  /\ Overtakes(p)
  /\ UNCHANGED <<configured, prov, creating, account>>

\* _mark_transaction_failed
MarkFailed(p) ==
  /\ p \in notify /\ prov[p] = "canceled"
  /\ IF RowsOf(p) = {} THEN UNCHANGED txs ELSE SetFirst(p, "failed")
  /\ Answer(p)
  /\ Overtakes(p)
  /\ UNCHANGED <<configured, prov, creating, account>>

-----------------------------------------------------------------------------
(* Billing *)

\* get_or_create_account, asked for by itself or by process_topup.  The
\* latter then adds a float to the Decimal of the balance column, which
\* raises: the account stays, its transaction is not committed.
OpenAccount ==
  /\ ~account
  /\ account' = TRUE
  /\ UNCHANGED <<configured, prov, creating, notify, txs, overtaken>>

\* demo_topup, only without credentials: a completed transaction of its own.
DemoTopup ==
  /\ ~configured
  /\ Insert("demo", "completed")
  /\ UNCHANGED <<configured, prov, creating, notify, account, overtaken>>

-----------------------------------------------------------------------------
Webhook(p) == CreditBalance(p) \/ MarkFailed(p)

PayNext ==
  \/ \E p \in PayIds :
       CreateAtProvider(p) \/ SavePending(p) \/ LoseAnswer(p) \/ Settle(p) \/ Webhook(p)
  \/ OpenAccount
  \/ DemoTopup

PaySpec == PayInit /\ [][PayNext]_payVars

-----------------------------------------------------------------------------
(* Properties *)

PayTypeOK ==
  /\ configured \in BOOLEAN
  /\ prov \in [PayIds -> {"none", "pending", "succeeded", "canceled"}]
  /\ creating \in SUBSET PayIds
  /\ notify \in SUBSET PayIds
  /\ txs \in [TxIds -> Tx \cup {None}]
  /\ account \in BOOLEAN
  /\ overtaken \in SUBSET PayIds

\* The ledger tells what the provider did: a completed transaction is of a
\* payment that succeeded, a failed one of a payment that was canceled,
\* whichever order creations, repeated webhooks and losses come in.
LedgerFollowsProvider ==
  \A t \in TxIds : txs[t] # None /\ txs[t].pay \in PayIds =>
    /\ txs[t].status = "completed" => prov[txs[t].pay] = "succeeded"
    /\ txs[t].status = "failed" => prov[txs[t].pay] = "canceled"

\* A payment has one transaction, however often its webhook is repeated and
\* whether or not its answer was lost, unless a webhook overtook the answer:
\* then the creation adds a second row, which a repeated webhook completes.
BookedOnce ==
  \A p \in PayIds \ overtaken : \A t, u \in RowsOf(p) : t = u

\* A payment that succeeded is recorded as completed in the end, although
\* its creation was lost before it was recorded.
PaidIsRecorded ==
  \A p \in PayIds : prov[p] = "succeeded"
    ~> \E t \in TxIds : txs[t] # None /\ txs[t].pay = p /\ txs[t].status = "completed"
=============================================================================
