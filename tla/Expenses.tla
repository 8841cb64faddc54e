------------------------------ MODULE Expenses ------------------------------
(* Paid services of the franchises (franchise/expenses.ts): a request the    *)
(* commissioner approves with a limit, one reservation against the wallet    *)
(* the owner's turns are paid from as well, and one final invoice.  A command *)
(* repeated under its key is answered with its receipt and changes nothing.  *)
EXTENDS Integers, FiniteSets, Totals

CONSTANTS Requests,   \* service requests of one franchise
          Budget,     \* budget_micros, in units
          Amounts,    \* limits, reservations and invoices
          Invoices,   \* references of invoices
          MaxTurns    \* bound on the turns paid from the same wallet

VARIABLES requests,   \* request -> [status, limit]
          expenses,   \* request -> [status, reserved, actual, invoice]
          wallet,     \* [spent, reserved, enabled], shared with the turns of the owner
          turns,      \* the owner's turns: [hold: reserved by the running one, paid, count]
          overruns    \* by how much invoices and turns went beyond what was reserved

expenseVars == <<requests, expenses, wallet, turns, overruns>>

NoExpense == [status |-> "none", reserved |-> 0, actual |-> 0, invoice |-> "none"]
Unsettled == {"reserved", "uncertain"}

ExpensesInit ==
    /\ requests = [r \in Requests |-> [status |-> "none", limit |-> 0]]
    /\ expenses = [r \in Requests |-> NoExpense]
    /\ wallet = [spent |-> 0, reserved |-> 0, enabled |-> TRUE]
    /\ turns = [hold |-> 0, paid |-> 0, count |-> 0]
    /\ overruns = 0

-----------------------------------------------------------------------------
RequestService(r) ==
    /\ requests[r].status = "none"
    /\ \E limit \in Amounts : requests' = [requests EXCEPT ![r] = [status |-> "requested", limit |-> limit]]
    /\ UNCHANGED <<expenses, wallet, turns, overruns>>

ReviewService(r) ==
    /\ requests[r].status = "requested"
    /\ \E decision \in {"approved", "declined"} : requests' = [requests EXCEPT ![r].status = decision]
    /\ UNCHANGED <<expenses, wallet, turns, overruns>>

\* Mutant: what is only reserved is taken for free.
AvailableIgnoringHolds == Budget - wallet.spent

Available == Budget - wallet.spent - wallet.reserved

BeginExpense(r, amount) ==
    /\ wallet.enabled
    /\ requests[r].status = "approved"
    /\ amount <= requests[r].limit
    /\ expenses[r] = NoExpense
    /\ Available >= amount
    /\ expenses' = [expenses EXCEPT ![r] = [NoExpense EXCEPT !.status = "reserved", !.reserved = amount]]
    /\ wallet' = [wallet EXCEPT !.reserved = @ + amount]
    /\ UNCHANGED <<requests, turns, overruns>>

Existing(r) == expenses[r].status \in Unsettled /\ wallet.reserved >= expenses[r].reserved

\* What was reserved is replaced by the actual cost; a cost above it freezes the owner.
Beyond(reserved, cost) == IF cost > reserved THEN cost - reserved ELSE 0
Charged(reserved, cost) == [spent |-> wallet.spent + cost, reserved |-> wallet.reserved - reserved,
                            enabled |-> wallet.enabled /\ Beyond(reserved, cost) = 0]

SettleExpense(r, actual, invoice) ==
    /\ Existing(r)
    /\ \A q \in Requests : expenses[q].invoice # invoice
    /\ wallet' = Charged(expenses[r].reserved, actual)
    /\ expenses' = [expenses EXCEPT ![r].status = "settled", ![r].actual = actual, ![r].invoice = invoice]
    /\ overruns' = overruns + Beyond(expenses[r].reserved, actual)
    /\ UNCHANGED <<requests, turns>>

\* Nobody knows whether it was charged: the whole amount stays reserved.
MarkUncertain(r) ==
    /\ Existing(r)
    /\ expenses[r].status = "reserved"
    /\ expenses' = [expenses EXCEPT ![r].status = "uncertain"]
    /\ UNCHANGED <<requests, wallet, turns, overruns>>

CancelExpense(r) ==
    /\ Existing(r)
    /\ wallet' = [wallet EXCEPT !.reserved = @ - expenses[r].reserved]
    /\ expenses' = [expenses EXCEPT ![r].status = "cancelled"]
    /\ UNCHANGED <<requests, turns, overruns>>

-----------------------------------------------------------------------------
(* The turns of RuntimeTurns, as far as the wallet sees them. *)

ReserveForTurn(amount) ==
    /\ turns.hold = 0 /\ turns.count < MaxTurns
    /\ wallet.enabled /\ Available >= amount
    /\ turns' = [turns EXCEPT !.hold = amount, !.count = @ + 1]
    /\ wallet' = [wallet EXCEPT !.reserved = @ + amount]
    /\ UNCHANGED <<requests, expenses, overruns>>

SettleTurn(cost) ==
    /\ turns.hold > 0
    /\ wallet' = Charged(turns.hold, cost)
    /\ turns' = [turns EXCEPT !.hold = 0, !.paid = @ + cost]
    /\ overruns' = overruns + Beyond(turns.hold, cost)
    /\ UNCHANGED <<requests, expenses>>

\* The commissioner may switch a frozen owner on again.
Thaw ==
    /\ ~wallet.enabled
    /\ wallet' = [wallet EXCEPT !.enabled = TRUE]
    /\ UNCHANGED <<requests, expenses, turns, overruns>>

ExpensesNext ==
    \/ \E r \in Requests : \/ RequestService(r) \/ ReviewService(r) \/ MarkUncertain(r) \/ CancelExpense(r)
                           \/ \E a \in Amounts : BeginExpense(r, a)
                           \/ \E a \in Amounts \cup {0}, i \in Invoices : SettleExpense(r, a, i)
    \/ \E a \in Amounts : ReserveForTurn(a)
    \/ \E a \in Amounts \cup {0} : SettleTurn(a)
    \/ Thaw

-----------------------------------------------------------------------------
HeldBack == [r \in Requests |-> IF expenses[r].status \in Unsettled THEN expenses[r].reserved ELSE 0]
Invoiced == [r \in Requests |-> expenses[r].actual]

(* The wallet agrees with the books of both its users: what it holds back is *)
(* what open expenses and the running turn reserved, what it spent is what   *)
(* they were charged, and together they go beyond the budget by no more than *)
(* what came in above its reservation.                                       *)
WalletAgrees ==
    /\ wallet.reserved = turns.hold + Total(HeldBack)
    /\ wallet.spent = turns.paid + Total(Invoiced)
    /\ wallet.spent + wallet.reserved <= Budget + overruns
=============================================================================
