------------------------------- MODULE Billing ------------------------------
(***************************************************************************)
(* Closing a month: billing-close jobs that price each company's usage,    *)
(* apply its credits and write draft invoices, in transactions that meet   *)
(* each other, the issuing of invoices and the granting of credits.        *)
(*                                                                         *)
(* The usage a job reads (v_billing_usage, module Analytics) is one of the *)
(* Readings, which grow as events are logged.  Descriptions, currencies    *)
(* and quantities of invoice lines are left out.  Time is counted in       *)
(* months: period p lasts from p to p + 1.                                 *)
(*                                                                         *)
(* A definition named X_Y is X with a fault Y: the properties below must   *)
(* fail when it takes the place of X.                                      *)
(***************************************************************************)
EXTENDS Integers, Sequences, FiniteSets, SequencesExt

CONSTANTS
    Companies,
    Plan,         \* each company's price table, or NoPlan, or BadPlan
    NoPlan,       \* plan_id is NULL
    BadPlan,      \* a price table that does not parse
    Periods,      \* months
    Readings,     \* the usage of a month of each company, as it grows
    Credits,      \* the ids of credits
    CreditOf,     \* their columns
    InitCredits,  \* the credits a run starts with
    Closes,       \* runs of billing-close
    NoCompany,
    MaxFaults     \* bound: transactions that fail, jobs that die

Never == 1000000  \* expires_at IS NULL

Kinds == {"base_fee", "sessions", "managed_input_tokens", "managed_output_tokens", "runs"}

Usage == [Sessions : Nat, ManagedInputTokens : Nat, ManagedOutputTokens : Nat, Runs : Nat]

PriceTable == [BaseFeeCents : Nat, IncludedSessions : Nat, SessionCents : Nat,
               ManagedInputPerMillionCents : Nat, ManagedOutputPerMillionCents : Nat,
               IncludedRuns : Nat, RunCents : Nat]

CreditRecord == [company : Companies, amount : Nat, granted : Nat, expires : Nat]

ASSUME PlansAssumption ==
    /\ DOMAIN Plan = Companies /\ NoCompany \notin Companies
    /\ \A c \in Companies : Plan[c] \in {NoPlan, BadPlan} \/ Plan[c] \in PriceTable
ASSUME ReadingsAssumption ==
    /\ Periods \subseteq Nat /\ IsFiniteSet(Periods) /\ DOMAIN Readings = Companies
    /\ \A c \in Companies : Readings[c] # <<>> /\ Readings[c] \in Seq(Usage)
ASSUME CreditsAssumption ==
    /\ Credits \subseteq Nat /\ IsFiniteSet(Credits) /\ InitCredits \subseteq Credits /\ MaxFaults \in Nat
    /\ DOMAIN CreditOf = Credits /\ \A k \in Credits : CreditOf[k] \in CreditRecord

VARIABLES
    reading,  \* how far the usage of each company and period has grown
    credits,  \* billing_credits: the credits granted
    invoice,  \* invoices with their lines, as committed
    job,      \* where each billing-close is, and its transaction
    faults    \* faults so far

vars == <<reading, credits, invoice, job, faults>>

NoInvoice == [status |-> "none", charges |-> [kind \in Kinds |-> 0], credit |-> [k \in Credits |-> 0]]

NewJob == [pc |-> "usage", period |-> 0, read |-> [c \in Companies |-> 1], todo |-> {},
           company |-> NoCompany, locked |-> {}, created |-> FALSE,
           lines |-> [k \in Credits |-> 0]]
Ended == [NewJob EXCEPT !.pc = "done"]

Init ==
    /\ reading = [c \in Companies |-> [p \in Periods |-> 1]]
    /\ credits = InitCredits
    /\ invoice = [c \in Companies |-> [p \in Periods |-> NoInvoice]]
    /\ job = [j \in Closes |-> NewJob]
    /\ faults = 0

-----------------------------------------------------------------------------
(* Pricing.                                                                *)

Million == 1000000

(* ceil(quantity * centsPerMillion / 1e6). *)
perMillionCeil(quantity, centsPerMillion) ==
    LET product == quantity * centsPerMillion IN
    IF product % Million > 0 THEN product \div Million + 1 ELSE product \div Million

Billable(n, included, cents) == IF n > included THEN (n - included) * cents ELSE 0

(* The amount of each kind of line; a line with a zero amount is omitted. *)
Price(usage, table) ==
    [kind \in Kinds |->
        CASE kind = "base_fee" -> table.BaseFeeCents
          [] kind = "sessions" -> Billable(usage.Sessions, table.IncludedSessions, table.SessionCents)
          [] kind = "managed_input_tokens" ->
                perMillionCeil(usage.ManagedInputTokens, table.ManagedInputPerMillionCents)
          [] kind = "managed_output_tokens" ->
                perMillionCeil(usage.ManagedOutputTokens, table.ManagedOutputPerMillionCents)
          [] kind = "runs" -> Billable(usage.Runs, table.IncludedRuns, table.RunCents)]

Total(amounts) == SumFunction(amounts)

(* Soonest-expiring first, never expiring last, then the oldest grant, and *)
(* then by id.                                                             *)
Before(k, l) ==
    LET x == CreditOf[k]
        y == CreditOf[l]
    IN \/ x.expires < y.expires
       \/ x.expires = y.expires /\ x.granted < y.granted
       \/ x.expires = y.expires /\ x.granted = y.granted /\ k < l

sortCredits(S) ==
    [n \in 1..Cardinality(S) |-> CHOOSE k \in S : Cardinality({l \in S : Before(l, k)}) = n - 1]

(* A credit covers what is still due, as far as it goes. *)
Spend(subtotal, remaining, paid, k) ==
    LET due == subtotal - Total(paid) IN
    [paid EXCEPT ![k] = IF remaining[k] < due THEN remaining[k] ELSE due]

(* What each credit covers of the subtotal; remaining is 0 for those that  *)
(* are not available.                                                      *)
ApplyCredits(subtotal, remaining) ==
    LET ordered == sortCredits({k \in Credits : remaining[k] > 0})
        paid[n \in 0..Len(ordered)] ==
            IF n = 0 THEN [k \in Credits |-> 0]
                     ELSE Spend(subtotal, remaining, paid[n - 1], ordered[n])
    IN paid[Len(ordered)]

-----------------------------------------------------------------------------
(* Transactions.                                                           *)

CreditsOf(c) == {k \in credits : CreditOf[k].company = c}

(* The rows of billing_credits a transaction locks FOR UPDATE. *)
CreditRows_None(c) == {}
CreditRows(c) == CreditsOf(c)

(* job j holds the row of an invoice: it inserted it, or SELECTed it FOR   *)
(* UPDATE.                                                                 *)
HoldsInvoice_Inserted(j, c, p) ==
    job[j].company = c /\ job[j].period = p /\ job[j].created
HoldsInvoice(j, c, p) ==
    job[j].company = c /\ job[j].period = p /\ (job[j].created \/ job[j].pc \in {"credits", "write"})

Company(j) == job[j].company
Invoice(j) == invoice[Company(j)][job[j].period]

(* Job j goes on after company c, with the transaction's locks released. *)
After_KeepsLocks(j, c) ==
    LET todo == job[j].todo \ {c}
        next == IF todo = {} THEN Ended ELSE [NewJob EXCEPT !.pc = "company", !.period = job[j].period,
                                                           !.read = job[j].read, !.todo = todo]
    IN [next EXCEPT !.locked = job[j].locked]
After(j, c) ==
    LET todo == job[j].todo \ {c} IN
    IF todo = {} THEN Ended
    ELSE [job[j] EXCEPT !.pc = "company", !.todo = todo, !.company = NoCompany, !.locked = {},
                        !.created = FALSE, !.lines = [k \in Credits |-> 0]]

(* What the invoices of some months that are not void took of a credit. *)
Taken(c, k, months) ==
    Total([q \in {m \in months : invoice[c][m].status # "void"} |-> invoice[c][q].credit[k]])

(* The balance of each credit valid for the period, net of what the other  *)
(* invoices that are not void took of it.                                  *)
availableCredits(c, p) ==
    [k \in Credits |->
        IF k \in CreditsOf(c) /\ CreditOf[k].granted < p + 1 /\ CreditOf[k].expires > p
        THEN CreditOf[k].amount - Taken(c, k, Periods \ {p})
        ELSE 0]

-----------------------------------------------------------------------------
(* Closer.Close.                                                           *)

Step(j, state) ==
    /\ job' = [job EXCEPT ![j] = state]
    /\ UNCHANGED <<reading, credits>>

ReadUsage(j) ==
    /\ job[j].pc = "usage"
    /\ \E p \in Periods : Step(j, [job[j] EXCEPT !.pc = "list", !.period = p,
                                     !.read = [c \in Companies |-> reading[c][p]]])
    /\ UNCHANGED <<invoice, faults>>

(* Every company on a plan. *)
ListCompanies(j) ==
    /\ job[j].pc = "list"
    /\ LET planned == {c \in Companies : Plan[c] # NoPlan} IN
       Step(j, IF planned = {} THEN Ended ELSE [job[j] EXCEPT !.pc = "company", !.todo = planned])
    /\ UNCHANGED <<invoice, faults>>

(* WriteDraft begins; it waits for the credits another job has locked.  A  *)
(* price table that does not parse is a failure of this company alone.     *)
LockCredits(j) ==
    /\ job[j].pc = "company"
    /\ \E c \in job[j].todo :
          IF Plan[c] = BadPlan
          THEN Step(j, After(j, c))
          ELSE /\ \A i \in Closes \ {j} : job[i].locked \cap CreditRows(c) = {}
               /\ Step(j, [job[j] EXCEPT !.pc = "insert", !.company = c, !.locked = CreditRows(c)])
    /\ UNCHANGED <<invoice, faults>>

(* INSERT ... ON CONFLICT DO NOTHING waits for a row that is being         *)
(* inserted.                                                               *)
InsertInvoice(j) ==
    /\ job[j].pc = "insert"
    /\ \A i \in Closes \ {j} : ~(HoldsInvoice(i, Company(j), job[j].period) /\ job[i].created)
    /\ Step(j, [job[j] EXCEPT !.pc = "invoice", !.created = Invoice(j).status = "none"])
    /\ UNCHANGED <<invoice, faults>>

LockInvoice(j) ==
    /\ job[j].pc = "invoice"
    /\ \A i \in Closes \ {j} : ~HoldsInvoice(i, Company(j), job[j].period)
    /\ IF job[j].created \/ Invoice(j).status = "draft"
       THEN Step(j, [job[j] EXCEPT !.pc = "credits"])
       ELSE Step(j, After(j, Company(j)))                    \* DraftFinal
    /\ UNCHANGED <<invoice, faults>>

Charges(j) == Price(Readings[Company(j)][job[j].read[Company(j)]], Plan[Company(j)])

ComputeCredits(j) ==
    /\ job[j].pc = "credits"
    /\ LET paid == ApplyCredits(Total(Charges(j)), availableCredits(Company(j), job[j].period))
       IN Step(j, [job[j] EXCEPT !.pc = "write", !.lines = paid])
    /\ UNCHANGED <<invoice, faults>>

(* The lines and totals are replaced and the transaction commits. *)
WriteLines(j) ==
    /\ job[j].pc = "write"
    /\ invoice' = [invoice EXCEPT ![Company(j)][job[j].period] =
                      [status |-> "draft", charges |-> Charges(j), credit |-> job[j].lines]]
    /\ Step(j, After(j, Company(j)))
    /\ UNCHANGED faults

(* A statement fails and the transaction rolls back: the job goes on with  *)
(* the next company, or dies.                                              *)
CloseFails(j) ==
    /\ Company(j) # NoCompany
    /\ faults < MaxFaults /\ faults' = faults + 1
    /\ \E state \in {After(j, Company(j)), Ended} : Step(j, state)
    /\ UNCHANGED invoice

-----------------------------------------------------------------------------
(* What happens to billing's tables and usage meanwhile.                   *)

(* An UPDATE of the draft; it waits for the row's lock.  A row that is     *)
(* not committed is not found.                                             *)
IssueInvoice(c, p) ==
    /\ invoice[c][p].status = "draft"
    /\ \A j \in Closes : ~HoldsInvoice(j, c, p)
    /\ invoice' = [invoice EXCEPT ![c][p].status = "issued"]
    /\ UNCHANGED <<reading, credits, job, faults>>

(* Nothing in this repository voids an invoice or grants a credit. *)
VoidInvoice(c, p) ==
    /\ invoice[c][p].status = "issued"
    /\ invoice' = [invoice EXCEPT ![c][p].status = "void"]
    /\ UNCHANGED <<reading, credits, job, faults>>

GrantCredit(k) ==
    /\ k \notin credits
    /\ credits' = credits \cup {k}
    /\ UNCHANGED <<reading, invoice, job, faults>>

(* Late events. *)
UsageGrows(c, p) ==
    /\ reading[c][p] < Len(Readings[c])
    /\ reading' = [reading EXCEPT ![c][p] = @ + 1]
    /\ UNCHANGED <<credits, invoice, job, faults>>

Close(j) == \/ ReadUsage(j) \/ ListCompanies(j) \/ LockCredits(j) \/ InsertInvoice(j)
            \/ LockInvoice(j) \/ ComputeCredits(j) \/ WriteLines(j)

Next ==
    \/ \E j \in Closes : Close(j) \/ CloseFails(j)
    \/ \E c \in Companies, p \in Periods : IssueInvoice(c, p) \/ VoidInvoice(c, p) \/ UsageGrows(c, p)
    \/ \E k \in Credits : GrantCredit(k)

Spec == Init /\ [][Next]_vars

(* The calls of a job return. *)
FairSpec == Spec /\ \A j \in Closes : WF_vars(Close(j))

-----------------------------------------------------------------------------
(* Properties.                                                             *)

InvoiceRecord == [status : {"none", "draft", "issued", "void"},
                  charges : [Kinds -> Nat], credit : [Credits -> Nat]]
JobRecord == [pc : {"usage", "list", "company", "insert", "invoice", "credits", "write", "done"},
              period : Periods \cup {0}, read : [Companies -> Nat],
              todo : SUBSET Companies, company : Companies \cup {NoCompany},
              locked : SUBSET Credits, created : BOOLEAN, lines : [Credits -> Nat]]

(* Every variable has its type. *)
TypeOK ==
    /\ reading \in [Companies -> [Periods -> Nat]]
    /\ credits \subseteq Credits
    /\ invoice \in [Companies -> [Periods -> InvoiceRecord]]
    /\ job \in [Closes -> JobRecord]
    /\ faults \in 0..MaxFaults

(* Whatever closes overlap, fail and run again, the invoices of a company  *)
(* never spend more of a credit than it is worth, nor an invoice more than *)
(* it charges.  A company must have a credit from the start: without one   *)
(* there is no row to lock, and two closes may both spend the first credit *)
(* granted while they run.                                                 *)
CreditsNotOverspent ==
    /\ \A k \in Credits :
          (\E l \in InitCredits : CreditOf[l].company = CreditOf[k].company) =>
              Taken(CreditOf[k].company, k, Periods) <= CreditOf[k].amount
    /\ \A c \in Companies, p \in Periods :
          Total(invoice[c][p].credit) <= Total(invoice[c][p].charges)

(* A job at work on an invoice is alone on it, and finds it missing if it  *)
(* inserted it and a draft otherwise.                                      *)
InvoiceHeld ==
    /\ \A j \in Closes :
          /\ job[j].created => job[j].pc \in {"invoice", "credits", "write"} /\ Invoice(j).status = "none"
          /\ job[j].pc \in {"credits", "write"} => job[j].created \/ Invoice(j).status = "draft"
    /\ \A i, j \in Closes, c \in Companies, p \in Periods :
          HoldsInvoice(i, c, p) /\ HoldsInvoice(j, c, p) => i = j

(* No close changes an invoice that was issued, not even one that was      *)
(* already at work on the draft when it was issued.                        *)
IssuedUnchanged ==
    [][\A c \in Companies, p \in Periods : invoice[c][p].status \in {"issued", "void"} =>
          /\ invoice'[c][p].status \in {invoice[c][p].status, "void"}
          /\ invoice'[c][p] = [invoice[c][p] EXCEPT !.status = invoice'[c][p].status]]_vars

(* Every close ends: jobs that wait for each other's locks all go on. *)
ClosesEnd == \A j \in Closes : <>(job[j].pc = "done")

=============================================================================
