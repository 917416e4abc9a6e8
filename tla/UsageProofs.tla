----------------------------- MODULE UsageProofs ----------------------------
(***************************************************************************)
(* Proofs about Billing, for any number of closes, companies and months,   *)
(* and about Analytics, which counts what is billed, for any events.       *)
(***************************************************************************)
EXTENDS Billing, Analytics, FiniteSetTheorems, TLAPS

-----------------------------------------------------------------------------
(* Induction over the naturals.                                            *)

(* A set of naturals that is not empty has a least member. *)
LEMMA LeastMember ==
    ASSUME NEW R, \A n \in R : n \in Nat, R # {}
    PROVE  \E n \in R : \A m \in R : n <= m
<1> DEFINE Less == OpToRel(<, Nat)
<1>1. IsWellFoundedOn(Less, Nat)
  BY NatLessThanWellFounded
<1>2. \A x, y \in Nat : <<y, x>> \in Less <=> y < x
  BY DEF OpToRel
<1> HIDE DEF Less
<1>3. PICK x \in R : \A y \in R : ~(<<y, x>> \in Less)
  BY <1>1, WFMin
<1>4. ASSUME NEW y \in R PROVE x <= y
  <2>1. x \in Nat /\ y \in Nat
    OBVIOUS
  <2>2. ~(<<y, x>> \in Less)
    BY <1>3
  <2>3. ~(y < x)
    BY <1>2, <2>1, <2>2, Zenon
  <2> QED
    BY <2>1, <2>3
<1> QED
  BY <1>4

(* A set that holds 0, and n + 1 whenever it holds n, holds every natural. *)
LEMMA Induction ==
    ASSUME NEW P, 0 \in P, \A n \in Nat : n \in P => n + 1 \in P
    PROVE  Nat \subseteq P
<1> SUFFICES ASSUME Nat \ P # {} PROVE FALSE
  OBVIOUS
<1>1. PICK n \in Nat \ P : \A m \in Nat \ P : n <= m
  BY LeastMember
<1>2. n - 1 \in Nat /\ n - 1 < n
  BY <1>1
<1>3. n - 1 \in P
  BY <1>1, <1>2
<1>4. (n - 1) + 1 \in P
  BY <1>2, <1>3
<1>5. (n - 1) + 1 = n
  BY <1>1
<1> QED
  BY <1>1, <1>4, <1>5

(* g follows from its first value, step by step. *)
Follows(g, x, N, F) == g[0] = x /\ \A i \in 1..N : g[i] = F[<<g[i - 1], i>>]

(* There is a function that does. *)
LEMMA Recursion ==
    ASSUME NEW X, NEW x \in X, NEW N \in Nat, NEW F \in [X \X (1..N) -> X]
    PROVE  \E g \in [0..N -> X] : Follows(g, x, N, F)
<1> DEFINE Q(g, n) == g[0] = x /\ \A i \in 1..n : g[i] = F[<<g[i - 1], i>>]
           P == {n \in Nat : n <= N => \E g \in [0..n -> X] : Q(g, n)}
<1>1. 0 \in P
  <2>1. [i \in 0..0 |-> x] \in [0..0 -> X] /\ Q([i \in 0..0 |-> x], 0)
    OBVIOUS
  <2> QED
    BY <2>1
<1>2. ASSUME NEW n \in Nat, n \in P PROVE n + 1 \in P
  <2> SUFFICES ASSUME n + 1 <= N PROVE \E h \in [0..(n + 1) -> X] : Q(h, n + 1)
    OBVIOUS
  <2>1. PICK g \in [0..n -> X] : Q(g, n)
    BY <1>2
  <2> DEFINE y == F[<<g[n], n + 1>>]
             h == [i \in 0..(n + 1) |-> IF i = n + 1 THEN y ELSE g[i]]
  <2>2. y \in X
    <3>1. g[n] \in X /\ n + 1 \in 1..N
      OBVIOUS
    <3> QED
      BY <3>1
  <2>3. h \in [0..(n + 1) -> X]
    BY <2>2
  <2>4. \A i \in 0..n : h[i] = g[i]
    OBVIOUS
  <2>5. h[n + 1] = y
    OBVIOUS
  <2>6. ASSUME NEW i \in 1..(n + 1) PROVE h[i] = F[<<h[i - 1], i>>]
    <3>1. CASE i = n + 1
      <4>1. h[i - 1] = g[n]
        BY <2>4, <3>1
      <4> QED
        BY <2>5, <3>1, <4>1
    <3>2. CASE i \in 1..n
      <4>1. i - 1 \in 0..n /\ i \in 0..n
        BY <3>2
      <4> QED
        BY <2>1, <2>4, <3>2, <4>1
    <3> QED
      BY <3>1, <3>2
  <2>7. h[0] = x
    BY <2>1, <2>4
  <2> QED
    BY <2>3, <2>6, <2>7
<1>3. Nat \subseteq P
  <2> HIDE DEF P
  <2> QED
    BY <1>1, <1>2, Induction
<1>4. N \in P
  BY <1>3
<1> QED
  BY <1>4 DEF Follows

-----------------------------------------------------------------------------
(* Sums.  A sum of naturals is the number of its units.                    *)

Units(f, S) == UNION {{x} \X (1..f[x]) : x \in S}

Amounts(f) == IsFiniteSet(DOMAIN f) /\ \A x \in DOMAIN f : f[x] \in Nat

(* There are finitely many units. *)
LEMMA UnitsFinite ==
    ASSUME NEW f, NEW S, IsFiniteSet(S), \A x \in S : f[x] \in Nat
    PROVE  IsFiniteSet(Units(f, S)) /\ Cardinality(Units(f, S)) \in Nat
<1> DEFINE T == {{x} \X (1..f[x]) : x \in S}
           g == [x \in S |-> {x} \X (1..f[x])]
<1>1. g \in Surjection(S, T)
  BY DEF Surjection
<1>2. IsFiniteSet(T)
  BY <1>1, FS_Surjection
<1>3. ASSUME NEW t \in T PROVE IsFiniteSet(t)
  <2>1. PICK x \in S : t = {x} \X (1..f[x])
    OBVIOUS
  <2>2. PICK n \in Nat : n = f[x]
    OBVIOUS
  <2>3. IsFiniteSet({x})
    BY FS_Singleton
  <2>4. IsFiniteSet(1..n)
    BY FS_Interval
  <2> QED
    BY <2>1, <2>2, <2>3, <2>4, FS_Product
<1>4. IsFiniteSet(UNION T)
  BY <1>2, <1>3, FS_UNION
<1> QED
  BY <1>4, FS_CardinalityType DEF Units

(* Of a term as many as its value. *)
LEMMA UnitsTake ==
    ASSUME NEW f, NEW S, IsFiniteSet(S), \A x \in S : f[x] \in Nat, NEW x \in S
    PROVE  Cardinality(Units(f, S)) = f[x] + Cardinality(Units(f, S \ {x}))
<1> DEFINE A == {x} \X (1..f[x])
           B == Units(f, S \ {x})
<1>1. IsFiniteSet(S \ {x})
  BY FS_RemoveElement
<1>2. IsFiniteSet(B) /\ Cardinality(B) \in Nat
  BY <1>1, UnitsFinite
<1>3. IsFiniteSet(A) /\ Cardinality(A) = f[x]
  <2>1. IsFiniteSet({x}) /\ Cardinality({x}) = 1
    BY FS_Singleton
  <2>2. IsFiniteSet(1..f[x]) /\ Cardinality(1..f[x]) = f[x]
    BY FS_Interval
  <2> QED
    BY <2>1, <2>2, FS_Product
<1>4. Units(f, S) = A \cup B
  BY DEF Units
<1>5. A \cap B = {}
  BY DEF Units
<1>6. Cardinality(A \cap B) = 0
  BY <1>5, FS_EmptySet
<1>7. f[x] \in Nat
  OBVIOUS
<1> HIDE DEF A, B
<1>8. Cardinality(A \cup B) = Cardinality(A) + Cardinality(B) - Cardinality(A \cap B)
  BY <1>2, <1>3, FS_Union
<1>9. Cardinality(A \cup B) = f[x] + Cardinality(B)
  BY <1>2, <1>3, <1>6, <1>7, <1>8
<1> QED
  BY <1>4, <1>9 DEF B

(* What SumFunction computes. *)
Recurrence(f, S, g) ==
  g = [s \in SUBSET S |->
         IF s = {} THEN 0 ELSE f[CHOOSE x \in s : TRUE] + g[s \ {CHOOSE x \in s : TRUE}]]

(* Its definition. *)
LEMMA SumRecurrence ==
    ASSUME NEW f PROVE SumFunction(f) = (CHOOSE g : Recurrence(f, DOMAIN f, g))[DOMAIN f]
  BY DEF SumFunction, SumFunctionOnSet, FoldFunctionOnSet, MapThenFoldSet, Recurrence

(* It counts the units. *)
LEMMA SumIsUnits ==
    ASSUME NEW f, Amounts(f)
    PROVE  SumFunction(f) = Cardinality(Units(f, DOMAIN f))
<1> DEFINE S == DOMAIN f
           h == [s \in SUBSET S |-> Cardinality(Units(f, s))]
           g == CHOOSE g : Recurrence(f, S, g)
           some(s) == CHOOSE x \in s : TRUE
<1>1. ASSUME NEW s \in SUBSET S PROVE IsFiniteSet(s) /\ (\A x \in s : f[x] \in Nat)
  BY FS_Subset DEF Amounts
<1>2. ASSUME NEW s \in SUBSET S, s # {}
      PROVE  /\ some(s) \in s /\ s \ {some(s)} \in SUBSET S
             /\ h[s] = f[some(s)] + h[s \ {some(s)}]
  <2>1. some(s) \in s
    BY <1>2
  <2>2. Cardinality(Units(f, s)) = f[some(s)] + Cardinality(Units(f, s \ {some(s)}))
    <3>1. PICK x \in s : x = some(s)
      BY <2>1
    <3>2. IsFiniteSet(s) /\ \A y \in s : f[y] \in Nat
      BY <1>1
    <3>3. Cardinality(Units(f, s)) = f[x] + Cardinality(Units(f, s \ {x}))
      BY <3>2, UnitsTake
    <3> QED
      BY <3>1, <3>3
  <2> QED
    BY <2>1, <2>2
<1>3. h[{}] = 0
  <2>1. Units(f, {}) = {}
    BY DEF Units
  <2> QED
    BY <2>1, FS_EmptySet
<1>4. Recurrence(f, S, h)
  <2>1. ASSUME NEW s \in SUBSET S PROVE h[s] = IF s = {} THEN 0 ELSE f[some(s)] + h[s \ {some(s)}]
    BY <1>2, <1>3
  <2>2. h = [s \in SUBSET S |-> h[s]]
    OBVIOUS
  <2> HIDE DEF h, S
  <2>3. h = [s \in SUBSET S |-> IF s = {} THEN 0 ELSE f[some(s)] + h[s \ {some(s)}]]
    BY <2>1, <2>2 
  <2> QED
    BY <2>3 DEF Recurrence
<1>5. Recurrence(f, S, g)
  BY <1>4
<1> HIDE DEF g, h
<1>6. ASSUME NEW s \in SUBSET S
      PROVE  g[s] = IF s = {} THEN 0 ELSE f[some(s)] + g[s \ {some(s)}]
  BY <1>5 DEF Recurrence
<1>7. g[S] = h[S]
  <2> DEFINE Bad == {n \in Nat : \E s \in SUBSET S : Cardinality(s) = n /\ g[s] # h[s]}
  <2>1. SUFFICES ASSUME g[S] # h[S] PROVE FALSE
    OBVIOUS
  <2>2. Bad # {}
    BY <1>1, <2>1, FS_CardinalityType
  <2>3. PICK n \in Bad : \A m \in Bad : n <= m
    BY <2>2, LeastMember
  <2>4. PICK s \in SUBSET S : Cardinality(s) = n /\ g[s] # h[s]
    OBVIOUS
  <2>5. s # {}
    BY <1>3, <1>6, <2>4
  <2>6. /\ some(s) \in s /\ s \ {some(s)} \in SUBSET S
        /\ h[s] = f[some(s)] + h[s \ {some(s)}] /\ g[s] = f[some(s)] + g[s \ {some(s)}]
    BY <1>2, <1>6, <2>5
  <2>7. Cardinality(s \ {some(s)}) = n - 1
    BY <1>1, <2>4, <2>6, FS_RemoveElement
  <2>8. Cardinality(s \ {some(s)}) \in Nat
    BY <1>1, <2>6, FS_CardinalityType
  <2>9. n - 1 \in Bad
    BY <2>4, <2>6, <2>7, <2>8
  <2> QED
    BY <2>3, <2>9
<1>8. SumFunction(f) = g[S]
  BY SumRecurrence DEF g
<1> QED
  BY <1>7, <1>8 DEF h
(* A sum is a natural number. *)
LEMMA SumNat == ASSUME NEW f, Amounts(f) PROVE SumFunction(f) \in Nat
  BY SumIsUnits, UnitsFinite DEF Amounts

(* Any term may be taken out of it. *)
LEMMA SumTake ==
    ASSUME NEW f, Amounts(f), NEW x \in DOMAIN f
    PROVE  LET g == [y \in DOMAIN f \ {x} |-> f[y]] IN
           Amounts(g) /\ SumFunction(f) = f[x] + SumFunction(g)
<1> DEFINE S == DOMAIN f
           g == [y \in S \ {x} |-> f[y]]
<1>1. Amounts(g)
  BY FS_RemoveElement DEF Amounts
<1>2. Units(g, S \ {x}) = Units(f, S \ {x})
  <2>1. {{y} \X (1..g[y]) : y \in S \ {x}} = {{y} \X (1..f[y]) : y \in S \ {x}}
    BY \A y \in S \ {x} : g[y] = f[y]
  <2> QED
    BY <2>1 DEF Units
<1>3. SumFunction(g) = Cardinality(Units(f, S \ {x}))
  BY <1>1, <1>2, SumIsUnits
<1>4. Cardinality(Units(f, S)) = f[x] + Cardinality(Units(f, S \ {x}))
  BY UnitsTake DEF Amounts
<1>5. SumFunction(f) = Cardinality(Units(f, S))
  BY SumIsUnits
<1> QED
  BY <1>1, <1>3, <1>4, <1>5

(* More terms and larger ones give a larger sum. *)
LEMMA SumLeq ==
    ASSUME NEW f, NEW g, Amounts(f), Amounts(g), DOMAIN f \subseteq DOMAIN g,
           \A x \in DOMAIN f : f[x] <= g[x]
    PROVE  SumFunction(f) <= SumFunction(g)
<1>1. Units(f, DOMAIN f) \subseteq Units(g, DOMAIN g)
  <2>1. ASSUME NEW u \in Units(f, DOMAIN f) PROVE u \in Units(g, DOMAIN g)
    <3>1. PICK x \in DOMAIN f : u \in {x} \X (1..f[x])
      BY DEF Units
    <3>2. PICK n \in 1..f[x] : u = <<x, n>>
      BY <3>1
    <3>3. f[x] \in Nat /\ g[x] \in Nat /\ f[x] <= g[x] /\ x \in DOMAIN g
      BY DEF Amounts
    <3>4. n \in 1..g[x]
      BY <3>2, <3>3
    <3>5. u \in {x} \X (1..g[x])
      BY <3>2, <3>4
    <3> QED
      BY <3>3, <3>5 DEF Units
  <2> QED
    BY <2>1
<1>2. IsFiniteSet(Units(g, DOMAIN g))
  BY UnitsFinite DEF Amounts
<1>3. Cardinality(Units(f, DOMAIN f)) <= Cardinality(Units(g, DOMAIN g))
  BY <1>1, <1>2, FS_Subset
<1> QED
  BY <1>3, SumIsUnits

(* Zeros add up to nothing. *)
LEMMA SumZeros ==
    ASSUME NEW f, Amounts(f), \A x \in DOMAIN f : f[x] = 0
    PROVE  SumFunction(f) = 0
<1>1. Units(f, DOMAIN f) = {}
  BY DEF Units
<1> QED
  BY <1>1, SumIsUnits, FS_EmptySet


-----------------------------------------------------------------------------
(* Invoices: who holds them.                                               *)

Pcs == {"usage", "list", "company", "insert", "invoice", "credits", "write", "done"}
Working == {"insert", "invoice", "credits", "write"}

(* What a job is made of. *)
JobShape(x) ==
    /\ DOMAIN x = {"pc", "period", "read", "todo", "company", "locked", "created", "lines"}
    /\ x.pc \in Pcs /\ x.todo \subseteq Companies /\ x.created \in BOOLEAN
    /\ x.pc \notin {"usage", "done"} => x.period \in Periods
    /\ x.pc \in Working => x.company \in Companies
    /\ x.pc \notin Working => x.company = NoCompany

(* What an invoice is made of. *)
InvoiceShape(x) == x = [status |-> x.status, charges |-> x.charges, credit |-> x.credit]

Jobs == DOMAIN job = Closes /\ \A j \in Closes : JobShape(job[j])
Invoices ==
    /\ invoice = [c \in Companies |-> [p \in Periods |-> invoice[c][p]]]
    /\ \A c \in Companies, p \in Periods : InvoiceShape(invoice[c][p])

IInv == Jobs /\ Invoices /\ InvoiceHeld

(* The property of a step. *)
Kept(c, p) ==
    invoice[c][p].status \in {"issued", "void"} =>
        /\ invoice'[c][p].status \in {invoice[c][p].status, "void"}
        /\ invoice'[c][p] = [invoice[c][p] EXCEPT !.status = invoice'[c][p].status]

AllKept == \A c \in Companies, p \in Periods : Kept(c, p)

-----------------------------------------------------------------------------

(* A job that holds the row of its invoice. *)
Holding(x) == x.created \/ x.pc \in {"credits", "write"}

(* It is the only one. *)
LEMMA HeldAlone ==
    ASSUME IInv, NEW j \in Closes, Holding(job[j])
    PROVE  /\ Company(j) \in Companies /\ job[j].period \in Periods
           /\ HoldsInvoice(j, Company(j), job[j].period)
           /\ Invoice(j).status \in {"none", "draft"}
           /\ \A i \in Closes \ {j} : ~HoldsInvoice(i, Company(j), job[j].period)
<1>1. JobShape(job[j]) /\ job[j].pc \in {"invoice", "credits", "write"}
  BY DEF IInv, Jobs, InvoiceHeld, Holding
<1>2. Company(j) \in Companies /\ job[j].period \in Periods
  BY <1>1 DEF JobShape, Working, Company
<1>3. HoldsInvoice(j, Company(j), job[j].period)
  BY DEF HoldsInvoice, Holding, Company
<1>4. Invoice(j).status \in {"none", "draft"}
  BY DEF IInv, InvoiceHeld, Holding
<1> QED
  BY <1>2, <1>3, <1>4 DEF IInv, InvoiceHeld

(* An invoice that a step leaves alone. *)
LEMMA SameKept ==
    ASSUME IInv, NEW c \in Companies, NEW p \in Periods, invoice'[c][p] = invoice[c][p]
    PROVE  Kept(c, p)
<1>1. InvoiceShape(invoice[c][p])
  BY DEF IInv, Invoices
<1>2. PICK x : x = invoice[c][p]
  OBVIOUS
<1>3. x = [status |-> x.status, charges |-> x.charges, credit |-> x.credit]
  BY <1>1, <1>2 DEF InvoiceShape
<1>4. [x EXCEPT !.status = x.status] = x
  BY <1>3
<1> QED
  BY <1>2, <1>4 DEF Kept

(* A step of a job, after which it holds no invoice, or one that no other  *)
(* job holds.                                                              *)
LEMMA JobStep ==
    ASSUME IInv, NEW j \in Closes, NEW x, JobShape(x), job' = [job EXCEPT ![j] = x],
           x.created => x.pc \in {"invoice", "credits", "write"},
           x.created => invoice'[x.company][x.period].status = "none",
           x.pc \in {"credits", "write"} => x.created \/ invoice'[x.company][x.period].status = "draft",
           Holding(x) => \A i \in Closes \ {j} : ~HoldsInvoice(i, x.company, x.period),
           Invoices',
           \A i \in Closes \ {j} : Holding(job[i]) => Invoice(i)'.status = Invoice(i).status
    PROVE  IInv'
<1>1. job'[j] = x /\ DOMAIN job' = Closes /\ \A i \in Closes \ {j} : job'[i] = job[i]
  BY DEF IInv, Jobs
<1>2. Jobs'
  BY <1>1 DEF IInv, Jobs
<1>3. ASSUME NEW i \in Closes
      PROVE  /\ job'[i].created => job'[i].pc \in {"invoice", "credits", "write"} /\ Invoice(i)'.status = "none"
             /\ job'[i].pc \in {"credits", "write"} => job'[i].created \/ Invoice(i)'.status = "draft"
  <2>1. CASE i = j
    BY <1>1, <2>1 DEF Invoice, Company
  <2>2. CASE i # j
    BY <1>1, <2>2 DEF IInv, InvoiceHeld, Holding
  <2> QED
    BY <2>1, <2>2
<1>4. \A i \in Closes \ {j}, c \in Companies, p \in Periods : HoldsInvoice(i, c, p)' <=> HoldsInvoice(i, c, p)
  BY <1>1 DEF HoldsInvoice
<1>5. \A c \in Companies, p \in Periods : HoldsInvoice(j, c, p)' <=> x.company = c /\ x.period = p /\ Holding(x)
  BY <1>1 DEF HoldsInvoice, Holding
<1>6. ASSUME NEW i \in Closes, NEW k \in Closes, NEW c \in Companies, NEW p \in Periods,
             HoldsInvoice(i, c, p)', HoldsInvoice(k, c, p)'
      PROVE  i = k
  <2>1. CASE i # j /\ k # j
    BY <1>4, <1>6, <2>1 DEF IInv, InvoiceHeld
  <2>2. CASE i = j /\ k # j
    BY <1>4, <1>5, <1>6, <2>2
  <2>3. CASE i # j /\ k = j
    BY <1>4, <1>5, <1>6, <2>3
  <2> QED
    BY <2>1, <2>2, <2>3
<1> QED
  BY <1>2, <1>3, <1>6 DEF IInv, InvoiceHeld

(* One that changes no invoice. *)
LEMMA JobOnly ==
    ASSUME IInv, NEW j \in Closes, NEW x, JobShape(x), Step(j, x), UNCHANGED invoice,
           x.created => x.pc \in {"invoice", "credits", "write"},
           x.created => invoice[x.company][x.period].status = "none",
           x.pc \in {"credits", "write"} => x.created \/ invoice[x.company][x.period].status = "draft",
           Holding(x) => \A i \in Closes \ {j} : ~HoldsInvoice(i, x.company, x.period)
    PROVE  IInv' /\ AllKept
<1>1. job' = [job EXCEPT ![j] = x]
  BY DEF Step
<1>2. Invoices'
  BY DEF IInv, Invoices
<1>3. \A i \in Closes \ {j} : Invoice(i)' = Invoice(i)
  BY <1>1 DEF Invoice, Company, IInv, Jobs
<1>4. IInv'
  BY <1>1, <1>2, <1>3, JobStep
<1>5. AllKept
  BY SameKept DEF AllKept
<1> QED
  BY <1>4, <1>5

(* A job that has ended, or goes on with the next company, holds nothing. *)
LEMMA AfterShape ==
    ASSUME IInv, NEW j \in Closes, NEW c, job[j].pc \notin {"usage", "done"}
    PROVE  /\ JobShape(After(j, c)) /\ ~Holding(After(j, c))
           /\ JobShape(Ended) /\ ~Holding(Ended)
<1>1. JobShape(Ended) /\ ~Holding(Ended)
  BY DEF JobShape, Ended, NewJob, Holding, Pcs, Working
<1>2. CASE job[j].todo \ {c} = {}
  BY <1>1, <1>2 DEF After
<1>3. CASE job[j].todo \ {c} # {}
  <2>1. PICK x : x = job[j]
    OBVIOUS
  <2>2. PICK y : y = [x EXCEPT !.pc = "company", !.todo = x.todo \ {c}, !.company = NoCompany, !.locked = {},
                               !.created = FALSE, !.lines = [k \in Credits |-> 0]]
    OBVIOUS
  <2>3. After(j, c) = y
    BY <1>3, <2>1, <2>2 DEF After
  <2>4. JobShape(x) /\ x.pc \notin {"usage", "done"}
    BY <2>1 DEF IInv, Jobs
  <2>5. /\ DOMAIN y = DOMAIN x /\ y.pc = "company" /\ y.todo = x.todo \ {c} /\ y.company = NoCompany
        /\ y.created = FALSE /\ y.period = x.period
    BY <2>2, <2>4 DEF JobShape
  <2>6. JobShape(y) /\ ~Holding(y)
    BY <2>4, <2>5 DEF JobShape, Holding, Pcs, Working
  <2> QED
    BY <1>1, <2>3, <2>6
<1> QED
  BY <1>2, <1>3

-----------------------------------------------------------------------------
(* The steps of a close.                                                   *)

(* The usage of a month is read. *)
LEMMA ReadUsageInv == ASSUME IInv, NEW j \in Closes, ReadUsage(j) PROVE IInv' /\ AllKept
<1>1. PICK p \in Periods : Step(j, [job[j] EXCEPT !.pc = "list", !.period = p,
                                     !.read = [c \in Companies |-> reading[c][p]]])
  BY DEF ReadUsage
<1>2. PICK x : x = [job[j] EXCEPT !.pc = "list", !.period = p, !.read = [c \in Companies |-> reading[c][p]]]
  OBVIOUS
<1>3. JobShape(job[j]) /\ job[j].pc = "usage" /\ ~job[j].created
  BY DEF ReadUsage, IInv, Jobs, InvoiceHeld
<1>4. /\ DOMAIN x = DOMAIN job[j] /\ x.pc = "list" /\ x.period = p /\ x.todo = job[j].todo
      /\ x.company = job[j].company /\ x.created = job[j].created
  BY <1>2, <1>3 DEF JobShape
<1>5. JobShape(x) /\ ~Holding(x)
  BY <1>3, <1>4 DEF JobShape, Holding, Pcs, Working
<1>6. Step(j, x) /\ UNCHANGED invoice
  BY <1>1, <1>2 DEF ReadUsage
<1> QED
  BY <1>5, <1>6, JobOnly DEF Holding

(* The companies on a plan. *)
LEMMA ListCompaniesInv == ASSUME IInv, NEW j \in Closes, ListCompanies(j) PROVE IInv' /\ AllKept
<1> DEFINE planned == {c \in Companies : Plan[c] # NoPlan}
<1>1. JobShape(job[j]) /\ job[j].pc = "list" /\ ~job[j].created
  BY DEF ListCompanies, IInv, Jobs, InvoiceHeld
<1>2. PICK x : x = IF planned = {} THEN Ended ELSE [job[j] EXCEPT !.pc = "company", !.todo = planned]
  OBVIOUS
<1>3. JobShape(x) /\ ~Holding(x)
  <2>1. CASE planned = {}
    BY <1>1, <1>2, <2>1, AfterShape
  <2>2. CASE planned # {}
    <3>1. /\ DOMAIN x = DOMAIN job[j] /\ x.pc = "company" /\ x.period = job[j].period /\ x.todo = planned
          /\ x.company = job[j].company /\ x.created = job[j].created
      BY <1>1, <1>2, <2>2 DEF JobShape
    <3> QED
      BY <1>1, <3>1 DEF JobShape, Holding, Pcs, Working
  <2> QED
    BY <2>1, <2>2
<1>4. Step(j, x) /\ UNCHANGED invoice
  BY <1>2 DEF ListCompanies
<1> QED
  BY <1>3, <1>4, JobOnly DEF Holding

(* A company's transaction begins, or its price table is broken. *)
LEMMA LockCreditsInv == ASSUME IInv, NEW j \in Closes, LockCredits(j) PROVE IInv' /\ AllKept
<1>1. JobShape(job[j]) /\ job[j].pc = "company" /\ ~job[j].created /\ UNCHANGED invoice
  BY DEF LockCredits, IInv, Jobs, InvoiceHeld
<1>2. PICK c \in job[j].todo :
          \/ Step(j, After(j, c))
          \/ Step(j, [job[j] EXCEPT !.pc = "insert", !.company = c, !.locked = CreditRows(c)])
  BY DEF LockCredits
<1>3. CASE Step(j, After(j, c))
  <2>1. PICK x : x = After(j, c)
    OBVIOUS
  <2>2. JobShape(x) /\ ~Holding(x) /\ Step(j, x)
    BY <1>1, <1>3, <2>1, AfterShape
  <2> QED
    BY <1>1, <2>2, JobOnly DEF Holding
<1>4. CASE Step(j, [job[j] EXCEPT !.pc = "insert", !.company = c, !.locked = CreditRows(c)])
  <2>1. PICK x : x = [job[j] EXCEPT !.pc = "insert", !.company = c, !.locked = CreditRows(c)]
    OBVIOUS
  <2>2. /\ DOMAIN x = DOMAIN job[j] /\ x.pc = "insert" /\ x.period = job[j].period /\ x.todo = job[j].todo
        /\ x.company = c /\ x.created = job[j].created
    BY <1>1, <2>1 DEF JobShape
  <2>3. JobShape(x) /\ ~Holding(x)
    BY <1>1, <2>2 DEF JobShape, Holding, Pcs, Working
  <2>4. Step(j, x)
    BY <1>4, <2>1
  <2> QED
    BY <1>1, <2>3, <2>4, JobOnly DEF Holding
<1> QED
  BY <1>2, <1>3, <1>4

(* An invoice that is missing is missing for every job that holds it.      *)
LEMMA InsertInvoiceInv == ASSUME IInv, NEW j \in Closes, InsertInvoice(j) PROVE IInv' /\ AllKept
<1>1. /\ JobShape(job[j]) /\ job[j].pc = "insert" /\ UNCHANGED invoice
      /\ \A i \in Closes \ {j} : ~(HoldsInvoice(i, Company(j), job[j].period) /\ job[i].created)
  BY DEF InsertInvoice, IInv, Jobs
<1>2. PICK x : x = [job[j] EXCEPT !.pc = "invoice", !.created = (Invoice(j).status = "none")]
  OBVIOUS
<1>3. /\ DOMAIN x = DOMAIN job[j] /\ x.pc = "invoice" /\ x.period = job[j].period /\ x.todo = job[j].todo
      /\ x.company = job[j].company /\ x.created = (Invoice(j).status = "none")
  BY <1>1, <1>2 DEF JobShape
<1>4. JobShape(x)
  BY <1>1, <1>3 DEF JobShape, Pcs, Working
<1>5. x.created => invoice[x.company][x.period].status = "none"
  BY <1>3 DEF Invoice, Company
<1>6. ASSUME Holding(x), NEW i \in Closes \ {j}, HoldsInvoice(i, x.company, x.period) PROVE FALSE
  <2>1. Invoice(j).status = "none"
    BY <1>3, <1>6 DEF Holding
  <2>2. ~job[i].created /\ Invoice(i) = Invoice(j) /\ job[i].pc \in {"credits", "write"}
    BY <1>1, <1>3, <1>6 DEF HoldsInvoice, Invoice, Company
  <2> QED
    BY <2>1, <2>2 DEF IInv, InvoiceHeld
<1>7. Step(j, x)
  BY <1>2 DEF InsertInvoice
<1> QED
  BY <1>1, <1>3, <1>4, <1>5, <1>6, <1>7, JobOnly

(* A draft is held from here on; an invoice that was issued is left.       *)
LEMMA LockInvoiceInv == ASSUME IInv, NEW j \in Closes, LockInvoice(j) PROVE IInv' /\ AllKept
<1>1. /\ JobShape(job[j]) /\ job[j].pc = "invoice" /\ UNCHANGED invoice
      /\ \A i \in Closes \ {j} : ~HoldsInvoice(i, Company(j), job[j].period)
  BY DEF LockInvoice, IInv, Jobs
<1>2. CASE job[j].created \/ Invoice(j).status = "draft"
  <2>1. PICK x : x = [job[j] EXCEPT !.pc = "credits"]
    OBVIOUS
  <2>2. /\ DOMAIN x = DOMAIN job[j] /\ x.pc = "credits" /\ x.period = job[j].period /\ x.todo = job[j].todo
        /\ x.company = job[j].company /\ x.created = job[j].created
    BY <1>1, <2>1 DEF JobShape
  <2>3. JobShape(x)
    BY <1>1, <2>2 DEF JobShape, Pcs, Working
  <2>4. /\ x.created => invoice[x.company][x.period].status = "none"
        /\ x.created \/ invoice[x.company][x.period].status = "draft"
        /\ \A i \in Closes \ {j} : ~HoldsInvoice(i, x.company, x.period)
    BY <1>1, <1>2, <2>2 DEF Invoice, Company, IInv, InvoiceHeld
  <2>5. Step(j, x)
    BY <1>2, <2>1 DEF LockInvoice
  <2> QED
    BY <1>1, <2>2, <2>3, <2>4, <2>5, JobOnly
<1>3. CASE ~(job[j].created \/ Invoice(j).status = "draft")
  <2>1. PICK x : x = After(j, Company(j))
    OBVIOUS
  <2>2. JobShape(x) /\ ~Holding(x)
    BY <1>1, <2>1, AfterShape
  <2>3. Step(j, x)
    BY <1>3, <2>1 DEF LockInvoice
  <2> QED
    BY <1>1, <2>2, <2>3, JobOnly DEF Holding
<1> QED
  BY <1>2, <1>3

(* The credits are spread over it. *)
LEMMA ComputeCreditsInv == ASSUME IInv, NEW j \in Closes, ComputeCredits(j) PROVE IInv' /\ AllKept
<1>1. JobShape(job[j]) /\ job[j].pc = "credits" /\ UNCHANGED invoice /\ Holding(job[j])
  BY DEF ComputeCredits, IInv, Jobs, Holding
<1>2. PICK paid : Step(j, [job[j] EXCEPT !.pc = "write", !.lines = paid])
  BY DEF ComputeCredits
<1>3. PICK x : x = [job[j] EXCEPT !.pc = "write", !.lines = paid]
  OBVIOUS
<1>4. /\ DOMAIN x = DOMAIN job[j] /\ x.pc = "write" /\ x.period = job[j].period /\ x.todo = job[j].todo
      /\ x.company = job[j].company /\ x.created = job[j].created
  BY <1>1, <1>3 DEF JobShape
<1>5. JobShape(x)
  BY <1>1, <1>4 DEF JobShape, Pcs, Working
<1>6. /\ x.created => invoice[x.company][x.period].status = "none"
      /\ x.created \/ invoice[x.company][x.period].status = "draft"
      /\ \A i \in Closes \ {j} : ~HoldsInvoice(i, x.company, x.period)
  BY <1>1, <1>4, HeldAlone DEF Invoice, Company, IInv, InvoiceHeld
<1>7. Step(j, x)
  BY <1>2, <1>3
<1> QED
  BY <1>1, <1>4, <1>5, <1>6, <1>7, JobOnly

(* The draft is written while the job still holds it. *)
LEMMA WriteLinesInv == ASSUME IInv, NEW j \in Closes, WriteLines(j) PROVE IInv' /\ AllKept
<1>1. JobShape(job[j]) /\ job[j].pc = "write" /\ Holding(job[j])
  BY DEF WriteLines, IInv, Jobs, Holding
<1>2. PICK c \in Companies, p \in Periods :
          /\ c = Company(j) /\ p = job[j].period
          /\ invoice[c][p].status \in {"none", "draft"}
          /\ \A i \in Closes \ {j} : ~HoldsInvoice(i, c, p)
  BY <1>1, HeldAlone DEF Invoice
<1>3. PICK y : /\ y = [status |-> "draft", charges |-> Charges(j), credit |-> job[j].lines]
               /\ invoice' = [invoice EXCEPT ![c][p] = y]
  BY <1>2 DEF WriteLines
<1>4. /\ invoice'[c][p] = y
      /\ \A d \in Companies, q \in Periods : d # c \/ q # p => invoice'[d][q] = invoice[d][q]
      /\ invoice' = [d \in Companies |-> [q \in Periods |-> invoice'[d][q]]]
  BY <1>3 DEF IInv, Invoices
<1>5. Invoices'
  <2>1. InvoiceShape(y)
    BY <1>3 DEF InvoiceShape
  <2>2. \A d \in Companies, q \in Periods : InvoiceShape(invoice'[d][q])
    BY <1>4, <2>1 DEF IInv, Invoices
  <2> QED
    BY <1>4, <2>2 DEF Invoices, InvoiceShape
<1>6. PICK x : x = After(j, Company(j))
  OBVIOUS
<1>7. JobShape(x) /\ ~Holding(x) /\ job' = [job EXCEPT ![j] = x]
  BY <1>1, <1>6, AfterShape DEF WriteLines, Step
<1>8. ASSUME NEW i \in Closes \ {j}, Holding(job[i]) PROVE Invoice(i)' = Invoice(i)
  <2>1. /\ job'[i] = job[i] /\ Company(i) \in Companies /\ job[i].period \in Periods
        /\ HoldsInvoice(i, Company(i), job[i].period)
    BY <1>7, <1>8, HeldAlone DEF IInv, Jobs
  <2> QED
    BY <1>2, <1>4, <2>1 DEF Invoice, Company
<1>9. IInv'
  BY <1>5, <1>7, <1>8, JobStep DEF Holding
<1>10. AllKept
  <2>1. Kept(c, p)
    BY <1>2 DEF Kept
  <2> QED
    BY <1>4, <2>1, SameKept DEF AllKept
<1> QED
  BY <1>9, <1>10

(* A transaction rolls back. *)
LEMMA CloseFailsInv == ASSUME IInv, NEW j \in Closes, CloseFails(j) PROVE IInv' /\ AllKept
<1>1. job[j].pc \notin {"usage", "done"} /\ UNCHANGED invoice
  BY DEF CloseFails, Company, IInv, Jobs, JobShape, Working
<1>2. PICK x : x \in {After(j, Company(j)), Ended} /\ Step(j, x)
  BY DEF CloseFails
<1>3. JobShape(x) /\ ~Holding(x)
  BY <1>1, <1>2, AfterShape
<1> QED
  BY <1>1, <1>2, <1>3, JobOnly DEF Holding

-----------------------------------------------------------------------------
(* What happens to the invoices meanwhile.                                 *)

(* An invoice no job holds gets another status. *)
LEMMA StatusStep ==
    ASSUME IInv, NEW c \in Companies, NEW p \in Periods, NEW s,
           invoice' = [invoice EXCEPT ![c][p].status = s], UNCHANGED job,
           \A j \in Closes : ~HoldsInvoice(j, c, p)
    PROVE  /\ IInv' /\ invoice'[c][p] = [invoice[c][p] EXCEPT !.status = s] /\ invoice'[c][p].status = s
           /\ \A d \in Companies, q \in Periods : d # c \/ q # p => invoice'[d][q] = invoice[d][q]
<1>1. PICK x : x = invoice[c][p]
  OBVIOUS
<1>2. x = [status |-> x.status, charges |-> x.charges, credit |-> x.credit]
  BY <1>1 DEF IInv, Invoices, InvoiceShape
<1>3. PICK y : y = [x EXCEPT !.status = s]
  OBVIOUS
<1>4. y.status = s /\ y = [status |-> s, charges |-> x.charges, credit |-> x.credit]
  BY <1>2, <1>3
<1>5. InvoiceShape(y)
  BY <1>4 DEF InvoiceShape
<1>6. /\ invoice'[c][p] = y
      /\ \A d \in Companies, q \in Periods : d # c \/ q # p => invoice'[d][q] = invoice[d][q]
      /\ invoice' = [d \in Companies |-> [q \in Periods |-> invoice'[d][q]]]
  BY <1>1, <1>3 DEF IInv, Invoices
<1>7. Invoices'
  <2>1. \A d \in Companies, q \in Periods : InvoiceShape(invoice'[d][q])
    BY <1>5, <1>6 DEF IInv, Invoices
  <2> QED
    BY <1>6, <2>1 DEF Invoices, InvoiceShape
<1>8. Jobs'
  BY DEF IInv, Jobs
<1>9. ASSUME NEW j \in Closes, Holding(job[j]) PROVE Invoice(j)' = Invoice(j)
  <2>1. /\ Company(j) \in Companies /\ job[j].period \in Periods
        /\ HoldsInvoice(j, Company(j), job[j].period)
    BY <1>9, HeldAlone
  <2> QED
    BY <1>6, <2>1 DEF Invoice, Company
<1>10. InvoiceHeld'
  <2>1. \A j \in Closes : \A d \in Companies, q \in Periods : HoldsInvoice(j, d, q)' <=> HoldsInvoice(j, d, q)
    BY DEF HoldsInvoice
  <2> QED
    BY <1>9, <2>1 DEF IInv, InvoiceHeld, Holding
<1> QED
  BY <1>1, <1>3, <1>4, <1>6, <1>7, <1>8, <1>10 DEF IInv

(* A draft that no job holds is issued. *)
LEMMA IssueInvoiceInv ==
    ASSUME IInv, NEW c \in Companies, NEW p \in Periods, IssueInvoice(c, p)
    PROVE  IInv' /\ AllKept
<1>1. /\ invoice[c][p].status = "draft" /\ invoice' = [invoice EXCEPT ![c][p].status = "issued"] /\ UNCHANGED job
      /\ \A j \in Closes : ~HoldsInvoice(j, c, p)
  BY DEF IssueInvoice
<1>2. /\ IInv'
      /\ \A d \in Companies, q \in Periods : d # c \/ q # p => invoice'[d][q] = invoice[d][q]
  BY <1>1, StatusStep
<1>3. Kept(c, p)
  BY <1>1 DEF Kept
<1> QED
  BY <1>2, <1>3, SameKept DEF AllKept

(* An issued one is voided; no job holds it. *)
LEMMA VoidInvoiceInv ==
    ASSUME IInv, NEW c \in Companies, NEW p \in Periods, VoidInvoice(c, p)
    PROVE  IInv' /\ AllKept
<1>1. invoice[c][p].status = "issued" /\ invoice' = [invoice EXCEPT ![c][p].status = "void"] /\ UNCHANGED job
  BY DEF VoidInvoice
<1>2. ASSUME NEW j \in Closes, HoldsInvoice(j, c, p) PROVE FALSE
  <2>1. Invoice(j).status = "issued" /\ Holding(job[j])
    BY <1>1, <1>2 DEF HoldsInvoice, Invoice, Company, Holding
  <2> QED
    BY <2>1, HeldAlone
<1>3. /\ IInv' /\ invoice'[c][p] = [invoice[c][p] EXCEPT !.status = "void"] /\ invoice'[c][p].status = "void"
      /\ \A d \in Companies, q \in Periods : d # c \/ q # p => invoice'[d][q] = invoice[d][q]
  BY <1>1, <1>2, StatusStep
<1>4. Kept(c, p)
  BY <1>3 DEF Kept
<1> QED
  BY <1>3, <1>4, SameKept DEF AllKept

(* Credits and usage are no invoices. *)
LEMMA OtherInv == ASSUME IInv, UNCHANGED <<invoice, job>> PROVE IInv' /\ AllKept
<1>1. IInv'
  BY DEF IInv, Jobs, Invoices, InvoiceHeld, HoldsInvoice, Invoice, Company
<1> QED
  BY <1>1, SameKept DEF AllKept

-----------------------------------------------------------------------------
(* Credits: how they are spread over an invoice.                           *)

Rank(S, k) == Cardinality({l \in S : Before(l, k)})

(* Each of two different credits has a place before or after the other. *)
LEMMA RankOrder ==
    ASSUME NEW S \in SUBSET Credits, NEW k \in S, NEW m \in S
    PROVE  Rank(S, k) \in 0..(Cardinality(S) - 1) /\ (Rank(S, k) = Rank(S, m) => k = m)
<1> DEFINE Less(x) == {l \in S : Before(l, x)}
<1>1. IsFiniteSet(S) /\ Cardinality(S) \in Nat
  BY CreditsAssumption, FS_Subset, FS_CardinalityType
<1>2. \A x \in S : x \in Nat /\ CreditOf[x].expires \in Nat /\ CreditOf[x].granted \in Nat
  BY CreditsAssumption DEF CreditRecord
<1>3. ASSUME NEW x \in S
      PROVE  IsFiniteSet(Less(x)) /\ Cardinality(Less(x)) \in Nat /\ Cardinality(Less(x)) < Cardinality(S)
  <2>1. x \notin Less(x)
    BY <1>2 DEF Before
  <2>2. Less(x) \in SUBSET S /\ Less(x) # S
    BY <2>1
  <2> HIDE DEF Less
  <2>3. IsFiniteSet(Less(x)) /\ Cardinality(Less(x)) <= Cardinality(S) /\ Cardinality(Less(x)) # Cardinality(S)
    BY <1>1, <2>2, FS_Subset
  <2> QED
    BY <1>1, <2>3, FS_CardinalityType
<1>4. ASSUME NEW x \in S, NEW y \in S, Before(x, y) PROVE Rank(S, x) < Rank(S, y)
  <2>1. x \in Less(y) /\ x \notin Less(x)
    BY <1>2, <1>4 DEF Before
  <2>2. ASSUME NEW z \in Less(x) PROVE z \in Less(y)
    <3>1. z \in S /\ Before(z, x)
      OBVIOUS
    <3>2. Before(z, y)
      BY <1>2, <1>4, <3>1 DEF Before
    <3> QED
      BY <3>1, <3>2
  <2>3. Less(x) \in SUBSET Less(y) /\ Less(x) # Less(y)
    <3> HIDE DEF Less
    <3> QED
      BY <2>1, <2>2
  <2>4. IsFiniteSet(Less(y)) /\ Cardinality(Less(x)) \in Nat /\ Cardinality(Less(y)) \in Nat
    BY <1>3
  <2>5. Rank(S, x) = Cardinality(Less(x)) /\ Rank(S, y) = Cardinality(Less(y))
    BY DEF Rank
  <2> HIDE DEF Less
  <2>6. Cardinality(Less(x)) <= Cardinality(Less(y)) /\ Cardinality(Less(x)) # Cardinality(Less(y))
    BY <2>3, <2>4, FS_Subset
  <2> QED
    BY <2>4, <2>5, <2>6
<1>5. \A x \in S : Rank(S, x) = Cardinality(Less(x))
  BY DEF Rank
<1> HIDE DEF Less
<1>6. Rank(S, k) \in Nat /\ Rank(S, m) \in Nat /\ Rank(S, k) < Cardinality(S)
  BY <1>3, <1>5
<1>7. ASSUME Rank(S, k) = Rank(S, m), k # m PROVE FALSE
  <2>1. Before(k, m) \/ Before(m, k)
    BY <1>2, <1>7 DEF Before
  <2> QED
    BY <1>4, <1>6, <1>7, <2>1
<1> QED
  BY <1>1, <1>6, <1>7

(* sortCredits lists the credits. *)
LEMMA SortLists ==
    ASSUME NEW S \in SUBSET Credits
    PROVE  sortCredits(S) \in Seq(S) /\ Len(sortCredits(S)) \in Nat
<1> DEFINE c == Cardinality(S)
           s == sortCredits(S)
<1>1. IsFiniteSet(S) /\ c \in Nat
  BY CreditsAssumption, FS_Subset, FS_CardinalityType
<1>2. \A n \in 1..c : \E k \in S : Rank(S, k) = n - 1
  <2> DEFINE f == [k \in S |-> Rank(S, k) + 1]
  <2>1. f \in [S -> 1..c]
    <3>1. ASSUME NEW k \in S PROVE Rank(S, k) + 1 \in 1..c
      <4>1. Rank(S, k) \in 0..(c - 1)
        BY RankOrder
      <4> QED
        BY <1>1, <4>1
    <3> QED
      BY <3>1
  <2>2. \A k, m \in S : f[k] = f[m] => k = m
    <3>1. ASSUME NEW k \in S, NEW m \in S, f[k] = f[m] PROVE k = m
      <4>1. Rank(S, k) \in 0..(c - 1) /\ Rank(S, m) \in 0..(c - 1)
        BY RankOrder
      <4>2. Rank(S, k) = Rank(S, m)
        BY <1>1, <3>1, <4>1
      <4> QED
        BY <4>2, RankOrder
    <3> QED
      BY <3>1
  <2>3. f \in Injection(S, 1..c)
    BY <2>1, <2>2 DEF Injection, IsInjective
  <2>4. IsFiniteSet(1..c) /\ Cardinality(1..c) = c
    BY <1>1, FS_Interval
  <2>5. f \in Surjection(S, 1..c)
    BY <1>1, <2>3, <2>4, FS_Injection
  <2>6. ASSUME NEW n \in 1..c PROVE \E k \in S : Rank(S, k) = n - 1
    <3>1. PICK k \in S : f[k] = n
      BY <2>5 DEF Surjection
    <3>2. Rank(S, k) \in 0..(c - 1) /\ Rank(S, k) + 1 = n
      BY <3>1, RankOrder
    <3>3. Rank(S, k) = n - 1
      BY <1>1, <3>2
    <3> QED
      BY <3>3
  <2> QED
    BY <2>6
<1>3. s = [n \in 1..c |-> s[n]] /\ \A n \in 1..c : s[n] \in S
  <2>1. s = [n \in 1..c |-> CHOOSE k \in S : Rank(S, k) = n - 1]
    BY DEF sortCredits, Rank
  <2>2. ASSUME NEW n \in 1..c PROVE s[n] \in S
    <3>1. s[n] = CHOOSE k \in S : Rank(S, k) = n - 1
      BY <2>1
    <3>2. \E k \in S : Rank(S, k) = n - 1
      BY <1>2
    <3> QED
      BY <3>1, <3>2
  <2> HIDE DEF s, c
  <2> QED
    BY <2>1, <2>2
<1> HIDE DEF s, c
<1>4. s \in Seq(S) /\ Len(s) = c
  BY <1>1, <1>3
<1> QED
  BY <1>1, <1>4 DEF s

(* What a credit may pay: no more than remains of it. *)
Payments(subtotal, remaining) ==
    {paid \in [Credits -> Nat] :
        Total(paid) <= subtotal /\ \A k \in Credits : paid[k] = 0 \/ paid[k] <= remaining[k]}

(* A credit covers what is due, and all payments stay within the subtotal. *)
LEMMA SpendPays ==
    ASSUME NEW subtotal \in Nat, NEW remaining \in [Credits -> Int],
           NEW paid \in Payments(subtotal, remaining), NEW k \in Credits, remaining[k] > 0
    PROVE  Spend(subtotal, remaining, paid, k) \in Payments(subtotal, remaining)
<1> DEFINE due == subtotal - Total(paid)
           v == IF remaining[k] < due THEN remaining[k] ELSE due
           next == [paid EXCEPT ![k] = v]
           rest == [l \in Credits \ {k} |-> paid[l]]
<1>1. paid \in [Credits -> Nat] /\ DOMAIN paid = Credits /\ Amounts(paid)
  BY CreditsAssumption DEF Amounts, Payments
<1>2. Total(paid) \in Nat /\ Total(paid) <= subtotal
  BY <1>1, SumNat DEF Total, Payments
<1>3. v \in Nat /\ v <= due /\ v <= remaining[k]
  BY <1>2
<1>4. next \in [Credits -> Nat] /\ DOMAIN next = Credits /\ Amounts(next) /\ next[k] = v
  BY <1>1, <1>3, CreditsAssumption DEF Amounts
<1>5. Amounts(rest) /\ Total(paid) = paid[k] + Total(rest)
  BY <1>1, SumTake DEF Total
<1>6. Total(next) = v + Total(rest)
  <2>1. rest = [l \in Credits \ {k} |-> next[l]]
    BY <1>1
  <2> HIDE DEF rest, next
  <2> QED
    BY <1>4, <2>1, SumTake DEF Total
<1>7. Total(rest) \in Nat /\ paid[k] \in Nat
  BY <1>1, <1>5, SumNat DEF Total
<1>8. Total(next) <= subtotal
  <2> HIDE DEF next, rest, v
  <2> QED
    BY <1>2, <1>3, <1>5, <1>6, <1>7
<1>9. \A l \in Credits : next[l] = 0 \/ next[l] <= remaining[l]
  BY <1>1, <1>3 DEF Payments
<1>10. Spend(subtotal, remaining, paid, k) = next
  BY DEF Spend
<1> QED
  BY <1>4, <1>8, <1>9, <1>10 DEF Payments

(* The loop of ApplyCredits, for credits in any order. *)
LEMMA LoopPays ==
    ASSUME NEW subtotal \in Nat, NEW remaining \in [Credits -> Int],
           NEW ordered \in Seq({k \in Credits : remaining[k] > 0}),
           NEW paid, paid = CHOOSE g : g = [n \in 0..Len(ordered) |->
                        IF n = 0 THEN [k \in Credits |-> 0]
                                 ELSE Spend(subtotal, remaining, g[n - 1], ordered[n])]
    PROVE  paid[Len(ordered)] \in Payments(subtotal, remaining)
<1> DEFINE X == Payments(subtotal, remaining)
           N == Len(ordered)
           zero == [k \in Credits |-> 0]
           F == [y \in X \X (1..N) |-> Spend(subtotal, remaining, y[1], ordered[y[2]])]
           Q(g) == g = [n \in 0..N |-> IF n = 0 THEN zero ELSE Spend(subtotal, remaining, g[n - 1], ordered[n])]
<1>1. N \in Nat /\ \A n \in 1..N : ordered[n] \in Credits /\ remaining[ordered[n]] > 0
  OBVIOUS
<1>2. zero \in X
  <2>1. Amounts(zero) /\ \A k \in DOMAIN zero : zero[k] = 0
    BY CreditsAssumption DEF Amounts
  <2>2. Total(zero) = 0
    BY <2>1, SumZeros DEF Total
  <2> QED
    BY <2>2 DEF Payments
<1>3. ASSUME NEW y \in X, NEW n \in 1..N PROVE Spend(subtotal, remaining, y, ordered[n]) \in X
  BY <1>1, SpendPays
<1>4. F \in [X \X (1..N) -> X]
  <2>1. ASSUME NEW y \in X \X (1..N) PROVE Spend(subtotal, remaining, y[1], ordered[y[2]]) \in X
    <3>1. PICK u \in X, n \in 1..N : y = <<u, n>>
      OBVIOUS
    <3>2. y[1] = u /\ y[2] = n
      BY <3>1
    <3> QED
      BY <1>3, <3>2
  <2> HIDE DEF X, N
  <2> QED
    BY <2>1
<1>5. \A u \in X, n \in 1..N : F[<<u, n>>] = Spend(subtotal, remaining, u, ordered[n])
  OBVIOUS
<1>6. \E g : Q(g)
  <2>1. PICK g \in [0..N -> X] : Follows(g, zero, N, F)
    <3> HIDE DEF F, X, N, zero
    <3> QED
      BY <1>1, <1>2, <1>4, Recursion
  <2>2. ASSUME NEW n \in 0..N
        PROVE  g[n] = IF n = 0 THEN zero ELSE Spend(subtotal, remaining, g[n - 1], ordered[n])
    <3>1. CASE n = 0
      BY <2>1, <3>1 DEF Follows
    <3>2. CASE n # 0
      <4>1. n \in 1..N /\ n - 1 \in 0..N
        BY <1>1, <3>2
      <4>2. g[n - 1] \in X
        BY <4>1
      <4> HIDE DEF F, X, zero
      <4> QED
        BY <1>5, <2>1, <3>2, <4>1, <4>2 DEF Follows
    <3> QED
      BY <3>1, <3>2
  <2>3. Q(g)
    BY <2>2
  <2> QED
    BY <2>3
<1>7. Q(paid)
  BY <1>6
<1> HIDE DEF zero
<1>11. ASSUME NEW n \in 0..N
       PROVE  paid[n] = IF n = 0 THEN zero ELSE Spend(subtotal, remaining, paid[n - 1], ordered[n])
  BY <1>7
<1> DEFINE P == {n \in Nat : n <= N => paid[n] \in X}
<1>8. 0 \in P
  <2>1. paid[0] = zero
    <3>1. 0 \in 0..N
      BY <1>1
    <3> QED
      BY <1>11, <3>1
  <2> QED
    BY <1>2, <2>1
<1>9. ASSUME NEW n \in Nat, n \in P PROVE n + 1 \in P
  <2> SUFFICES ASSUME n + 1 <= N PROVE paid[n + 1] \in X
    OBVIOUS
  <2>1. n + 1 \in 1..N /\ n + 1 \in 0..N /\ n + 1 # 0 /\ (n + 1) - 1 = n /\ n <= N
    BY <1>1
  <2>2. paid[n + 1] = Spend(subtotal, remaining, paid[n], ordered[n + 1])
    BY <1>11, <2>1
  <2>3. paid[n] \in X
    BY <1>9, <2>1
  <2> HIDE DEF X
  <2> QED
    BY <1>3, <2>1, <2>2, <2>3
<1>10. Nat \subseteq P
  <2> HIDE DEF P
  <2> QED
    BY <1>8, <1>9, Induction
<1> QED
  BY <1>1, <1>10, SMTT(30)

(* ApplyCredits takes no more than is due, and no more of a credit than    *)
(* remains of it.                                                          *)
LEMMA CreditsPay ==
    ASSUME NEW subtotal \in Nat, NEW remaining \in [Credits -> Int]
    PROVE  ApplyCredits(subtotal, remaining) \in Payments(subtotal, remaining)
<1> DEFINE S == {k \in Credits : remaining[k] > 0}
           ordered == sortCredits(S)
<1>1. ordered \in Seq(S)
  BY SortLists
<1>2. PICK paid : paid = CHOOSE g : g = [n \in 0..Len(ordered) |->
                        IF n = 0 THEN [k \in Credits |-> 0]
                                 ELSE Spend(subtotal, remaining, g[n - 1], ordered[n])]
  OBVIOUS
<1>3. ApplyCredits(subtotal, remaining) = paid[Len(ordered)]
  BY <1>2 DEF ApplyCredits
<1> HIDE DEF ordered
<1>4. paid[Len(ordered)] \in Payments(subtotal, remaining)
  BY <1>1, <1>2, LoopPays
<1> QED
  BY <1>3, <1>4

-----------------------------------------------------------------------------
(* Credits: the invariant.                                                 *)

(* The credits a company had from the start: their rows are there to be    *)
(* locked.                                                                 *)
Backing(c) == {k \in InitCredits : CreditOf[k].company = c}

JobTyped(x) ==
    /\ x \in JobRecord
    /\ \A c \in Companies : x.read[c] \in 1..Len(Readings[c])
    /\ \A c \in x.todo : Plan[c] # NoPlan
    /\ x.pc \in Working => x.company \in Companies /\ x.period \in Periods /\ Plan[x.company] \in PriceTable

Typed ==
    /\ TypeOK
    /\ \A c \in Companies, p \in Periods : reading[c][p] \in 1..Len(Readings[c])
    /\ \A j \in Closes : JobTyped(job[j])

(* A job at work on a company has locked the credits it had from the       *)
(* start, and two jobs have no credit in common.                           *)
JobLocks(x) == IF x.pc \in Working THEN Backing(x.company) \subseteq x.locked ELSE x.locked = {}

Locking ==
    /\ InitCredits \subseteq credits
    /\ \A j \in Closes : JobLocks(job[j])
    /\ \A i, j \in Closes : i # j => job[i].locked \cap job[j].locked = {}

(* What a job has computed fits what the other months have left, until it  *)
(* is written.                                                             *)
ChargesOf(x) == Price(Readings[x.company][x.read[x.company]], Plan[x.company])

JobFits(x) ==
    /\ Total(x.lines) <= Total(ChargesOf(x))
    /\ \A k \in Credits : CreditOf[k].company = x.company /\ Backing(x.company) # {} =>
          x.lines[k] = 0 \/ x.lines[k] + Taken(x.company, k, Periods \ {x.period}) <= CreditOf[k].amount

Fitting == \A j \in Closes : job[j].pc = "write" => JobFits(job[j])

CInv == Typed /\ Locking /\ Fitting /\ CreditsNotOverspent

(* Jobs that work for a company with such a credit are alone. *)
LEMMA LockedAlone ==
    ASSUME Locking, NEW i \in Closes, NEW j \in Closes, Company(i) = Company(j),
           job[i].pc \in Working, job[j].pc \in Working, Backing(Company(i)) # {}
    PROVE  i = j
<1>1. PICK k : k \in Backing(Company(i))
  OBVIOUS
<1>2. k \in job[i].locked /\ k \in job[j].locked
  BY <1>1 DEF Locking, JobLocks, Company
<1> QED
  BY <1>2 DEF Locking

-----------------------------------------------------------------------------
(* Amounts.                                                                *)

InvoiceTable == [Companies -> [Periods -> InvoiceRecord]]

(* The lines that name a credit in the invoices of some months. *)
LineOf(inv, c, k, M) == [q \in {m \in M : inv[c][m].status # "void"} |-> inv[c][q].credit[k]]

(* What was taken of a credit is a sum of naturals. *)
LEMMA LineNat ==
    ASSUME NEW inv \in InvoiceTable, NEW c \in Companies, NEW k \in Credits, NEW M \in SUBSET Periods
    PROVE  Amounts(LineOf(inv, c, k, M)) /\ SumFunction(LineOf(inv, c, k, M)) \in Nat
<1>1. IsFiniteSet({m \in M : inv[c][m].status # "void"})
  BY ReadingsAssumption, FS_Subset
<1>2. ASSUME NEW q \in Periods PROVE inv[c][q].credit[k] \in Nat
  BY DEF InvoiceTable, InvoiceRecord
<1>3. Amounts(LineOf(inv, c, k, M))
  BY <1>1, <1>2 DEF Amounts, LineOf
<1> QED
  BY <1>3, SumNat

(* One month's part of it. *)
LEMMA LineSplit ==
    ASSUME NEW inv \in InvoiceTable, NEW c \in Companies, NEW k \in Credits, NEW p \in Periods,
           inv[c][p].status # "void"
    PROVE  SumFunction(LineOf(inv, c, k, Periods))
           = inv[c][p].credit[k] + SumFunction(LineOf(inv, c, k, Periods \ {p}))
<1> DEFINE f == LineOf(inv, c, k, Periods)
           g == [q \in DOMAIN f \ {p} |-> f[q]]
<1>1. Amounts(f) /\ p \in DOMAIN f /\ f[p] = inv[c][p].credit[k]
  BY LineNat DEF LineOf
<1>2. g = LineOf(inv, c, k, Periods \ {p})
  BY DEF LineOf
<1> HIDE DEF f
<1>3. SumFunction(f) = f[p] + SumFunction(g)
  BY <1>1, SumTake
<1> QED
  BY <1>1, <1>2, <1>3 DEF f

(* Less is taken when no invoice takes more and none comes back. *)
LEMMA LineLess ==
    ASSUME NEW inv \in InvoiceTable, NEW next \in InvoiceTable,
           NEW c \in Companies, NEW k \in Credits, NEW M \in SUBSET Periods,
           \A q \in M : next[c][q].status = "void" \/
                        (inv[c][q].status # "void" /\ next[c][q].credit[k] = inv[c][q].credit[k])
    PROVE  SumFunction(LineOf(next, c, k, M)) <= SumFunction(LineOf(inv, c, k, M))
<1> DEFINE f == LineOf(inv, c, k, M)
           g == LineOf(next, c, k, M)
<1>1. Amounts(f) /\ Amounts(g)
  BY LineNat
<1>2. DOMAIN g \subseteq DOMAIN f
  BY DEF LineOf
<1>3. ASSUME NEW q \in DOMAIN g PROVE g[q] <= f[q]
  <2>1. g[q] = inv[c][q].credit[k] /\ f[q] = inv[c][q].credit[k]
    BY DEF LineOf
  <2>2. g[q] \in Nat
    BY <1>1 DEF Amounts
  <2> QED
    BY <2>1, <2>2
<1> HIDE DEF f, g
<1>4. SumFunction(g) <= SumFunction(f)
  BY <1>1, <1>2, <1>3, SumLeq
<1> QED
  BY <1>4 DEF f, g

(* Now and after a step. *)
LEMMA TakenLines ==
    ASSUME NEW c, NEW k, NEW M
    PROVE  /\ Taken(c, k, M) = SumFunction(LineOf(invoice, c, k, M))
           /\ Taken(c, k, M)' = SumFunction(LineOf(invoice', c, k, M))
  BY DEF Taken, Total, LineOf

(* A natural number. *)
LEMMA TakenNat ==
    ASSUME TypeOK, NEW c \in Companies, NEW k \in Credits, NEW M \in SUBSET Periods
    PROVE  Taken(c, k, M) \in Nat
<1>1. invoice \in InvoiceTable
  BY DEF TypeOK, InvoiceTable
<1> QED
  BY <1>1, TakenLines, LineNat

(* A month's usage has a price. *)
LEMMA PriceNat ==
    ASSUME NEW usage \in Usage, NEW table \in PriceTable
    PROVE  Price(usage, table) \in [Kinds -> Nat]
<1>1. ASSUME NEW q \in Nat, NEW c \in Nat PROVE perMillionCeil(q, c) \in Nat
  <2>1. PICK n \in Nat : n = q * c
    OBVIOUS
  <2>2. n \div 1000000 \in Nat /\ n % 1000000 \in Nat
    OBVIOUS
  <2> QED
    BY <2>1, <2>2 DEF perMillionCeil, Million
<1>2. ASSUME NEW n \in Nat, NEW m \in Nat, NEW c \in Nat PROVE Billable(n, m, c) \in Nat
  <2>1. ASSUME n > m PROVE (n - m) * c \in Nat
    <3>1. n - m \in Nat
      BY <2>1
    <3> QED
      BY <3>1
  <2> QED
    BY <2>1 DEF Billable
<1>3. /\ usage.Sessions \in Nat /\ usage.ManagedInputTokens \in Nat /\ usage.ManagedOutputTokens \in Nat
      /\ usage.Runs \in Nat
  BY DEF Usage
<1>4. /\ table.BaseFeeCents \in Nat /\ table.IncludedSessions \in Nat /\ table.SessionCents \in Nat
      /\ table.ManagedInputPerMillionCents \in Nat /\ table.ManagedOutputPerMillionCents \in Nat
      /\ table.IncludedRuns \in Nat /\ table.RunCents \in Nat
  BY DEF PriceTable
<1>5. ASSUME NEW kind \in Kinds PROVE Price(usage, table)[kind] \in Nat
  <2>1. CASE kind = "base_fee"
    BY <1>4, <2>1 DEF Price
  <2>2. CASE kind = "sessions"
    BY <1>2, <1>3, <1>4, <2>2 DEF Price
  <2>3. CASE kind = "managed_input_tokens"
    BY <1>1, <1>3, <1>4, <2>3 DEF Price
  <2>4. CASE kind = "managed_output_tokens"
    BY <1>1, <1>3, <1>4, <2>4 DEF Price
  <2>5. CASE kind = "runs"
    BY <1>2, <1>3, <1>4, <2>5 DEF Price
  <2> QED
    BY <2>1, <2>2, <2>3, <2>4, <2>5 DEF Kinds
<1> QED
  BY <1>5 DEF Price

(* The kinds of lines are few. *)
LEMMA KindsFinite == IsFiniteSet(Kinds)
<1>1. IsFiniteSet({"base_fee"}) /\ IsFiniteSet({"sessions"}) /\ IsFiniteSet({"managed_input_tokens"})
      /\ IsFiniteSet({"managed_output_tokens"}) /\ IsFiniteSet({"runs"})
  BY FS_Singleton
<1>2. IsFiniteSet({"base_fee"} \cup {"sessions"})
  BY <1>1, FS_Union
<1>3. IsFiniteSet({"managed_input_tokens"} \cup {"managed_output_tokens"})
  BY <1>1, FS_Union
<1>4. IsFiniteSet(({"managed_input_tokens"} \cup {"managed_output_tokens"}) \cup {"runs"})
  BY <1>1, <1>3, FS_Union
<1>5. IsFiniteSet(({"base_fee"} \cup {"sessions"})
                  \cup (({"managed_input_tokens"} \cup {"managed_output_tokens"}) \cup {"runs"}))
  BY <1>2, <1>4, FS_Union
<1>6. Kinds = ({"base_fee"} \cup {"sessions"})
              \cup (({"managed_input_tokens"} \cup {"managed_output_tokens"}) \cup {"runs"})
  BY DEF Kinds
<1> QED
  BY <1>5, <1>6

(* What a job charges. *)
LEMMA ChargesNat ==
    ASSUME NEW x, JobTyped(x), x.pc \in Working
    PROVE  ChargesOf(x) \in [Kinds -> Nat] /\ Total(ChargesOf(x)) \in Nat
<1>1. PICK c \in Companies : c = x.company
  BY DEF JobTyped
<1>2. x.read[c] \in 1..Len(Readings[c]) /\ Plan[c] \in PriceTable /\ Readings[c] \in Seq(Usage)
  BY <1>1, ReadingsAssumption DEF JobTyped
<1>3. Readings[c][x.read[c]] \in Usage
  BY <1>2
<1>4. ChargesOf(x) \in [Kinds -> Nat]
  BY <1>1, <1>2, <1>3, PriceNat DEF ChargesOf
<1>5. Amounts(ChargesOf(x))
  BY <1>4, KindsFinite DEF Amounts
<1> QED
  BY <1>4, <1>5, SumNat DEF Total

-----------------------------------------------------------------------------
(* Credits: the steps.                                                     *)

(* A step of a job that writes nothing. *)
LEMMA JobCredits ==
    ASSUME CInv, NEW j \in Closes, NEW x, JobTyped(x), Step(j, x), UNCHANGED invoice, faults' \in 0..MaxFaults,
           JobLocks(x), \A i \in Closes \ {j} : job[i].locked \cap x.locked = {},
           x.pc = "write" => JobFits(x)
    PROVE  CInv'
<1>1. /\ job' = [job EXCEPT ![j] = x] /\ UNCHANGED <<reading, credits>>
      /\ job'[j] = x /\ \A i \in Closes \ {j} : job'[i] = job[i]
  BY DEF Step, CInv, Typed, TypeOK
<1>2. Typed'
  <2>1. TypeOK'
    BY <1>1 DEF CInv, Typed, TypeOK, JobTyped
  <2>2. \A i \in Closes : JobTyped(job'[i])
    BY <1>1 DEF CInv, Typed
  <2> QED
    BY <1>1, <2>1, <2>2 DEF CInv, Typed, JobTyped
<1>3. Locking'
  <2>1. \A i \in Closes : JobLocks(job'[i])
    BY <1>1 DEF CInv, Locking
  <2>2. \A i, k \in Closes : i # k => job'[i].locked \cap job'[k].locked = {}
    BY <1>1 DEF CInv, Locking
  <2> QED
    BY <1>1, <2>1, <2>2 DEF CInv, Locking, JobLocks
<1>4. \A c, k, M : Taken(c, k, M)' = Taken(c, k, M)
  BY DEF Taken
<1>5. Fitting'
  <2>1. ASSUME NEW i \in Closes, job'[i].pc = "write" PROVE JobFits(job[i])'
    <3>1. JobFits(job'[i])
      BY <1>1, <2>1 DEF CInv, Fitting
    <3> QED
      BY <3>1 DEF JobFits, ChargesOf, Taken
  <2> QED
    BY <2>1, SMTT(30) DEF Fitting
<1>6. CreditsNotOverspent'
  BY <1>4 DEF CInv, CreditsNotOverspent
<1> QED
  BY <1>2, <1>3, <1>5, <1>6 DEF CInv

(* A job that has ended, or goes on with the next company. *)
LEMMA AfterTyped ==
    ASSUME IInv, CInv, NEW j \in Closes, NEW c
    PROVE  /\ JobTyped(After(j, c)) /\ After(j, c).locked = {} /\ After(j, c).pc \in {"company", "done"}
           /\ JobTyped(Ended) /\ Ended.locked = {} /\ Ended.pc = "done"
<1>1. JobTyped(Ended) /\ Ended.locked = {} /\ Ended.pc = "done"
  <2>1. \A d \in Companies : 1 \in 1..Len(Readings[d])
    <3>1. ASSUME NEW d \in Companies PROVE 1 \in 1..Len(Readings[d])
      <4>1. Readings[d] # <<>> /\ Readings[d] \in Seq(Usage)
        BY ReadingsAssumption
      <4> QED
        BY <4>1
    <3> QED
      BY <3>1
  <2> QED
    BY <2>1 DEF JobTyped, Ended, NewJob, JobRecord, Working
<1>2. CASE job[j].todo \ {c} = {}
  BY <1>1, <1>2 DEF After
<1>3. CASE job[j].todo \ {c} # {}
  <2>1. PICK x \in JobRecord : x = job[j]
    BY DEF CInv, Typed, TypeOK
  <2>2. PICK y : y = [x EXCEPT !.pc = "company", !.todo = x.todo \ {c}, !.company = NoCompany, !.locked = {},
                               !.created = FALSE, !.lines = [k \in Credits |-> 0]]
    OBVIOUS
  <2>3. After(j, c) = y
    BY <1>3, <2>1, <2>2 DEF After
  <2>4. JobTyped(x)
    BY <2>1 DEF CInv, Typed
  <2>5. y \in JobRecord /\ y.pc = "company" /\ y.todo = x.todo \ {c} /\ y.locked = {} /\ y.read = x.read
    BY <2>1, <2>2 DEF JobRecord
  <2>6. JobTyped(y)
    BY <2>4, <2>5 DEF JobTyped, Working
  <2> QED
    BY <1>1, <2>3, <2>5, <2>6
<1> QED
  BY <1>2, <1>3

(* It keeps no lock. *)
LEMMA AfterCredits ==
    ASSUME IInv, CInv, NEW j \in Closes, NEW x, x.locked = {}, x.pc \in {"company", "done"}, JobTyped(x),
           Step(j, x), UNCHANGED invoice, faults' \in 0..MaxFaults
    PROVE  CInv'
<1>1. JobLocks(x) /\ x.pc # "write" /\ \A i \in Closes \ {j} : job[i].locked \cap x.locked = {}
  BY DEF JobLocks, Working
<1> QED
  BY <1>1, JobCredits

(* A job that has begun no company, and holds no lock. *)
LEMMA ReadUsageCredits == ASSUME IInv, CInv, NEW j \in Closes, ReadUsage(j) PROVE CInv'
<1>1. PICK p \in Periods : Step(j, [job[j] EXCEPT !.pc = "list", !.period = p,
                                     !.read = [c \in Companies |-> reading[c][p]]])
  BY DEF ReadUsage
<1>2. PICK x : x = [job[j] EXCEPT !.pc = "list", !.period = p, !.read = [c \in Companies |-> reading[c][p]]]
  OBVIOUS
<1>3. job[j] \in JobRecord /\ JobTyped(job[j]) /\ job[j].pc = "usage" /\ JobLocks(job[j])
  BY DEF ReadUsage, CInv, Typed, Locking, TypeOK
<1>4. \A c \in Companies : reading[c][p] \in Nat /\ reading[c][p] \in 1..Len(Readings[c])
  BY DEF CInv, Typed, TypeOK
<1>5. /\ x \in JobRecord /\ x.pc = "list" /\ x.todo = job[j].todo /\ x.locked = job[j].locked
      /\ x.read = [c \in Companies |-> reading[c][p]]
  BY <1>2, <1>3, <1>4 DEF JobRecord
<1>6. JobTyped(x)
  BY <1>3, <1>4, <1>5 DEF JobTyped, Working
<1>7. JobLocks(x) /\ x.pc # "write" /\ x.locked = {}
  BY <1>3, <1>5 DEF JobLocks, Working
<1>8. Step(j, x) /\ UNCHANGED invoice /\ faults' \in 0..MaxFaults
  BY <1>1, <1>2 DEF ReadUsage, CInv, Typed, TypeOK
<1> QED
  BY <1>6, <1>7, <1>8, JobCredits

(* The companies on a plan. *)
LEMMA ListCompaniesCredits == ASSUME IInv, CInv, NEW j \in Closes, ListCompanies(j) PROVE CInv'
<1> DEFINE planned == {c \in Companies : Plan[c] # NoPlan}
<1>1. job[j] \in JobRecord /\ JobTyped(job[j]) /\ job[j].pc = "list" /\ JobLocks(job[j])
  BY DEF ListCompanies, CInv, Typed, Locking, TypeOK
<1>2. PICK x : x = IF planned = {} THEN Ended ELSE [job[j] EXCEPT !.pc = "company", !.todo = planned]
  OBVIOUS
<1>3. JobTyped(x) /\ x.locked = {} /\ x.pc \in {"company", "done"}
  <2>1. CASE planned = {}
    BY <1>2, <2>1, AfterTyped
  <2>2. CASE planned # {}
    <3>1. /\ x \in JobRecord /\ x.pc = "company" /\ x.todo = planned /\ x.locked = job[j].locked
          /\ x.read = job[j].read
      BY <1>1, <1>2, <2>2 DEF JobRecord
    <3>2. x.locked = {}
      BY <1>1, <3>1 DEF JobLocks, Working
    <3> QED
      BY <1>1, <3>1, <3>2 DEF JobTyped, Working
  <2> QED
    BY <2>1, <2>2
<1>4. Step(j, x) /\ UNCHANGED invoice /\ faults' \in 0..MaxFaults
  BY <1>2 DEF ListCompanies, CInv, Typed, TypeOK
<1> QED
  BY <1>3, <1>4, AfterCredits

(* The company's credits are locked; no other job has one of them. *)
LEMMA LockCreditsCredits == ASSUME IInv, CInv, NEW j \in Closes, LockCredits(j) PROVE CInv'
<1>1. /\ job[j] \in JobRecord /\ JobTyped(job[j]) /\ JobShape(job[j]) /\ job[j].pc = "company" /\ UNCHANGED invoice
      /\ faults' \in 0..MaxFaults
  BY DEF LockCredits, CInv, Typed, TypeOK, IInv, Jobs
<1>2. PICK c \in job[j].todo :
          IF Plan[c] = BadPlan
          THEN Step(j, After(j, c))
          ELSE /\ \A i \in Closes \ {j} : job[i].locked \cap CreditRows(c) = {}
               /\ Step(j, [job[j] EXCEPT !.pc = "insert", !.company = c, !.locked = CreditRows(c)])
  BY DEF LockCredits
<1>3. CASE Plan[c] = BadPlan
  <2>1. PICK x : x = After(j, c)
    OBVIOUS
  <2>2. JobTyped(x) /\ x.locked = {} /\ x.pc \in {"company", "done"}
    BY <2>1, AfterTyped
  <2>3. Step(j, x)
    BY <1>2, <1>3, <2>1
  <2> QED
    BY <1>1, <2>2, <2>3, AfterCredits
<1>4. CASE Plan[c] # BadPlan
  <2>1. PICK x : x = [job[j] EXCEPT !.pc = "insert", !.company = c, !.locked = CreditRows(c)]
    OBVIOUS
  <2>2. c \in Companies /\ Plan[c] \in PriceTable /\ job[j].period \in Periods
    BY <1>1, <1>4, PlansAssumption DEF JobTyped, JobShape
  <2>3. CreditRows(c) \in SUBSET Credits /\ Backing(c) \subseteq CreditRows(c)
    BY DEF CInv, Typed, TypeOK, Locking, CreditRows, CreditsOf, Backing
  <2>4. /\ x \in JobRecord /\ x.pc = "insert" /\ x.company = c /\ x.locked = CreditRows(c) /\ x.period = job[j].period
        /\ x.todo = job[j].todo /\ x.read = job[j].read
    BY <1>1, <2>1, <2>2, <2>3 DEF JobRecord
  <2>5. JobTyped(x) /\ JobLocks(x) /\ x.pc # "write"
    BY <1>1, <2>2, <2>3, <2>4 DEF JobTyped, JobLocks, Working
  <2>6. Step(j, x) /\ \A i \in Closes \ {j} : job[i].locked \cap x.locked = {}
    BY <1>2, <1>4, <2>1, <2>4
  <2> QED
    BY <1>1, <2>5, <2>6, JobCredits
<1> QED
  BY <1>3, <1>4

(* A job that goes on with its company keeps its locks. *)
LEMMA WorkingCredits ==
    ASSUME IInv, CInv, NEW j \in Closes, NEW x, job[j].pc \in Working, x.pc \in Working,
           x \in JobRecord, x.period = job[j].period, x.read = job[j].read, x.todo = job[j].todo,
           x.company = job[j].company, x.locked = job[j].locked, x.pc = "write" => JobFits(x),
           Step(j, x), UNCHANGED <<invoice, faults>>
    PROVE  CInv'
<1>1. JobTyped(job[j]) /\ JobLocks(job[j]) /\ \A i \in Closes \ {j} : job[i].locked \cap job[j].locked = {}
  BY DEF CInv, Typed, Locking
<1>2. JobTyped(x) /\ JobLocks(x) /\ \A i \in Closes \ {j} : job[i].locked \cap x.locked = {}
  BY <1>1 DEF JobTyped, JobLocks
<1>3. faults' \in 0..MaxFaults
  BY DEF CInv, Typed, TypeOK
<1> QED
  BY <1>2, <1>3, JobCredits

(* The invoice is inserted. *)
LEMMA InsertInvoiceCredits == ASSUME IInv, CInv, NEW j \in Closes, InsertInvoice(j) PROVE CInv'
<1>1. job[j] \in JobRecord /\ job[j].pc = "insert" /\ UNCHANGED <<invoice, faults>>
  BY DEF InsertInvoice, CInv, Typed, TypeOK
<1>2. PICK x : x = [job[j] EXCEPT !.pc = "invoice", !.created = (Invoice(j).status = "none")]
  OBVIOUS
<1>3. /\ x \in JobRecord /\ x.pc = "invoice" /\ x.period = job[j].period /\ x.read = job[j].read
      /\ x.todo = job[j].todo /\ x.company = job[j].company /\ x.locked = job[j].locked
  BY <1>1, <1>2 DEF JobRecord
<1>4. Step(j, x)
  BY <1>2 DEF InsertInvoice
<1>5. job[j].pc \in Working /\ x.pc \in Working /\ x.pc # "write"
  BY <1>1, <1>3 DEF Working
<1> QED
  BY <1>1, <1>3, <1>4, <1>5, WorkingCredits

(* The draft is locked, or the invoice is final. *)
LEMMA LockInvoiceCredits == ASSUME IInv, CInv, NEW j \in Closes, LockInvoice(j) PROVE CInv'
<1>1. job[j] \in JobRecord /\ job[j].pc = "invoice" /\ UNCHANGED <<invoice, faults>> /\ faults' \in 0..MaxFaults
  BY DEF LockInvoice, CInv, Typed, TypeOK
<1>2. CASE job[j].created \/ Invoice(j).status = "draft"
  <2>1. PICK x : x = [job[j] EXCEPT !.pc = "credits"]
    OBVIOUS
  <2>2. /\ x \in JobRecord /\ x.pc = "credits" /\ x.period = job[j].period /\ x.read = job[j].read
        /\ x.todo = job[j].todo /\ x.company = job[j].company /\ x.locked = job[j].locked
    BY <1>1, <2>1 DEF JobRecord
  <2>3. Step(j, x)
    BY <1>2, <2>1 DEF LockInvoice
  <2>4. job[j].pc \in Working /\ x.pc \in Working /\ x.pc # "write"
    BY <1>1, <2>2 DEF Working
  <2> QED
    BY <1>1, <2>2, <2>3, <2>4, WorkingCredits
<1>3. CASE ~(job[j].created \/ Invoice(j).status = "draft")
  <2>1. PICK x : x = After(j, Company(j))
    OBVIOUS
  <2>2. JobTyped(x) /\ x.locked = {} /\ x.pc \in {"company", "done"}
    BY <2>1, AfterTyped
  <2>3. Step(j, x)
    BY <1>3, <2>1 DEF LockInvoice
  <2> QED
    BY <1>1, <2>2, <2>3, AfterCredits
<1> QED
  BY <1>2, <1>3

(* What is computed fits what the other months have left. *)
LEMMA ComputeCreditsCredits == ASSUME IInv, CInv, NEW j \in Closes, ComputeCredits(j) PROVE CInv'
<1>1. /\ job[j] \in JobRecord /\ JobTyped(job[j]) /\ job[j].pc = "credits" /\ job[j].pc \in Working
      /\ UNCHANGED <<invoice, faults>>
  BY DEF ComputeCredits, CInv, Typed, TypeOK, Working
<1>2. PICK c \in Companies, p \in Periods : c = job[j].company /\ p = job[j].period
  BY <1>1, SMTT(30) DEF JobTyped
<1> DEFINE subtotal == Total(ChargesOf(job[j]))
           remaining == availableCredits(c, p)
<1>3. PICK paid : /\ paid = ApplyCredits(subtotal, remaining)
                  /\ Step(j, [job[j] EXCEPT !.pc = "write", !.lines = paid])
  BY <1>2 DEF ComputeCredits, Charges, ChargesOf, Company
<1>4. subtotal \in Nat
  BY <1>1, ChargesNat
<1>5. \A k \in Credits : CreditOf[k].amount \in Nat /\ Taken(c, k, Periods \ {p}) \in Nat
  BY TakenNat, CreditsAssumption DEF CreditRecord, CInv, Typed
<1>6. /\ remaining \in [Credits -> Int]
      /\ \A k \in Credits : \/ remaining[k] = 0
                            \/ remaining[k] = CreditOf[k].amount - Taken(c, k, Periods \ {p})
  <2>1. ASSUME NEW k \in Credits
        PROVE  /\ remaining[k] \in Int
               /\ remaining[k] = 0 \/ remaining[k] = CreditOf[k].amount - Taken(c, k, Periods \ {p})
    <3>1. CreditOf[k].amount - Taken(c, k, Periods \ {p}) \in Int
      <4>1. PICK a \in Nat, t \in Nat : a = CreditOf[k].amount /\ t = Taken(c, k, Periods \ {p})
        BY <1>5
      <4>2. a - t \in Int
        OBVIOUS
      <4> QED
        BY <4>1, <4>2
    <3> QED
      BY <3>1 DEF availableCredits
  <2> QED
    BY <2>1 DEF availableCredits
<1> HIDE DEF subtotal, remaining
<1>7. paid \in Payments(subtotal, remaining)
  BY <1>3, <1>4, <1>6, CreditsPay
<1>8. /\ paid \in [Credits -> Nat] /\ Total(paid) <= subtotal
      /\ \A k \in Credits : paid[k] = 0 \/ paid[k] <= remaining[k]
  BY <1>7 DEF Payments
<1>9. ASSUME NEW k \in Credits PROVE paid[k] = 0 \/ paid[k] + Taken(c, k, Periods \ {p}) <= CreditOf[k].amount
  <2>1. PICK v \in Nat, a \in Nat, t \in Nat, m \in Int :
            v = paid[k] /\ a = CreditOf[k].amount /\ t = Taken(c, k, Periods \ {p}) /\ m = remaining[k]
    BY <1>5, <1>6, <1>8
  <2>2. (v = 0 \/ v <= m) /\ (m = 0 \/ m = a - t)
    BY <1>6, <1>8, <2>1
  <2>3. v = 0 \/ v + t <= a
    BY <2>2
  <2> QED
    BY <2>1, <2>3
<1>10. PICK x : x = [job[j] EXCEPT !.pc = "write", !.lines = paid]
  OBVIOUS
<1>11. /\ x \in JobRecord /\ x.pc = "write" /\ x.period = job[j].period /\ x.read = job[j].read
       /\ x.todo = job[j].todo /\ x.company = job[j].company /\ x.locked = job[j].locked /\ x.lines = paid
  BY <1>1, <1>8, <1>10 DEF JobRecord
<1>12. JobFits(x)
  <2>1. Total(x.lines) <= Total(ChargesOf(x))
    BY <1>8, <1>11 DEF ChargesOf, subtotal
  <2> QED
    BY <1>2, <1>9, <1>11, <2>1 DEF JobFits
<1>13. Step(j, x) /\ x.pc \in Working
  BY <1>3, <1>10, <1>11 DEF Working
<1> QED
  BY <1>1, <1>11, <1>12, <1>13, WorkingCredits

(* The invoice of the month, in place of what it was, takes what fits. *)
LEMMA WriteLinesCredits == ASSUME IInv, CInv, NEW j \in Closes, WriteLines(j) PROVE CInv'
<1>1. /\ job[j] \in JobRecord /\ JobTyped(job[j]) /\ job[j].pc = "write" /\ job[j].pc \in Working
      /\ Holding(job[j]) /\ JobFits(job[j]) /\ TypeOK
  BY DEF WriteLines, CInv, Typed, TypeOK, Working, Holding, Fitting
<1>2. PICK c \in Companies, p \in Periods : c = job[j].company /\ p = job[j].period
  BY <1>1 DEF JobTyped
<1>3. invoice[c][p].status \in {"none", "draft"} /\ invoice[c][p].status # "void"
  BY <1>1, <1>2, HeldAlone DEF Invoice, Company
<1>4. ChargesOf(job[j]) \in [Kinds -> Nat] /\ job[j].lines \in [Credits -> Nat]
  BY <1>1, ChargesNat, SMTT(30) DEF JobRecord
<1>5. PICK y : /\ y = [status |-> "draft", charges |-> ChargesOf(job[j]), credit |-> job[j].lines]
               /\ invoice' = [invoice EXCEPT ![c][p] = y]
  BY <1>2 DEF WriteLines, Charges, ChargesOf, Company
<1>6. y \in InvoiceRecord /\ y.status = "draft" /\ y.charges = ChargesOf(job[j]) /\ y.credit = job[j].lines
  BY <1>4, <1>5 DEF InvoiceRecord
<1>7. /\ invoice' \in [Companies -> [Periods -> InvoiceRecord]] /\ invoice'[c][p] = y
      /\ \A d \in Companies, q \in Periods : d # c \/ q # p => invoice'[d][q] = invoice[d][q]
  BY <1>1, <1>5, <1>6 DEF TypeOK
<1>8. PICK x : x = After(j, Company(j))
  OBVIOUS
<1>9. /\ JobTyped(x) /\ x.locked = {} /\ x.pc \in {"company", "done"} /\ x \in JobRecord
      /\ job' = [job EXCEPT ![j] = x] /\ UNCHANGED <<reading, credits, faults>>
      /\ job'[j] = x /\ \A i \in Closes \ {j} : job'[i] = job[i]
  BY <1>1, <1>8, AfterTyped DEF WriteLines, Step, JobTyped, TypeOK
<1>10. Typed'
  <2>1. TypeOK'
    BY <1>1, <1>7, <1>9 DEF TypeOK
  <2>2. \A i \in Closes : JobTyped(job'[i])
    BY <1>9 DEF CInv, Typed
  <2> QED
    BY <1>9, <2>1, <2>2 DEF CInv, Typed, JobTyped
<1>11. Locking'
  <2>1. \A i \in Closes : JobLocks(job'[i])
    BY <1>9 DEF CInv, Locking, JobLocks, Working
  <2>2. \A i, k \in Closes : i # k => job'[i].locked \cap job'[k].locked = {}
    BY <1>9 DEF CInv, Locking
  <2> QED
    BY <1>9, <2>1, <2>2 DEF CInv, Locking, JobLocks
<1>12. ASSUME NEW d \in Companies, NEW k \in Credits, NEW M \in SUBSET Periods, d # c \/ p \notin M
       PROVE  Taken(d, k, M)' = Taken(d, k, M)
  <2>1. \A q \in M : invoice'[d][q] = invoice[d][q]
    BY <1>7, <1>12
  <2>2. {m \in M : invoice'[d][m].status # "void"} = {m \in M : invoice[d][m].status # "void"}
    BY <2>1
  <2>3. LineOf(invoice', d, k, M) = LineOf(invoice, d, k, M)
    BY <2>1, <2>2 DEF LineOf
  <2> QED
    BY <2>3, TakenLines
<1>13. Fitting'
  <2>1. ASSUME NEW i \in Closes, job'[i].pc = "write" PROVE JobFits(job[i])'
    <3>1. i # j /\ job'[i] = job[i] /\ JobFits(job[i]) /\ JobTyped(job[i]) /\ job[i].pc \in Working
      BY <1>9, <2>1 DEF CInv, Fitting, Typed, Working
    <3>2. PICK d \in Companies, q \in Periods : d = job[i].company /\ q = job[i].period
      BY <3>1 DEF JobTyped
    <3>3. Total(job'[i].lines) <= Total(ChargesOf(job'[i]))
      BY <3>1 DEF JobFits
    <3>4. ASSUME NEW k \in Credits, CreditOf[k].company = d, Backing(d) # {}
          PROVE  job[i].lines[k] = 0 \/ job[i].lines[k] + Taken(d, k, Periods \ {q})' <= CreditOf[k].amount
      <4>1. d # c
        BY <1>1, <1>2, <3>1, <3>2, <3>4, LockedAlone DEF CInv, Company
      <4>2. Taken(d, k, Periods \ {q})' = Taken(d, k, Periods \ {q})
        BY <1>12, <4>1
      <4> QED
        BY <3>1, <3>2, <3>4, <4>2 DEF JobFits
    <3>5. \A k \in Credits : Taken(job[i].company, k, Periods \ {job[i].period})' = Taken(d, k, Periods \ {q})'
      BY <3>1, <3>2 DEF Taken
    <3> QED
      BY <3>1, <3>2, <3>3, <3>4, <3>5 DEF JobFits, ChargesOf
  <2> QED
    BY <2>1 DEF Fitting
<1>14. ASSUME NEW k \in Credits, Backing(CreditOf[k].company) # {}
       PROVE  Taken(CreditOf[k].company, k, Periods)' <= CreditOf[k].amount
  <2>1. PICK d \in Companies : d = CreditOf[k].company
    BY CreditsAssumption DEF CreditRecord
  <2>2. Taken(d, k, Periods) <= CreditOf[k].amount
    BY <1>14, <2>1 DEF CInv, CreditsNotOverspent, Backing
  <2>3. CASE d # c
    <3>1. Taken(d, k, Periods)' = Taken(d, k, Periods)
      BY <1>12, <2>3
    <3> QED
      BY <2>1, <2>2, <3>1
  <2>4. CASE d = c
    <3>1. Taken(c, k, Periods)' = invoice'[c][p].credit[k] + Taken(c, k, Periods \ {p})'
      <4>1. invoice' \in InvoiceTable /\ invoice'[c][p].status # "void"
        BY <1>6, <1>7 DEF InvoiceTable
      <4> QED
        BY <4>1, LineSplit, TakenLines
    <3>2. Taken(c, k, Periods \ {p})' = Taken(c, k, Periods \ {p})
      BY <1>12
    <3>3. Taken(c, k, Periods) = invoice[c][p].credit[k] + Taken(c, k, Periods \ {p})
      <4>1. invoice \in InvoiceTable
        BY <1>1 DEF TypeOK, InvoiceTable
      <4> QED
        BY <1>3, <4>1, LineSplit, TakenLines
    <3>4. PICK t \in Nat, v \in Nat, a \in Nat, o \in Nat :
              /\ t = Taken(c, k, Periods \ {p}) /\ v = job[j].lines[k] /\ a = CreditOf[k].amount
              /\ o = invoice[c][p].credit[k]
      <4>1. Taken(c, k, Periods \ {p}) \in Nat /\ job[j].lines[k] \in Nat /\ CreditOf[k].amount \in Nat
        BY <1>1, <1>4, TakenNat, CreditsAssumption DEF CreditRecord
      <4>2. invoice[c][p].credit[k] \in Nat
        BY <1>1 DEF TypeOK, InvoiceRecord
      <4> QED
        BY <4>1, <4>2
    <3>5. Taken(c, k, Periods)' = v + t
      BY <1>6, <1>7, <3>1, <3>2, <3>4
    <3>6. v = 0 \/ v + t <= a
      BY <1>1, <1>2, <1>14, <2>1, <2>4, <3>4 DEF JobFits
    <3>7. o + t <= a
      BY <2>2, <2>4, <3>3, <3>4
    <3>8. v + t <= a
      BY <3>6, <3>7
    <3> QED
      BY <2>1, <2>4, <3>4, <3>5, <3>8
  <2> QED
    BY <2>3, <2>4
<1>15. ASSUME NEW d \in Companies, NEW q \in Periods
       PROVE  Total(invoice'[d][q].credit) <= Total(invoice'[d][q].charges)
  <2>1. CASE d = c /\ q = p
    BY <1>1, <1>6, <1>7, <2>1 DEF JobFits
  <2>2. CASE d # c \/ q # p
    BY <1>7, <2>2 DEF CInv, CreditsNotOverspent
  <2> QED
    BY <2>1, <2>2
<1>16. CreditsNotOverspent'
  BY <1>14, <1>15 DEF CreditsNotOverspent, Backing
<1> QED
  BY <1>10, <1>11, <1>13, <1>16 DEF CInv

(* A transaction rolls back. *)
LEMMA CloseFailsCredits == ASSUME IInv, CInv, NEW j \in Closes, CloseFails(j) PROVE CInv'
<1>1. UNCHANGED invoice /\ faults' \in 0..MaxFaults
  BY CreditsAssumption DEF CloseFails, CInv, Typed, TypeOK
<1>2. PICK x : x \in {After(j, Company(j)), Ended} /\ Step(j, x)
  BY DEF CloseFails
<1>3. JobTyped(x) /\ x.locked = {} /\ x.pc \in {"company", "done"}
  BY <1>2, AfterTyped
<1> QED
  BY <1>1, <1>2, <1>3, AfterCredits

(* Nothing but the status of an invoice changes, and it takes no more. *)
LEMMA StatusCredits ==
    ASSUME IInv, CInv, NEW c \in Companies, NEW p \in Periods, NEW s \in {"issued", "void"},
           invoice' = [invoice EXCEPT ![c][p].status = s], UNCHANGED <<reading, credits, job, faults>>,
           invoice[c][p].status # "void"
    PROVE  CInv'
<1>1. PICK x \in InvoiceRecord : x = invoice[c][p]
  BY DEF CInv, Typed, TypeOK
<1>2. PICK y : y = [x EXCEPT !.status = s]
  OBVIOUS
<1>3. y \in InvoiceRecord /\ y.credit = x.credit /\ y.charges = x.charges
  BY <1>1, <1>2 DEF InvoiceRecord
<1>4. /\ invoice' \in [Companies -> [Periods -> InvoiceRecord]] /\ invoice'[c][p] = y
      /\ \A d \in Companies, q \in Periods : d # c \/ q # p => invoice'[d][q] = invoice[d][q]
  BY <1>1, <1>2, <1>3 DEF CInv, Typed, TypeOK
<1>5. Typed' /\ Locking'
  <2>1. TypeOK'
    BY <1>4 DEF CInv, Typed, TypeOK
  <2> QED
    BY <2>1 DEF CInv, Typed, Locking, JobTyped, JobLocks
<1>6. ASSUME NEW d \in Companies, NEW k \in Credits, NEW M \in SUBSET Periods
      PROVE  Taken(d, k, M)' <= Taken(d, k, M) /\ Taken(d, k, M)' \in Nat /\ Taken(d, k, M) \in Nat
  <2>1. \A q \in M : invoice'[d][q].status = "void" \/
                     (invoice[d][q].status # "void" /\ invoice'[d][q].credit[k] = invoice[d][q].credit[k])
    BY <1>1, <1>3, <1>4
  <2>2. invoice \in InvoiceTable /\ invoice' \in InvoiceTable
    BY <1>4 DEF CInv, Typed, TypeOK, InvoiceTable
  <2>3. SumFunction(LineOf(invoice', d, k, M)) <= SumFunction(LineOf(invoice, d, k, M))
    BY <2>1, <2>2, LineLess
  <2>4. SumFunction(LineOf(invoice', d, k, M)) \in Nat /\ SumFunction(LineOf(invoice, d, k, M)) \in Nat
    BY <2>2, LineNat
  <2> QED
    BY <2>3, <2>4, TakenLines
<1>7. Fitting'
  <2>1. ASSUME NEW i \in Closes, job'[i].pc = "write" PROVE JobFits(job[i])'
    <3>1. job'[i] = job[i] /\ JobFits(job[i]) /\ JobTyped(job[i]) /\ job[i].pc \in Working
      BY <2>1 DEF CInv, Fitting, Typed, Working
    <3>2. PICK d \in Companies, q \in Periods : d = job[i].company /\ q = job[i].period
      BY <3>1 DEF JobTyped
    <3>3. Total(job'[i].lines) <= Total(ChargesOf(job'[i]))
      BY <3>1 DEF JobFits
    <3>4. ASSUME NEW k \in Credits, CreditOf[k].company = d, Backing(d) # {}
          PROVE  job[i].lines[k] = 0 \/ job[i].lines[k] + Taken(d, k, Periods \ {q})' <= CreditOf[k].amount
      <4>1. PICK t \in Nat, u \in Nat, v \in Nat, a \in Nat :
                /\ t = Taken(d, k, Periods \ {q}) /\ u = Taken(d, k, Periods \ {q})'
                /\ v = job[i].lines[k] /\ a = CreditOf[k].amount /\ u <= t
        BY <1>6, <3>1, CreditsAssumption DEF CreditRecord, JobTyped, JobRecord
      <4>2. v = 0 \/ v + t <= a
        BY <3>1, <3>2, <3>4, <4>1 DEF JobFits
      <4>3. v = 0 \/ v + u <= a
        BY <4>1, <4>2
      <4> QED
        BY <4>1, <4>3
    <3>5. \A k \in Credits : Taken(job[i].company, k, Periods \ {job[i].period})' = Taken(d, k, Periods \ {q})'
      BY <3>1, <3>2 DEF Taken
    <3> QED
      BY <3>1, <3>2, <3>3, <3>4, <3>5 DEF JobFits, ChargesOf
  <2> QED
    BY <2>1 DEF Fitting
<1>8. ASSUME NEW k \in Credits, Backing(CreditOf[k].company) # {}
      PROVE  Taken(CreditOf[k].company, k, Periods)' <= CreditOf[k].amount
  <2>1. PICK d \in Companies : d = CreditOf[k].company
    BY CreditsAssumption DEF CreditRecord
  <2>2. Taken(d, k, Periods) <= CreditOf[k].amount
    BY <1>8, <2>1 DEF CInv, CreditsNotOverspent, Backing
  <2>3. PICK t \in Nat, u \in Nat, a \in Nat :
            t = Taken(d, k, Periods) /\ u = Taken(d, k, Periods)' /\ a = CreditOf[k].amount /\ u <= t
    BY <1>6, CreditsAssumption DEF CreditRecord
  <2>4. u <= a
    BY <2>2, <2>3
  <2> QED
    BY <2>1, <2>3, <2>4
<1>9. ASSUME NEW d \in Companies, NEW q \in Periods
      PROVE  Total(invoice'[d][q].credit) <= Total(invoice'[d][q].charges)
  <2>1. invoice'[d][q].credit = invoice[d][q].credit /\ invoice'[d][q].charges = invoice[d][q].charges
    BY <1>1, <1>3, <1>4
  <2> QED
    BY <2>1 DEF CInv, CreditsNotOverspent
<1>10. CreditsNotOverspent'
  BY <1>8, <1>9 DEF CreditsNotOverspent, Backing
<1> QED
  BY <1>5, <1>7, <1>10 DEF CInv

(* No invoice and no job changes. *)
LEMMA OtherCredits ==
    ASSUME IInv, CInv, UNCHANGED <<invoice, job, faults>>, credits \subseteq credits', credits' \subseteq Credits,
           reading' \in [Companies -> [Periods -> Nat]],
           \A c \in Companies, p \in Periods : reading'[c][p] \in 1..Len(Readings[c])
    PROVE  CInv'
<1>1. Typed'
  BY DEF CInv, Typed, TypeOK, JobTyped
<1>2. Locking'
  BY SMTT(30) DEF CInv, Locking, JobLocks
<1>3. Fitting' /\ CreditsNotOverspent'
  BY DEF CInv, Fitting, JobFits, ChargesOf, Taken, CreditsNotOverspent
<1> QED
  BY <1>1, <1>2, <1>3 DEF CInv

-----------------------------------------------------------------------------
(* Billing's theorems.                                                     *)

(* The invariant holds at first. *)
LEMMA InitInv == Init => IInv
<1> SUFFICES ASSUME Init PROVE IInv
  OBVIOUS
<1>1. JobShape(NewJob) /\ NewJob.created = FALSE /\ NewJob.pc = "usage"
  BY DEF JobShape, NewJob, Pcs, Working
<1>2. Jobs
  BY <1>1 DEF Init, Jobs
<1>3. Invoices
  BY DEF Init, Invoices, InvoiceShape, NoInvoice
<1>4. InvoiceHeld
  BY <1>1 DEF Init, InvoiceHeld, HoldsInvoice
<1> QED
  BY <1>2, <1>3, <1>4 DEF IInv

(* Every step keeps it, and what was issued. *)
LEMMA StepInv == IInv /\ [Next]_vars => IInv' /\ AllKept
<1> SUFFICES ASSUME IInv, [Next]_vars PROVE IInv' /\ AllKept
  OBVIOUS
<1>1. ASSUME NEW j \in Closes, Close(j) \/ CloseFails(j) PROVE IInv' /\ AllKept
  BY <1>1, ReadUsageInv, ListCompaniesInv, LockCreditsInv, InsertInvoiceInv, LockInvoiceInv,
     ComputeCreditsInv, WriteLinesInv, CloseFailsInv DEF Close
<1>2. ASSUME NEW c \in Companies, NEW p \in Periods, IssueInvoice(c, p) \/ VoidInvoice(c, p) \/ UsageGrows(c, p)
      PROVE  IInv' /\ AllKept
  BY <1>2, IssueInvoiceInv, VoidInvoiceInv, OtherInv DEF UsageGrows
<1>3. ASSUME NEW k \in Credits, GrantCredit(k) PROVE IInv' /\ AllKept
  BY <1>3, OtherInv DEF GrantCredit
<1>4. CASE UNCHANGED vars
  BY <1>4, OtherInv DEF vars
<1> QED
  BY <1>1, <1>2, <1>3, <1>4 DEF Next

(* Of any number of closes, one at a time is at work on an invoice, from   *)
(* its insert or its lock to its commit; it finds no row, or a draft.      *)
THEOREM OneCloseAtATime == Spec => []InvoiceHeld
<1>1. IInv => InvoiceHeld
  BY DEF IInv
<1>2. IInv /\ [Next]_vars => IInv'
  BY StepInv
<1> QED
  BY <1>1, <1>2, InitInv, PTL DEF Spec

(* An invoice that was issued is never changed, but to void it, by any     *)
(* number of closes that were under way when it was issued.                *)
THEOREM IssuedStands == Spec => IssuedUnchanged
<1>1. IInv /\ [Next]_vars => IInv'
  BY StepInv
<1>2. IInv /\ [Next]_vars =>
        [\A c \in Companies, p \in Periods : invoice[c][p].status \in {"issued", "void"} =>
            /\ invoice'[c][p].status \in {invoice[c][p].status, "void"}
            /\ invoice'[c][p] = [invoice[c][p] EXCEPT !.status = invoice'[c][p].status]]_vars
  BY StepInv DEF AllKept, Kept
<1> QED
  BY <1>1, <1>2, InitInv, PTL DEF Spec, IssuedUnchanged

(* The invariant of credits holds at first. *)
LEMMA InitCreditsInv == Init => CInv
<1> SUFFICES ASSUME Init PROVE CInv
  OBVIOUS
<1>1. \A c \in Companies : Len(Readings[c]) \in Nat /\ 1 \in 1..Len(Readings[c])
  <2>1. ASSUME NEW c \in Companies PROVE Len(Readings[c]) \in Nat /\ 1 \in 1..Len(Readings[c])
    <3>1. Readings[c] # <<>> /\ Readings[c] \in Seq(Usage)
      BY ReadingsAssumption
    <3> QED
      BY <3>1
  <2> QED
    BY <2>1
<1>2. JobTyped(NewJob) /\ NewJob.pc = "usage" /\ NewJob.locked = {}
  BY <1>1 DEF JobTyped, NewJob, JobRecord, Working
<1>3. NoInvoice \in InvoiceRecord
  BY DEF NoInvoice, InvoiceRecord
<1>4. TypeOK
  <2>1. reading \in [Companies -> [Periods -> Nat]] /\ invoice \in [Companies -> [Periods -> InvoiceRecord]]
    BY <1>3 DEF Init
  <2>2. job \in [Closes -> JobRecord] /\ credits \subseteq Credits /\ faults \in 0..MaxFaults
    BY <1>2, CreditsAssumption DEF Init, JobTyped
  <2> QED
    BY <2>1, <2>2 DEF TypeOK
<1>5. Typed
  BY <1>1, <1>2, <1>4 DEF Typed, Init
<1>6. Locking /\ Fitting
  BY <1>2 DEF Locking, JobLocks, Fitting, Init, Working
<1>7. ASSUME NEW k \in Credits PROVE Taken(CreditOf[k].company, k, Periods) <= CreditOf[k].amount
  <2>1. PICK c \in Companies : c = CreditOf[k].company
    BY CreditsAssumption DEF CreditRecord
  <2>2. \A q \in Periods : invoice[c][q].credit[k] = 0
    BY DEF Init, NoInvoice
  <2>3. invoice \in InvoiceTable
    BY <1>4 DEF TypeOK, InvoiceTable
  <2>4. Amounts(LineOf(invoice, c, k, Periods))
    BY <2>3, LineNat
  <2>5. Taken(c, k, Periods) = 0
    <3>1. \A q \in DOMAIN LineOf(invoice, c, k, Periods) : LineOf(invoice, c, k, Periods)[q] = 0
      BY <2>2 DEF LineOf
    <3> QED
      BY <2>4, <3>1, SumZeros, TakenLines
  <2>6. CreditOf[k].amount \in Nat
    BY CreditsAssumption DEF CreditRecord
  <2> QED
    BY <2>1, <2>5, <2>6
<1>8. ASSUME NEW c \in Companies, NEW p \in Periods
      PROVE  Total(invoice[c][p].credit) <= Total(invoice[c][p].charges)
  <2>1. invoice[c][p].credit = [k \in Credits |-> 0] /\ invoice[c][p].charges = [kind \in Kinds |-> 0]
    BY DEF Init, NoInvoice
  <2>2. Amounts([k \in Credits |-> 0]) /\ Amounts([kind \in Kinds |-> 0])
    BY CreditsAssumption, KindsFinite DEF Amounts
  <2>3. SumFunction([k \in Credits |-> 0]) = 0 /\ SumFunction([kind \in Kinds |-> 0]) = 0
    BY <2>2, SumZeros
  <2> QED
    BY <2>1, <2>3 DEF Total
<1>9. CreditsNotOverspent
  BY <1>7, <1>8 DEF CreditsNotOverspent
<1> QED
  BY <1>5, <1>6, <1>9 DEF CInv

(* Every step keeps it. *)
LEMMA StepCreditsInv == IInv /\ CInv /\ [Next]_vars => CInv'
<1> SUFFICES ASSUME IInv, CInv, [Next]_vars PROVE CInv'
  OBVIOUS
<1>1. ASSUME NEW j \in Closes, Close(j) \/ CloseFails(j) PROVE CInv'
  BY <1>1, ReadUsageCredits, ListCompaniesCredits, LockCreditsCredits, InsertInvoiceCredits, LockInvoiceCredits,
     ComputeCreditsCredits, WriteLinesCredits, CloseFailsCredits DEF Close
<1>2. ASSUME NEW c \in Companies, NEW p \in Periods, IssueInvoice(c, p) \/ VoidInvoice(c, p) PROVE CInv'
  <2>1. CASE IssueInvoice(c, p)
    BY <2>1, StatusCredits DEF IssueInvoice
  <2>2. CASE VoidInvoice(c, p)
    BY <2>2, StatusCredits DEF VoidInvoice
  <2> QED
    BY <1>2, <2>1, <2>2
<1>3. TypeOK /\ Typed
  BY DEF CInv, Typed
<1>4. ASSUME NEW c \in Companies, NEW p \in Periods, UsageGrows(c, p) PROVE CInv'
  <2>1. PICK n \in Nat : n = Len(Readings[c])
    <3>1. Readings[c] \in Seq(Usage)
      BY ReadingsAssumption
    <3> QED
      BY <3>1
  <2>2. /\ reading[c][p] \in Nat /\ reading[c][p] \in 1..n /\ reading[c][p] < n
        /\ reading' = [reading EXCEPT ![c][p] = reading[c][p] + 1] /\ UNCHANGED <<credits, invoice, job, faults>>
    BY <1>3, <1>4, <2>1 DEF UsageGrows, Typed, TypeOK
  <2>3. /\ reading' \in [Companies -> [Periods -> Nat]] /\ reading'[c][p] = reading[c][p] + 1
        /\ \A d \in Companies, q \in Periods : d # c \/ q # p => reading'[d][q] = reading[d][q]
    BY <1>3, <2>2 DEF TypeOK
  <2>4. reading'[c][p] \in 1..n
    BY <2>2, <2>3
  <2>5. \A d \in Companies, q \in Periods : reading'[d][q] \in 1..Len(Readings[d])
    BY <1>3, <2>1, <2>3, <2>4 DEF Typed
  <2> QED
    BY <1>3, <2>2, <2>3, <2>5, OtherCredits DEF TypeOK
<1>5. ASSUME NEW k \in Credits, GrantCredit(k) PROVE CInv'
  BY <1>3, <1>5, OtherCredits DEF GrantCredit, Typed, TypeOK
<1>6. CASE UNCHANGED vars
  BY <1>3, <1>6, OtherCredits DEF vars, Typed, TypeOK
<1> QED
  BY <1>1, <1>2, <1>4, <1>5, <1>6 DEF Next

(* Every variable keeps its type: what is charged and what is paid are     *)
(* never negative.                                                         *)
THEOREM BillingTyped == Spec => []TypeOK
<1>1. CInv => TypeOK
  BY DEF CInv, Typed
<1>2. IInv /\ [Next]_vars => IInv'
  BY StepInv
<1> QED
  BY <1>1, <1>2, InitInv, InitCreditsInv, StepCreditsInv, PTL DEF Spec

(* However many closes overlap, fail and run again, and whatever is        *)
(* granted, issued and voided meanwhile, no credit of a company that had   *)
(* one from the start is spent twice, and no invoice is credited more than *)
(* it charges.                                                             *)
THEOREM CreditsSuffice == Spec => []CreditsNotOverspent
<1>1. CInv => CreditsNotOverspent
  BY DEF CInv
<1>2. IInv /\ [Next]_vars => IInv'
  BY StepInv
<1> QED
  BY <1>1, <1>2, InitInv, InitCreditsInv, StepCreditsInv, PTL DEF Spec

-----------------------------------------------------------------------------
(* Analytics: which events a view has counted.                             *)

(* A purge takes the rows of session_metric_rows, and of no other view. *)
Whole(v) == v # "mv_session_metrics" \/ purge = "none"

LogInv ==
    /\ \A e \in Events : log[e] > 0 => e \in logged
    /\ purge = "none" => \A e \in logged : log[e] > 0

(* A view has no event that was not logged, or that it has lost; before it *)
(* is created the log has what it will need, and once it is backfilled it  *)
(* has everything.                                                         *)
ViewInv(v) ==
    /\ \A e \in Events : rows[v][e] > 0 => e \in logged /\ e \notin lost[v] /\ Selects(v, e)
    /\ \A e \in lost[v] : log[e] = 0
    /\ purge = "none" => lost[v] = {}
    /\ v \notin made => /\ \A e \in Events : rows[v][e] = 0
                        /\ \A e \in logged \ lost[v] : log[e] > 0
    /\ v \in filled => v \in made
    /\ v \in filled /\ Whole(v) => \A e \in logged \ lost[v] : Selects(v, e) => rows[v][e] > 0

(* Between the creation of a view and the end of its backfill, an event is *)
(* in the view, or still to be copied.                                     *)
MigInv ==
    /\ mig.pc # "done" => mig.view \in 1..Len(Views)
    /\ mig.pc # "insert" => mig.read = {}
    /\ mig.pc = "create" => View \notin made
    /\ mig.pc \in {"select", "insert"} => View \in made
    /\ mig.pc = "select" /\ Whole(View) =>
          \A e \in logged \ lost[View] : Selects(View, e) => rows[View][e] > 0 \/ log[e] > 0
    /\ mig.pc = "insert" => \A e \in mig.read : e \in logged /\ e \notin lost[View] /\ Selects(View, e)
    /\ mig.pc = "insert" /\ Whole(View) =>
          \A e \in logged \ lost[View] : Selects(View, e) => rows[View][e] > 0 \/ e \in mig.read

(* The dashboard counts what was inserted, as often as it was. *)
ActivityInv ==
    \A e \in Events : (rows[Activity][e] > 0 => e \in logged) /\ (resent = 0 => rows[Activity][e] <= 1)

AInv == AnalyticsTypeOK /\ LogInv /\ (\A v \in ViewNames : ViewInv(v)) /\ MigInv /\ ActivityInv

(* The views Migrate creates. *)
LEMMA ViewFacts ==
    /\ ViewNames \subseteq AllViews /\ "mv_session_metrics" \in ViewNames
    /\ Activity \notin ViewNames /\ "none" \notin ViewNames
    /\ Len(Views) \in Nat /\ 1 \in 1..Len(Views)
    /\ \A n \in 1..Len(Views) : Views[n] \in ViewNames
<1>1. Views \in Seq(AllViews) /\ {"mv_session_metrics", "mv_billing_usage"} \subseteq Range(Views)
  BY ViewsAssumption
<1>2. DOMAIN Views = 1..Len(Views) /\ Len(Views) \in Nat /\ \A n \in 1..Len(Views) : Views[n] \in AllViews
  BY <1>1
<1>3. \A n \in 1..Len(Views) : Views[n] \in ViewNames
  BY <1>2 DEF ViewNames, Range
<1>4. ViewNames \subseteq AllViews /\ "mv_session_metrics" \in ViewNames
  BY <1>1, <1>2 DEF ViewNames, Range
<1>5. 1 \in 1..Len(Views)
  <2>1. PICK n \in 1..Len(Views) : Views[n] = "mv_session_metrics"
    BY <1>2, <1>4 DEF ViewNames, Range
  <2> QED
    BY <1>2, <2>1
<1> QED
  BY <1>2, <1>3, <1>4, <1>5 DEF AllViews, Activity

(* The view at hand is one of them. *)
LEMMA ViewNamed ==
    ASSUME AInv
    PROVE  IF mig.pc = "done" THEN View = "none" ELSE View = Views[mig.view] /\ View \in ViewNames
  BY ViewFacts DEF AInv, MigInv, View

(* Copies are added to the events named, up to a bound. *)
LEMMA CopiesAdded ==
    ASSUME NEW f \in [Events -> 0..MaxCopies], NEW added, NEW most \in 1..MaxCopies
    PROVE  LET g == AddCopies(f, added, most) IN
           /\ g \in [Events -> 0..MaxCopies]
           /\ \A e \in Events : /\ g[e] > 0 <=> f[e] > 0 \/ e \in added
                                /\ e \notin added => g[e] = f[e]
                                /\ g[e] <= f[e] + 1
<1>1. MaxCopies \in Nat
  BY AnalyticsBounds
<1>2. ASSUME NEW e \in Events
      PROVE  LET n == IF e \in added /\ f[e] < most THEN f[e] + 1 ELSE f[e] IN
             /\ n \in 0..MaxCopies /\ n <= f[e] + 1
             /\ n > 0 <=> f[e] > 0 \/ e \in added
             /\ e \notin added => n = f[e]
  BY <1>1
<1> QED
  BY <1>2 DEF AddCopies

(* A count of copies is a natural number. *)
LEMMA CopiesNat == ASSUME NEW f \in [Events -> 0..MaxCopies], NEW e \in Events PROVE f[e] \in Nat
<1>1. f[e] \in 0..MaxCopies /\ MaxCopies \in Nat
  BY AnalyticsBounds
<1> QED
  BY <1>1

(* The bounds of each table. *)
LEMMA MostBound == \A v : Most(v) \in 1..MaxCopies
  BY AnalyticsBounds DEF Most

-----------------------------------------------------------------------------

(* An event is inserted. *)
LEMMA InsertInv == ASSUME AInv, NEW e \in Events, Insert(e) PROVE AInv'
<1>1. /\ AnalyticsTypeOK /\ log' = AddCopies(log, {e}, MaxCopies) /\ logged' = logged \cup {e}
      /\ rows' = [v \in Tables |-> IF v \in made /\ Selects(v, e)
                                   THEN AddCopies(rows[v], {e}, Most(v)) ELSE rows[v]]
      /\ lost' = [v \in ViewNames |-> lost[v] \ {e}]
      /\ UNCHANGED <<made, mig, filled, purge, restarts>>
  BY DEF Insert, AInv
<1>2. /\ log' \in [Events -> 0..MaxCopies]
      /\ \A d \in Events : log'[d] > 0 <=> log[d] > 0 \/ d = e
  <2>1. log \in [Events -> 0..MaxCopies] /\ MaxCopies \in 1..MaxCopies
    BY <1>1, AnalyticsBounds DEF AnalyticsTypeOK
  <2> QED
    BY <1>1, <2>1, CopiesAdded
<1>3. ASSUME NEW v \in Tables
      PROVE  /\ rows'[v] \in [Events -> 0..MaxCopies]
             /\ \A d \in Events : /\ rows'[v][d] > 0 <=> rows[v][d] > 0 \/ (d = e /\ v \in made /\ Selects(v, e))
                                  /\ d # e => rows'[v][d] = rows[v][d]
                                  /\ rows'[v][d] <= rows[v][d] + 1
  <2>1. rows[v] \in [Events -> 0..MaxCopies] /\ Most(v) \in 1..MaxCopies
    BY <1>1, MostBound DEF AnalyticsTypeOK
  <2>2. CASE v \in made /\ Selects(v, e)
    BY <1>1, <2>1, <2>2, CopiesAdded
  <2>3. CASE ~(v \in made /\ Selects(v, e))
    <3>1. rows'[v] = rows[v]
      BY <1>1, <2>3
    <3>2. \A d \in Events : rows[v][d] <= rows[v][d] + 1
      <4>1. \A n \in 0..MaxCopies : n <= n + 1
        BY AnalyticsBounds
      <4> QED
        BY <2>1, <4>1
    <3> QED
      BY <2>1, <2>3, <3>1, <3>2
  <2> QED
    BY <2>2, <2>3
<1>4. resent' \in 0..MaxRedeliveries /\ (resent' = 0 => resent = 0 /\ e \notin logged)
  BY <1>1, AnalyticsBounds DEF Insert, AnalyticsTypeOK
<1>5. AnalyticsTypeOK'
  BY <1>1, <1>2, <1>3, <1>4 DEF AnalyticsTypeOK
<1>6. LogInv'
  BY <1>1, <1>2 DEF AInv, LogInv, AnalyticsTypeOK
<1>7. View' = View
  BY <1>1 DEF View
<1>8. \A v \in ViewNames : v \in Tables /\ lost'[v] = lost[v] \ {e}
  BY <1>1 DEF Tables
<1>9. ASSUME NEW v \in ViewNames PROVE ViewInv(v)'
  <2>1. ViewInv(v) /\ (Whole(v)' <=> Whole(v)) /\ \A d \in Events : Selects(v, d)' <=> Selects(v, d)
    BY <1>1 DEF AInv, Whole, Selects
  <2>2. \A d \in Events : rows[v][d] \in Nat /\ rows'[v][d] \in Nat /\ log[d] \in Nat /\ log'[d] \in Nat
    <3>1. /\ rows[v] \in [Events -> 0..MaxCopies] /\ rows'[v] \in [Events -> 0..MaxCopies]
          /\ log \in [Events -> 0..MaxCopies] /\ log' \in [Events -> 0..MaxCopies]
      BY <1>1, <1>5, <1>8 DEF AnalyticsTypeOK
    <3> QED
      BY <3>1, CopiesNat
  <2>3. logged \subseteq Events /\ logged' \subseteq Events /\ lost[v] \subseteq Events
    BY <1>1, <1>5 DEF AnalyticsTypeOK
  <2>4. \A d \in Events : rows'[v][d] > 0 => d \in logged' /\ d \notin lost'[v] /\ Selects(v, d)
    BY <1>1, <1>3, <1>8, <2>1 DEF ViewInv
  <2>5. \A d \in lost'[v] : log'[d] = 0
    BY <1>2, <1>8, <2>1, <2>2, <2>3 DEF ViewInv
  <2>6. v \notin made => /\ \A d \in Events : rows'[v][d] = 0
                         /\ \A d \in logged' \ lost'[v] : log'[d] > 0
    BY <1>1, <1>2, <1>3, <1>8, <2>1, <2>2, <2>3 DEF ViewInv
  <2>7. v \in filled /\ Whole(v) => \A d \in logged' \ lost'[v] : Selects(v, d) => rows'[v][d] > 0
    <3>1. SUFFICES ASSUME v \in filled, Whole(v), NEW d \in logged' \ lost'[v], Selects(v, d) PROVE rows'[v][d] > 0
      OBVIOUS
    <3>2. d \in Events /\ (d # e => d \in logged \ lost[v]) /\ v \in Tables
      BY <1>1, <1>8, <2>3
    <3>3. v \in made /\ (d # e => rows[v][d] > 0)
      BY <2>1, <3>1, <3>2 DEF ViewInv
    <3> QED
      BY <1>3, <3>1, <3>2, <3>3
  <2>8. purge = "none" => lost'[v] = {}
    BY <1>8, <2>1 DEF ViewInv
  <2> QED
    BY <1>1, <2>1, <2>4, <2>5, <2>6, <2>7, <2>8 DEF ViewInv
<1>10. MigInv'
  <2>1. CASE mig.pc = "done"
    BY <1>1, <2>1 DEF AInv, MigInv
  <2>2. CASE mig.pc # "done"
    <3>1. PICK v \in ViewNames : v = View
      BY <2>2, ViewNamed
    <3>2. (Whole(v)' <=> Whole(v)) /\ v \in Tables
      BY <1>1, <1>8 DEF Whole
    <3>3. mig.pc = "select" /\ Whole(v) =>
              \A d \in logged' \ lost'[v] : Selects(v, d) => rows'[v][d] > 0 \/ log'[d] > 0
      BY <1>1, <1>2, <1>3, <1>8, <3>1, <3>2, ZenonT(40) DEF AInv, MigInv, AnalyticsTypeOK
    <3>4. mig.pc = "insert" => \A d \in mig.read : d \in logged' /\ d \notin lost'[v] /\ Selects(v, d)
      BY <1>1, <1>8, <3>1 DEF AInv, MigInv
    <3>5. mig.pc = "insert" /\ Whole(v) =>
              \A d \in logged' \ lost'[v] : Selects(v, d) => rows'[v][d] > 0 \/ d \in mig.read
      <4>1. SUFFICES ASSUME mig.pc = "insert", Whole(v), NEW d \in logged' \ lost'[v], Selects(v, d)
                     PROVE  rows'[v][d] > 0 \/ d \in mig.read
        OBVIOUS
      <4>2. d \in Events /\ (d # e => d \in logged \ lost[v]) /\ v \in made
        BY <1>1, <1>5, <1>8, <3>1, <4>1 DEF AInv, MigInv, AnalyticsTypeOK
      <4>3. d # e => rows[v][d] > 0 \/ d \in mig.read
        BY <3>1, <4>1, <4>2 DEF AInv, MigInv
      <4> QED
        BY <1>3, <3>2, <4>1, <4>2, <4>3
    <3>6. /\ mig'.pc = mig.pc /\ mig'.view = mig.view /\ mig'.read = mig.read /\ made' = made /\ View' = v
          /\ Whole(View)' <=> Whole(v)
          /\ \A d : Selects(View, d)' <=> Selects(v, d)
      BY <1>1, <1>7, <3>1 DEF Whole, Selects
    <3>7. /\ mig.view \in 1..Len(Views) /\ (mig.pc # "insert" => mig.read = {})
          /\ (mig.pc = "create" => v \notin made) /\ (mig.pc \in {"select", "insert"} => v \in made)
      BY <2>2, <3>1 DEF AInv, MigInv
    <3> QED
      BY <3>3, <3>4, <3>5, <3>6, <3>7 DEF MigInv
  <2> QED
    BY <2>1, <2>2
<1>11. ActivityInv'
  <2>1. ASSUME NEW d \in Events
        PROVE  (rows'[Activity][d] > 0 => d \in logged') /\ (resent' = 0 => rows'[Activity][d] <= 1)
    <3>1. PICK n \in Nat, m \in Nat : n = rows[Activity][d] /\ m = rows'[Activity][d]
      <4>1. rows[Activity] \in [Events -> 0..MaxCopies] /\ rows'[Activity] \in [Events -> 0..MaxCopies]
        BY <1>1, <1>3 DEF AnalyticsTypeOK, Tables
      <4> QED
        BY <4>1, CopiesNat
    <3>2. (m > 0 => n > 0 \/ d = e) /\ (d # e => m = n) /\ m <= n + 1
      BY <1>3, <3>1 DEF Tables
    <3>3. (n > 0 => d \in logged) /\ (resent = 0 => n <= 1)
      BY <3>1 DEF AInv, ActivityInv
    <3>4. resent' = 0 => m <= 1
      <4>1. CASE d # e
        BY <1>4, <3>2, <3>3, <4>1
      <4>2. CASE d = e
        BY <1>4, <3>1, <3>2, <3>3, <4>2
      <4> QED
        BY <4>1, <4>2
    <3> QED
      BY <1>1, <3>1, <3>2, <3>3, <3>4
  <2> QED
    BY <2>1 DEF ActivityInv
<1> QED
  BY <1>5, <1>6, <1>9, <1>10, <1>11 DEF AInv

MigRecord == [pc : {"check", "exists", "create", "select", "insert", "done"},
              view : 1..(Len(Views) + 1), read : SUBSET Events]

(* A step of Migrate that copies nothing. *)
LEMMA MigrateKeeps ==
    ASSUME AInv, UNCHANGED <<log, rows, filled, logged, purge, lost, resent>>,
           made \subseteq made', made' \subseteq Tables, restarts' \in 0..MaxRestarts, mig' \in MigRecord
    PROVE  AnalyticsTypeOK' /\ LogInv' /\ (\A v \in ViewNames : ViewInv(v)') /\ ActivityInv'
<1>1. AnalyticsTypeOK' /\ LogInv' /\ ActivityInv'
  BY DEF AInv, AnalyticsTypeOK, LogInv, ActivityInv, MigRecord
<1>2. ASSUME NEW v \in ViewNames PROVE ViewInv(v)'
  <2>1. ViewInv(v) /\ (Whole(v)' <=> Whole(v)) /\ \A d : Selects(v, d)' <=> Selects(v, d)
    BY DEF AInv, Whole, Selects
  <2> QED
    BY <2>1 DEF ViewInv
<1> QED
  BY <1>1, <1>2

(* Migrate goes on with the next view, or ends. *)
LEMMA NextViewInv ==
    ASSUME AInv, mig.pc # "done"
    PROVE  /\ NextView \in MigRecord /\ NextView.read = {} /\ NextView.pc \in {"check", "done"}
           /\ NextView.pc # "done" => NextView.view \in 1..Len(Views)
<1>1. PICK n \in 1..Len(Views) : n = mig.view
  BY DEF AInv, MigInv
<1>2. Len(Views) \in Nat
  BY ViewFacts
<1>3. PICK pc \in {"check", "done"} : pc = IF n = Len(Views) THEN "done" ELSE "check"
  BY Zenon
<1>4. PICK x \in MigRecord : x = Starting
  <2>1. 1 \in 1..(Len(Views) + 1)
    BY <1>2
  <2>2. Starting \in MigRecord
    BY <2>1 DEF Starting, MigRecord
  <2> QED
    BY <2>2
<1>5. NextView = [x EXCEPT !.view = n + 1, !.pc = pc]
  BY <1>1, <1>3, <1>4 DEF NextView
<1>6. x.read = {} /\ n + 1 \in 1..(Len(Views) + 1)
  BY <1>2, <1>4 DEF Starting
<1>7. /\ NextView \in MigRecord /\ NextView.read = {} /\ NextView.pc = pc
      /\ NextView.view = n + 1
  BY <1>5, <1>6 DEF MigRecord
<1>8. pc # "done" => n + 1 \in 1..Len(Views)
  BY <1>2, <1>3
<1> QED
  BY <1>7, <1>8

(* A step after which no copy is under way. *)
LEMMA NotCopying ==
    ASSUME mig'.pc \in {"check", "exists", "done"}, mig'.read = {}, mig'.pc # "done" => mig'.view \in 1..Len(Views)
    PROVE  MigInv'
  BY DEF MigInv

(* A view is looked up. *)
LEMMA TableExistsInv == ASSUME AInv, TableExists PROVE AInv'
<1>1. PICK x : x = [mig EXCEPT !.pc = IF View \in made THEN "exists" ELSE "create"]
  OBVIOUS
<1>2. /\ mig \in MigRecord /\ mig.pc = "check" /\ mig.read = {} /\ mig.view \in 1..Len(Views) /\ mig' = x
      /\ UNCHANGED <<log, rows, made, filled, logged, purge, lost, resent, restarts>>
  BY <1>1 DEF TableExists, Migrating, AInv, AnalyticsTypeOK, MigRecord, MigInv
<1>3. /\ x \in MigRecord /\ x.read = {} /\ x.view = mig.view
      /\ x.pc = (IF View \in made THEN "exists" ELSE "create")
  BY <1>1, <1>2 DEF MigRecord
<1>4. AnalyticsTypeOK' /\ LogInv' /\ (\A v \in ViewNames : ViewInv(v)') /\ ActivityInv'
  <2>1. made' \subseteq Tables /\ restarts' \in 0..MaxRestarts
    BY <1>2 DEF AInv, AnalyticsTypeOK
  <2> QED
    BY <1>2, <1>3, <2>1, MigrateKeeps
<1>5. MigInv'
  <2>1. View' = View /\ made' = made /\ mig'.view \in 1..Len(Views)
    BY <1>2, <1>3 DEF View
  <2> QED
    BY <1>2, <1>3, <2>1 DEF MigInv
<1> QED
  BY <1>4, <1>5 DEF AInv

(* A view that exists is left alone. *)
LEMMA SkipViewInv == ASSUME AInv, SkipView PROVE AInv'
<1>1. /\ mig.pc = "exists" /\ mig' = NextView
      /\ UNCHANGED <<log, rows, made, filled, logged, purge, lost, resent, restarts>>
  BY DEF SkipView, Migrating
<1>2. /\ mig' \in MigRecord /\ mig'.read = {} /\ mig'.pc \in {"check", "done"}
      /\ mig'.pc # "done" => mig'.view \in 1..Len(Views)
  BY <1>1, NextViewInv
<1>3. made' \subseteq Tables /\ restarts' \in 0..MaxRestarts
  BY <1>1 DEF AInv, AnalyticsTypeOK
<1> QED
  BY <1>1, <1>2, <1>3, MigrateKeeps, NotCopying DEF AInv

(* A view is created: what was logged before is in the log. *)
LEMMA CreateViewInv == ASSUME AInv, CreateView PROVE AInv'
<1>1. /\ mig \in MigRecord /\ mig.pc = "create" /\ mig.read = {} /\ mig.view \in 1..Len(Views)
      /\ mig' = [mig EXCEPT !.pc = "select"] /\ made' = made \cup {View}
      /\ UNCHANGED <<log, rows, filled, logged, purge, lost, resent, restarts>>
  BY DEF CreateView, Migrating, AInv, AnalyticsTypeOK, MigRecord, MigInv
<1>2. mig' \in MigRecord /\ mig'.pc = "select" /\ mig'.read = {} /\ mig'.view = mig.view
  BY <1>1 DEF MigRecord
<1>3. PICK v \in ViewNames : v = View /\ v = View' /\ v \notin made
  BY <1>1, <1>2, ViewNamed DEF View, AInv, MigInv
<1>4. made' \subseteq Tables /\ restarts' \in 0..MaxRestarts
  BY <1>1, <1>3 DEF AInv, AnalyticsTypeOK, Tables
<1>5. \A e \in logged' \ lost'[v] : log'[e] > 0
  BY <1>1, <1>3 DEF AInv, ViewInv
<1>6. MigInv'
  BY <1>1, <1>2, <1>3, <1>5 DEF MigInv
<1> QED
  BY <1>1, <1>2, <1>4, <1>6, MigrateKeeps DEF AInv

(* The log is read. *)
LEMMA BackfillSelectInv == ASSUME AInv, BackfillSelect PROVE AInv'
<1>1. PICK x : x = [mig EXCEPT !.pc = "insert", !.read = {e \in Events : log[e] > 0 /\ Selects(View, e)}]
  OBVIOUS
<1>2. /\ mig \in MigRecord /\ mig.pc = "select" /\ mig.view \in 1..Len(Views) /\ mig' = x
      /\ UNCHANGED <<log, rows, made, filled, logged, purge, lost, resent, restarts>>
  BY <1>1 DEF BackfillSelect, Migrating, AInv, AnalyticsTypeOK, MigRecord, MigInv
<1>3. PICK v \in ViewNames : v = View /\ v = Views[mig.view]
  BY <1>2, ViewNamed
<1>4. /\ x \in MigRecord /\ x.pc = "insert" /\ x.view = mig.view
      /\ x.read = {e \in Events : log[e] > 0 /\ Selects(v, e)}
  BY <1>1, <1>2, <1>3 DEF MigRecord
<1>5. View' = v /\ (Whole(v)' <=> Whole(v)) /\ \A d : Selects(View, d)' <=> Selects(v, d)
  BY <1>2, <1>3, <1>4 DEF View, Whole, Selects
<1>6. made' \subseteq Tables /\ restarts' \in 0..MaxRestarts
  BY <1>2 DEF AInv, AnalyticsTypeOK
<1>7. \A e \in x.read : e \in logged /\ e \notin lost[v] /\ Selects(v, e)
  <2>1. ASSUME NEW e \in x.read PROVE e \in logged /\ e \notin lost[v] /\ Selects(v, e)
    <3>1. e \in Events /\ log[e] > 0 /\ Selects(v, e) /\ log[e] \in Nat
      BY <1>4, CopiesNat DEF AInv, AnalyticsTypeOK
    <3> QED
      BY <3>1 DEF AInv, LogInv, ViewInv
  <2> QED
    BY <2>1
<1>8. Whole(v) => \A e \in logged \ lost[v] : Selects(v, e) => rows[v][e] > 0 \/ e \in x.read
  <2>1. ASSUME Whole(v), NEW e \in logged \ lost[v], Selects(v, e) PROVE rows[v][e] > 0 \/ e \in x.read
    <3>1. rows[v][e] > 0 \/ log[e] > 0
      BY <1>2, <1>3, <2>1 DEF AInv, MigInv
    <3>2. e \in Events
      BY DEF AInv, AnalyticsTypeOK
    <3> QED
      BY <1>4, <2>1, <3>1, <3>2
  <2> QED
    BY <2>1
<1>9. v \in made /\ mig'.view \in 1..Len(Views)
  BY <1>2, <1>3, <1>4 DEF AInv, MigInv
<1>10. Whole(View)' <=> Whole(v)
  BY <1>2, <1>5 DEF Whole
<1>11. MigInv'
  BY <1>2, <1>4, <1>5, <1>7, <1>8, <1>9, <1>10 DEF MigInv
<1> QED
  BY <1>2, <1>4, <1>6, <1>11, MigrateKeeps DEF AInv

(* What was read is copied: now the view is whole. *)
LEMMA BackfillInsertInv == ASSUME AInv, BackfillInsert PROVE AInv'
<1>1. /\ mig.pc = "insert" /\ mig' = NextView /\ rows' = [rows EXCEPT ![View] = AddCopies(rows[View], mig.read, Most(View))]
      /\ filled' = filled \cup {View} /\ UNCHANGED <<log, made, logged, purge, lost, resent, restarts>>
      /\ AnalyticsTypeOK
  BY DEF BackfillInsert, Migrating, AInv
<1>2. PICK v \in ViewNames : v = View
  BY <1>1, ViewNamed
<1>3. v \in Tables /\ v # Activity /\ v \in made
  BY <1>1, <1>2, ViewFacts DEF Tables, AInv, MigInv
<1>4. /\ mig' \in MigRecord /\ mig'.read = {} /\ mig'.pc \in {"check", "done"}
      /\ mig'.pc # "done" => mig'.view \in 1..Len(Views)
  BY <1>1, NextViewInv
<1>5. rows[v] \in [Events -> 0..MaxCopies] /\ Most(v) \in 1..MaxCopies
  BY <1>1, <1>3, MostBound DEF AnalyticsTypeOK
<1>6. PICK g : g = AddCopies(rows[v], mig.read, Most(v))
  OBVIOUS
<1>7. /\ g \in [Events -> 0..MaxCopies]
      /\ \A d \in Events : g[d] > 0 <=> rows[v][d] > 0 \/ d \in mig.read
  BY <1>5, <1>6, CopiesAdded
<1>8. /\ rows' \in [Tables -> [Events -> 0..MaxCopies]] /\ rows'[v] = g
      /\ \A u \in Tables \ {v} : rows'[u] = rows[u]
  BY <1>1, <1>2, <1>3, <1>6, <1>7 DEF AnalyticsTypeOK
<1>9. AnalyticsTypeOK'
  BY <1>1, <1>2, <1>4, <1>8 DEF AnalyticsTypeOK, MigRecord
<1>10. LogInv' /\ ActivityInv'
  BY <1>1, <1>3, <1>8 DEF AInv, LogInv, ActivityInv, Tables
<1>11. MigInv'
  BY <1>4, NotCopying
<1>12. ASSUME NEW u \in ViewNames PROVE ViewInv(u)'
  <2>1. ViewInv(u) /\ (Whole(u)' <=> Whole(u)) /\ \A d : Selects(u, d)' <=> Selects(u, d)
    BY <1>1 DEF AInv, Whole, Selects
  <2>2. CASE u # v
    <3>1. rows'[u] = rows[u] /\ (u \in filled' <=> u \in filled)
      BY <1>1, <1>2, <1>8, <2>2 DEF Tables
    <3> QED
      BY <1>1, <2>1, <3>1 DEF ViewInv
  <2>3. CASE u = v
    <3>1. \A d \in Events : rows'[v][d] > 0 <=> rows[v][d] > 0 \/ d \in mig.read
      BY <1>7, <1>8
    <3>2. /\ \A e \in mig.read : e \in logged /\ e \notin lost[v] /\ Selects(v, e)
          /\ Whole(v) => \A e \in logged \ lost[v] : Selects(v, e) => rows[v][e] > 0 \/ e \in mig.read
      BY <1>1, <1>2 DEF AInv, MigInv
    <3>3. \A d \in Events : rows'[v][d] > 0 => d \in logged /\ d \notin lost[v] /\ Selects(v, d)
      BY <2>1, <2>3, <3>1, <3>2 DEF ViewInv
    <3>4. Whole(v) => \A d \in logged \ lost[v] : Selects(v, d) => rows'[v][d] > 0
      BY <1>1, <3>1, <3>2 DEF AnalyticsTypeOK
    <3> QED
      BY <1>1, <1>3, <2>1, <2>3, <3>3, <3>4 DEF ViewInv
  <2> QED
    BY <2>2, <2>3
<1> QED
  BY <1>9, <1>10, <1>11, <1>12 DEF AInv

(* Migrate begins again. *)
LEMMA MigrateFailsInv == ASSUME AInv, MigrateFails PROVE AInv'
<1>1. /\ mig' = Starting /\ restarts' = restarts + 1 /\ restarts < MaxRestarts
      /\ UNCHANGED <<log, rows, made, filled, logged, purge, lost, resent>>
  BY DEF MigrateFails, Migrating
<1>2. mig' \in MigRecord /\ mig'.read = {} /\ mig'.pc = "check" /\ mig'.view \in 1..Len(Views)
  BY <1>1, ViewFacts DEF Starting, MigRecord
<1>3. made' \subseteq Tables /\ restarts' \in 0..MaxRestarts
  BY <1>1, AnalyticsBounds DEF AInv, AnalyticsTypeOK
<1> QED
  BY <1>1, <1>2, <1>3, MigrateKeeps, NotCopying DEF AInv

(* The dashboard's view is not one that Migrate fills. *)
LEMMA EnsureViewsInv == ASSUME AInv, EnsureViews PROVE AInv'
<1>1. made' = made \cup {Activity} /\ UNCHANGED <<log, rows, mig, filled, logged, purge, lost, resent, restarts>>
  BY DEF EnsureViews
<1>2. made' \subseteq Tables /\ restarts' \in 0..MaxRestarts /\ mig' \in MigRecord
  BY <1>1 DEF AInv, AnalyticsTypeOK, Tables, MigRecord
<1>3. View' = View /\ View # Activity
  BY <1>1, ViewFacts, ViewNamed DEF View, Activity
<1>4. MigInv'
  <2>1. (Whole(View)' <=> Whole(View)) /\ \A d : Selects(View, d)' <=> Selects(View, d)
    BY <1>1, <1>3 DEF Whole, Selects
  <2> QED
    BY <1>1, <1>3, <2>1 DEF AInv, MigInv
<1> QED
  BY <1>1, <1>2, <1>4, MigrateKeeps DEF AInv

(* The log is purged: what no view has is lost. *)
LEMMA PurgeEventsInv == ASSUME AInv, PurgeEvents PROVE AInv'
<1>1. /\ purge = "none" /\ purge' = "session_metric_rows" /\ log' = NoCopies
      /\ UNCHANGED <<rows, made, mig, filled, logged, resent, restarts>> /\ AnalyticsTypeOK
      /\ \A e \in logged : log[e] > 0
  BY DEF PurgeEvents, AInv, LogInv
<1>2. /\ lost' \in [ViewNames -> SUBSET Events]
      /\ \A v \in ViewNames :
            lost'[v] = {e \in Events : log[e] > 0 /\ rows[v][e] = 0 /\ ~(View = v /\ e \in mig.read)}
  BY DEF PurgeEvents
<1>3. \A e \in Events : log'[e] = 0
  BY <1>1 DEF NoCopies
<1>4. log' \in [Events -> 0..MaxCopies]
  BY <1>1, AnalyticsBounds DEF NoCopies
<1>5. AnalyticsTypeOK'
  BY <1>1, <1>2, <1>4 DEF AnalyticsTypeOK
<1>6. LogInv' /\ ActivityInv'
  BY <1>1, <1>3 DEF AInv, LogInv, ActivityInv
<1>7. ASSUME NEW v \in ViewNames, NEW e \in logged, e \notin lost'[v]
      PROVE  rows[v][e] > 0 \/ (View = v /\ e \in mig.read)
  <2>1. e \in Events /\ log[e] > 0 /\ rows[v][e] \in Nat
    <3>1. rows[v] \in [Events -> 0..MaxCopies] /\ e \in Events
      BY <1>1 DEF AnalyticsTypeOK, Tables
    <3> QED
      BY <1>1, <3>1, CopiesNat
  <2>2. rows[v][e] # 0 \/ (View = v /\ e \in mig.read)
    BY <1>2, <1>7, <2>1
  <2> QED
    BY <2>1, <2>2
<1>8. ASSUME NEW v \in ViewNames PROVE ViewInv(v)'
  <2>1. ViewInv(v) /\ \A d : Selects(v, d)' <=> Selects(v, d)
    BY DEF AInv, Selects
  <2>2. \A e \in Events : rows'[v][e] > 0 => e \in logged' /\ e \notin lost'[v] /\ Selects(v, e)
    <3>1. ASSUME NEW e \in Events, rows[v][e] > 0 PROVE e \in logged /\ e \notin lost'[v] /\ Selects(v, e)
      BY <1>2, <2>1, <3>1 DEF ViewInv
    <3> QED
      BY <1>1, <3>1
  <2>3. \A e \in lost'[v] : log'[e] = 0
    BY <1>2, <1>3
  <2>4. v \notin made => (\A e \in Events : rows'[v][e] = 0) /\ \A e \in logged' \ lost'[v] : log'[e] > 0
    <3>1. SUFFICES ASSUME v \notin made PROVE (\A e \in Events : rows[v][e] = 0) /\ logged \subseteq lost'[v]
      BY <1>1
    <3>2. \A e \in Events : rows[v][e] = 0
      BY <2>1, <3>1 DEF ViewInv
    <3>3. View = v => mig.read = {}
      BY <3>1 DEF AInv, MigInv
    <3>4. logged \subseteq Events
      BY <1>1 DEF AnalyticsTypeOK
    <3> QED
      BY <1>1, <1>2, <3>2, <3>3, <3>4
  <2>5. v \in filled => \A e \in logged' \ lost'[v] : Selects(v, e) => rows'[v][e] > 0
    <3>1. Whole(v) /\ lost[v] = {}
      BY <1>1, <2>1 DEF Whole, ViewInv
    <3> QED
      BY <1>1, <2>1, <3>1 DEF ViewInv
  <2>6. purge' # "none" /\ (v \in filled' => v \in made')
    BY <1>1, <2>1 DEF ViewInv
  <2> QED
    BY <1>1, <2>1, <2>2, <2>3, <2>4, <2>5, <2>6 DEF ViewInv
<1>9. MigInv'
  <2>1. CASE mig.pc \notin {"select", "insert"}
    BY <1>1, <2>1 DEF AInv, MigInv, View
  <2>2. CASE mig.pc \in {"select", "insert"}
    <3>1. PICK v \in ViewNames : v = View
      BY <2>2, ViewNamed
    <3>2. View' = v /\ \A d : Selects(View, d)' <=> Selects(v, d)
      BY <1>1, <3>1 DEF View, Selects
    <3>3. mig.pc = "select" => \A e \in logged \ lost'[v] : rows[v][e] > 0
      BY <1>7 DEF AInv, MigInv
    <3>4. mig.pc = "insert" => \A e \in logged \ lost'[v] : rows[v][e] > 0 \/ e \in mig.read
      BY <1>7
    <3>5. mig.pc = "insert" => \A e \in mig.read : e \in logged /\ e \notin lost'[v] /\ Selects(v, e)
      BY <1>2, <3>1 DEF AInv, MigInv
    <3>6. mig.view \in 1..Len(Views) /\ (mig.pc # "insert" => mig.read = {}) /\ v \in made
      BY <2>2, <3>1 DEF AInv, MigInv
    <3> QED
      BY <1>1, <2>2, <3>2, <3>3, <3>4, <3>5, <3>6 DEF MigInv
  <2> QED
    BY <2>1, <2>2
<1> QED
  BY <1>5, <1>6, <1>8, <1>9 DEF AInv

(* The rows of the session's metrics and of the dashboard are deleted. *)
LEMMA DeleteRowsInv ==
    ASSUME AInv, NEW table \in {"mv_session_metrics", Activity}, NEW from, NEW to, DeleteRows(from, table, to),
           from # "none", to \in {"interview_activity", "done"}
    PROVE  AInv'
<1>1. /\ purge # "none" /\ purge' = to /\ purge' # "none" /\ rows' = [rows EXCEPT ![table] = NoCopies] /\ AnalyticsTypeOK
      /\ UNCHANGED <<log, made, mig, filled, logged, lost, resent, restarts>>
  BY DEF DeleteRows, AInv
<1>2. table \in Tables
  BY ViewFacts DEF Tables
<1>3. NoCopies \in [Events -> 0..MaxCopies] /\ \A e \in Events : NoCopies[e] = 0
  BY AnalyticsBounds DEF NoCopies
<1>4. /\ rows' \in [Tables -> [Events -> 0..MaxCopies]] /\ rows'[table] = NoCopies
      /\ \A u \in Tables \ {table} : rows'[u] = rows[u]
  BY <1>1, <1>2, <1>3 DEF AnalyticsTypeOK
<1>5. AnalyticsTypeOK'
  BY <1>1, <1>4 DEF AnalyticsTypeOK
<1>6. LogInv'
  BY <1>1 DEF AInv, LogInv
<1>7. ActivityInv'
  <2>1. Activity \in Tables
    BY DEF Tables
  <2>2. CASE table = Activity
    BY <1>3, <1>4, <2>2 DEF ActivityInv
  <2>3. CASE table # Activity
    BY <1>1, <1>4, <2>1, <2>3 DEF AInv, ActivityInv
  <2> QED
    BY <2>2, <2>3
<1>8. ASSUME NEW u \in ViewNames, u # "mv_session_metrics" PROVE rows'[u] = rows[u] /\ u # table
  BY <1>4, <1>8, ViewFacts DEF Tables
<1>9. \A u : Whole(u)' => u # "mv_session_metrics" /\ Whole(u)
  BY <1>1 DEF Whole
<1>10. ASSUME NEW u \in ViewNames PROVE ViewInv(u)'
  <2>1. ViewInv(u) /\ \A d : Selects(u, d)' <=> Selects(u, d)
    BY DEF AInv, Selects
  <2>2. CASE rows'[u] = rows[u]
    BY <1>1, <1>9, <2>1, <2>2 DEF ViewInv
  <2>3. CASE rows'[u] # rows[u]
    <3>1. u = "mv_session_metrics" /\ u = table
      BY <1>4, <1>8, <2>3 DEF Tables
    <3>2. \A e \in Events : rows'[u][e] = 0
      BY <1>3, <1>4, <3>1
    <3> QED
      BY <1>1, <1>9, <2>1, <3>1, <3>2 DEF ViewInv
  <2> QED
    BY <2>2, <2>3
<1>11. MigInv'
  <2>1. View' = View /\ \A d : Selects(View, d)' <=> Selects(View, d)
    BY <1>1 DEF View, Selects
  <2>2. ASSUME mig.pc \in {"select", "insert"}, Whole(View)' PROVE Whole(View) /\ rows'[View] = rows[View]
    <3>1. PICK v \in ViewNames : v = View
      BY <2>2, ViewNamed
    <3>2. v # "mv_session_metrics"
      BY <1>1, <2>1, <2>2, <3>1 DEF Whole
    <3> QED
      BY <1>8, <3>1, <3>2 DEF Whole
  <2>3. ASSUME mig.pc = "select", Whole(View)'
        PROVE  \A e \in logged \ lost[View] : Selects(View, e) => rows'[View][e] > 0 \/ log[e] > 0
    BY <2>2, <2>3 DEF AInv, MigInv
  <2>4. ASSUME mig.pc = "insert", Whole(View)'
        PROVE  \A e \in logged \ lost[View] : Selects(View, e) => rows'[View][e] > 0 \/ e \in mig.read
    BY <2>2, <2>4 DEF AInv, MigInv
  <2> QED
    BY <1>1, <2>1, <2>3, <2>4 DEF AInv, MigInv
<1> QED
  BY <1>5, <1>6, <1>7, <1>10, <1>11 DEF AInv

(* At the start nothing is logged. *)
LEMMA InitAnalyticsInv == AnalyticsInit => AInv
<1> SUFFICES ASSUME AnalyticsInit PROVE AInv
  OBVIOUS
<1>1. /\ log = NoCopies /\ rows = [v \in Tables |-> NoCopies] /\ made = {} /\ mig = Starting
      /\ filled = {} /\ logged = {} /\ purge = "none" /\ lost = [v \in ViewNames |-> {}]
      /\ resent = 0 /\ restarts = 0
  BY DEF AnalyticsInit
<1>2. NoCopies \in [Events -> 0..MaxCopies] /\ \A e \in Events : NoCopies[e] = 0
  BY AnalyticsBounds DEF NoCopies
<1>3. mig \in MigRecord /\ mig.read = {} /\ mig.pc = "check" /\ mig.view \in 1..Len(Views)
  BY <1>1, ViewFacts DEF Starting, MigRecord
<1>4. AnalyticsTypeOK
  BY <1>1, <1>2, <1>3, AnalyticsBounds DEF AnalyticsTypeOK, MigRecord
<1>5. LogInv /\ MigInv
  BY <1>1, <1>2, <1>3 DEF LogInv, MigInv
<1>6. \A v \in Tables, e \in Events : rows[v][e] = 0
  BY <1>1, <1>2
<1>7. ActivityInv
  BY <1>6 DEF ActivityInv, Tables
<1>8. \A v \in ViewNames : ViewInv(v)
  BY <1>1, <1>6 DEF ViewInv, Tables
<1> QED
  BY <1>4, <1>5, <1>7, <1>8 DEF AInv

(* No step loses an event, or counts one that was not logged. *)
LEMMA StepAnalyticsInv == AInv /\ [AnalyticsNext]_analyticsVars => AInv'
<1> SUFFICES ASSUME AInv, [AnalyticsNext]_analyticsVars PROVE AInv'
  OBVIOUS
<1>1. ASSUME NEW e \in Events, Insert(e) PROVE AInv'
  BY <1>1, InsertInv
<1>2. CASE PurgeRows
  BY <1>2, DeleteRowsInv DEF PurgeRows
<1>3. CASE PurgeActivity
  BY <1>3, DeleteRowsInv DEF PurgeActivity
<1>4. CASE UNCHANGED analyticsVars
  <2>1. made' \subseteq Tables /\ restarts' \in 0..MaxRestarts /\ mig' \in MigRecord
    BY <1>4 DEF analyticsVars, AInv, AnalyticsTypeOK, MigRecord
  <2>2. View' = View /\ (Whole(View)' <=> Whole(View)) /\ \A d : Selects(View, d)' <=> Selects(View, d)
    BY <1>4 DEF analyticsVars, View, Whole, Selects
  <2>3. MigInv'
    BY <1>4, <2>2 DEF analyticsVars, AInv, MigInv
  <2> QED
    BY <1>4, <2>1, <2>3, MigrateKeeps DEF AInv, analyticsVars
<1> QED
  BY <1>1, <1>2, <1>3, <1>4, TableExistsInv, SkipViewInv, CreateViewInv, BackfillSelectInv, BackfillInsertInv,
     MigrateFailsInv, EnsureViewsInv, PurgeEventsInv DEF AnalyticsNext

(* Every variable keeps its type. *)
THEOREM AnalyticsTyped == AnalyticsSpec => []AnalyticsTypeOK
<1>1. AInv => AnalyticsTypeOK
  BY DEF AInv
<1> QED
  BY <1>1, InitAnalyticsInv, StepAnalyticsInv, PTL DEF AnalyticsSpec

(* The invariant of every theorem about Analytics. *)
LEMMA AnalyticsInvariant == AnalyticsSpec => []AInv
  BY InitAnalyticsInv, StepAnalyticsInv, PTL DEF AnalyticsSpec

(* A view that was backfilled has what was logged and not lost. *)
LEMMA Counted ==
    ASSUME AInv, NEW v \in ViewNames, v \in filled, Whole(v), NEW e \in Events
    PROVE  rows[v][e] \in Nat /\ (rows[v][e] > 0 <=> e \in logged \ lost[v] /\ Selects(v, e))
<1>1. rows[v] \in [Events -> 0..MaxCopies]
  BY DEF AInv, AnalyticsTypeOK, Tables
<1>2. rows[v][e] \in Nat
  BY <1>1, CopiesNat
<1> QED
  BY <1>2 DEF AInv, ViewInv

(* An event that is not billable adds nothing to the usage. *)
LEMMA NotBilled ==
    ASSUME NEW e \in Events, ~Selects("mv_billing_usage", e), NEW k \in {"sessions", "input", "output", "runs"}
    PROVE  BillingRow(e)[k] = 0
<1>1. EventOf[e].type \notin BillableTypes
  BY DEF Selects, Activity
<1>2. EventOf[e].input \in Nat /\ EventOf[e].output \in Nat
  BY EventsAssumption DEF EventRecord
<1>3. BillingRow(e) = [sessions |-> 0, runs |-> 0, input |-> 0 * EventOf[e].input, output |-> 0 * EventOf[e].output]
  BY <1>1 DEF BillingRow, One, BillableTypes
<1> QED
  BY <1>2, <1>3

(* Once a view is backfilled, everything that was logged and not lost is   *)
(* counted once, although events are redelivered, backfills overlap        *)
(* inserts, migrations fail half way and interviews are purged.            *)
THEOREM CountedOnce == AnalyticsSpec => []EventsCountedOnce
<1>1. ASSUME AInv PROVE EventsCountedOnce
  <2> DEFINE kept(v) == logged \ lost[v]
             counted(v) == {e \in Events : rows[v][e] > 0}
             of(v, S) == {e \in S : Selects(v, e)}
  <2>1. ASSUME NEW v \in {"mv_task_daily", "mv_funnel", "mv_billing_usage"}, v \in filled
        PROVE  /\ v \in ViewNames /\ Whole(v) /\ counted(v) = of(v, kept(v))
    <3>1. v \in ViewNames /\ Whole(v) /\ logged \subseteq Events
      BY <1>1, <2>1 DEF AInv, AnalyticsTypeOK, Whole
    <3>2. \A e \in Events : rows[v][e] > 0 <=> e \in logged \ lost[v] /\ Selects(v, e)
      BY <1>1, <2>1, <3>1, Counted
    <3> QED
      BY <3>1, <3>2
  <2>2. ASSUME "mv_billing_usage" \in filled, NEW p \in Months
        PROVE  BillingUsage(p) = UsageOf(p, [e \in Events |-> One(e \in kept("mv_billing_usage"))])
    <3> DEFINE f == [e \in Events |-> Final("mv_billing_usage", e)]
               g == [e \in Events |-> One(e \in kept("mv_billing_usage"))]
               S == {d \in Events : EventOf[d].period = p}
    <3>1. ASSUME NEW e \in Events, NEW k \in {"sessions", "input", "output", "runs"}
          PROVE  f[e] * BillingRow(e)[k] = g[e] * BillingRow(e)[k]
      <4>1. CASE Selects("mv_billing_usage", e)
        <5>1. rows["mv_billing_usage"][e] > 0 <=> e \in kept("mv_billing_usage")
          BY <1>1, <2>1, <2>2, <4>1, Counted
        <5>2. f[e] = g[e]
          BY <5>1 DEF Final, One
        <5> QED
          BY <5>2
      <4>2. CASE ~Selects("mv_billing_usage", e)
        <5>1. BillingRow(e)[k] = 0
          BY <4>2, NotBilled
        <5>2. f[e] \in Nat /\ g[e] \in Nat
          BY DEF Final, One
        <5> HIDE DEF f, g
        <5>3. f[e] * 0 = 0 /\ g[e] * 0 = 0
          BY <5>2
        <5> QED
          BY <5>1, <5>3
      <4> QED
        BY <4>1, <4>2
    <3> HIDE DEF f, g
    <3>2. ASSUME NEW k \in {"sessions", "input", "output", "runs"}
          PROVE  [e \in S |-> f[e] * BillingRow(e)[k]] = [e \in S |-> g[e] * BillingRow(e)[k]]
      BY <3>1
    <3>3. UsageOf(p, f) = UsageOf(p, g)
      BY <3>2 DEF UsageOf
    <3> QED
      BY <3>3 DEF BillingUsage, f, g
  <2> QED
    BY <2>1, <2>2 DEF EventsCountedOnce
<1> QED
  BY <1>1, AnalyticsInvariant, PTL

-----------------------------------------------------------------------------
(* Analytics: the two readers of a session's metrics.                      *)

(* Two sums that differ in one term. *)
LEMMA SumChange ==
    ASSUME NEW f, NEW g, Amounts(f), Amounts(g), DOMAIN f = DOMAIN g, NEW x \in DOMAIN f,
           \A y \in DOMAIN f \ {x} : f[y] = g[y]
    PROVE  SumFunction(g) + f[x] = SumFunction(f) + g[x]
<1> DEFINE rest == [y \in DOMAIN f \ {x} |-> f[y]]
<1>1. rest = [y \in DOMAIN g \ {x} |-> g[y]]
  OBVIOUS
<1>2. Amounts(rest) /\ SumFunction(f) = f[x] + SumFunction(rest)
  BY SumTake
<1>3. SumFunction(g) = g[x] + SumFunction(rest)
  <2>1. x \in DOMAIN g
    OBVIOUS
  <2>2. SumFunction(g) = g[x] + SumFunction([y \in DOMAIN g \ {x} |-> g[y]])
    BY <2>1, SumTake
  <2> HIDE DEF rest
  <2> QED
    BY <1>1, <2>2
<1>4. SumFunction(rest) \in Nat /\ f[x] \in Nat /\ g[x] \in Nat
  BY <1>2, SumNat DEF Amounts
<1> HIDE DEF rest
<1> QED
  BY <1>2, <1>3, <1>4

SeqRank(S, e) == Cardinality({d \in S : EventOf[d].seq < EventOf[e].seq})

(* An event's place is the number of events before it. *)
LEMMA SeqRankOrder ==
    ASSUME NEW S \in SUBSET Events, NEW e \in S, NEW d \in S
    PROVE  /\ SeqRank(S, e) \in 0..(Cardinality(S) - 1)
           /\ SeqRank(S, d) < SeqRank(S, e) <=> EventOf[d].seq < EventOf[e].seq
           /\ SeqRank(S, d) = SeqRank(S, e) => d = e
<1> DEFINE Less(x) == {l \in S : EventOf[l].seq < EventOf[x].seq}
<1>1. IsFiniteSet(S) /\ Cardinality(S) \in Nat
  BY EventsAssumption, FS_Subset, FS_CardinalityType
<1>2. \A x \in S : EventOf[x].seq \in Nat
  BY EventsAssumption DEF EventRecord
<1>3. ASSUME NEW x \in S
      PROVE  IsFiniteSet(Less(x)) /\ Cardinality(Less(x)) \in Nat /\ Cardinality(Less(x)) < Cardinality(S)
  <2>1. x \notin Less(x)
    BY <1>2
  <2>2. Less(x) \in SUBSET S /\ Less(x) # S
    BY <2>1
  <2> HIDE DEF Less
  <2>3. IsFiniteSet(Less(x)) /\ Cardinality(Less(x)) <= Cardinality(S) /\ Cardinality(Less(x)) # Cardinality(S)
    BY <1>1, <2>2, FS_Subset
  <2> QED
    BY <1>1, <2>3, FS_CardinalityType
<1>4. ASSUME NEW x \in S, NEW y \in S, EventOf[x].seq < EventOf[y].seq PROVE SeqRank(S, x) < SeqRank(S, y)
  <2>1. x \in Less(y) /\ x \notin Less(x)
    BY <1>2, <1>4
  <2>2. Less(x) \subseteq Less(y)
    BY <1>2, <1>4
  <2>3. Less(x) \in SUBSET Less(y) /\ Less(x) # Less(y)
    <3> HIDE DEF Less
    <3> QED
      BY <2>1, <2>2
  <2>4. IsFiniteSet(Less(y)) /\ Cardinality(Less(x)) \in Nat /\ Cardinality(Less(y)) \in Nat
    BY <1>3
  <2>5. SeqRank(S, x) = Cardinality(Less(x)) /\ SeqRank(S, y) = Cardinality(Less(y))
    BY DEF SeqRank
  <2> HIDE DEF Less
  <2>6. Cardinality(Less(x)) <= Cardinality(Less(y)) /\ Cardinality(Less(x)) # Cardinality(Less(y))
    BY <2>3, <2>4, FS_Subset
  <2> QED
    BY <2>4, <2>5, <2>6
<1>5. \A x \in S : SeqRank(S, x) = Cardinality(Less(x))
  BY DEF SeqRank
<1> HIDE DEF Less
<1>6. SeqRank(S, e) \in Nat /\ SeqRank(S, d) \in Nat /\ SeqRank(S, e) < Cardinality(S)
  BY <1>3, <1>5
<1>7. d # e => EventOf[d].seq < EventOf[e].seq \/ EventOf[e].seq < EventOf[d].seq
  <2>1. EventOf[d].seq = EventOf[e].seq => d = e
    BY EventsAssumption
  <2>2. EventOf[d].seq \in Nat /\ EventOf[e].seq \in Nat
    BY <1>2
  <2> QED
    BY <2>1, <2>2
<1>8. /\ EventOf[d].seq < EventOf[e].seq => SeqRank(S, d) < SeqRank(S, e)
      /\ EventOf[e].seq < EventOf[d].seq => SeqRank(S, e) < SeqRank(S, d)
  BY <1>4
<1>9. d = e => ~(EventOf[d].seq < EventOf[e].seq)
  BY <1>2
<1> QED
  BY <1>1, <1>6, <1>7, <1>8, <1>9

(* InSequence lists a set of events, in the order of their numbers. *)
LEMMA SequenceLists ==
    ASSUME NEW S \in SUBSET Events
    PROVE  LET s == InSequence(S) IN
           /\ s \in Seq(S) /\ Range(s) = S
           /\ \A i, j \in 1..Len(s) : i < j => EventOf[s[i]].seq < EventOf[s[j]].seq
<1> DEFINE c == Cardinality(S)
           s == InSequence(S)
<1>1. IsFiniteSet(S) /\ c \in Nat
  BY EventsAssumption, FS_Subset, FS_CardinalityType
<1>2. \A n \in 1..c : \E e \in S : SeqRank(S, e) = n - 1
  <2> DEFINE f == [e \in S |-> SeqRank(S, e) + 1]
  <2>1. f \in [S -> 1..c]
    <3>1. ASSUME NEW e \in S PROVE SeqRank(S, e) + 1 \in 1..c
      <4>1. SeqRank(S, e) \in 0..(c - 1)
        BY SeqRankOrder
      <4> QED
        BY <1>1, <4>1
    <3> QED
      BY <3>1
  <2>2. \A d, e \in S : f[d] = f[e] => d = e
    <3>1. ASSUME NEW d \in S, NEW e \in S, f[d] = f[e] PROVE d = e
      <4>1. SeqRank(S, d) \in 0..(c - 1) /\ SeqRank(S, e) \in 0..(c - 1)
        BY SeqRankOrder
      <4>2. SeqRank(S, d) = SeqRank(S, e)
        BY <1>1, <3>1, <4>1
      <4> QED
        BY <4>2, SeqRankOrder
    <3> QED
      BY <3>1
  <2>3. f \in Injection(S, 1..c)
    BY <2>1, <2>2 DEF Injection, IsInjective
  <2>4. IsFiniteSet(1..c) /\ Cardinality(1..c) = c
    BY <1>1, FS_Interval
  <2>5. f \in Surjection(S, 1..c)
    BY <1>1, <2>3, <2>4, FS_Injection
  <2>6. ASSUME NEW n \in 1..c PROVE \E e \in S : SeqRank(S, e) = n - 1
    <3>1. PICK e \in S : f[e] = n
      BY <2>5 DEF Surjection
    <3>2. SeqRank(S, e) \in 0..(c - 1) /\ SeqRank(S, e) + 1 = n
      BY <3>1, SeqRankOrder
    <3>3. SeqRank(S, e) = n - 1
      BY <1>1, <3>2
    <3> QED
      BY <3>3
  <2> QED
    BY <2>6
<1>3. s = [n \in 1..c |-> CHOOSE e \in S : SeqRank(S, e) = n - 1]
  BY DEF InSequence, SeqRank
<1>4. ASSUME NEW n \in 1..c PROVE s[n] \in S /\ SeqRank(S, s[n]) = n - 1
  <2>1. s[n] = CHOOSE e \in S : SeqRank(S, e) = n - 1
    BY <1>3
  <2>2. \E e \in S : SeqRank(S, e) = n - 1
    BY <1>2
  <2> HIDE DEF s
  <2> QED
    BY <2>1, <2>2
<1>5. s = [n \in 1..c |-> s[n]]
  BY <1>3
<1> HIDE DEF s, c
<1>6. s \in Seq(S) /\ Len(s) = c /\ DOMAIN s = 1..c
  BY <1>1, <1>4, <1>5
<1>7. ASSUME NEW e \in S PROVE \E n \in 1..c : s[n] = e
  <2>1. PICK r \in 0..(c - 1) : r = SeqRank(S, e)
    BY SeqRankOrder DEF c
  <2>2. r + 1 \in 1..c /\ (r + 1) - 1 = r
    BY <1>1
  <2>3. s[r + 1] \in S /\ SeqRank(S, s[r + 1]) = r
    BY <1>4, <2>2
  <2>4. s[r + 1] = e
    BY <2>1, <2>3, SeqRankOrder
  <2> QED
    BY <2>2, <2>4
<1>8. Range(s) = S
  BY <1>4, <1>6, <1>7 DEF Range
<1>9. ASSUME NEW i \in 1..c, NEW j \in 1..c, i < j PROVE EventOf[s[i]].seq < EventOf[s[j]].seq
  <2>1. SeqRank(S, s[i]) < SeqRank(S, s[j])
    BY <1>1, <1>4, <1>9
  <2> QED
    BY <1>4, <2>1, SeqRankOrder
<1> QED
  BY <1>6, <1>8, <1>9 DEF s

Metrics == {"prompts", "responses", "errors", "input", "output", "runs", "succeeded",
            "diffs", "applied", "added", "removed", "aiAdded"}

(* What the events of a set add up to, and the last run among them. *)
MetricTerms(S, k) == [e \in Events |-> One(e \in S) * MetricRow(e)[k]]
MetricSum(S, k) == SumFunction(MetricTerms(S, k))
Runs(S) == {e \in S : EventOf[e].type = "execution.completed"}
LastOf(R) == CHOOSE e \in R : \A d \in R : EventOf[d].seq <= EventOf[e].seq
StatusOf(R) == IF R = {} THEN "" ELSE EventOf[LastOf(R)].status

Tally(S, active, firstRun) ==
    [prompts |-> MetricSum(S, "prompts"), responses |-> MetricSum(S, "responses"), errors |-> MetricSum(S, "errors"),
     input |-> MetricSum(S, "input"), output |-> MetricSum(S, "output"),
     runs |-> MetricSum(S, "runs"), succeeded |-> MetricSum(S, "succeeded"), last |-> StatusOf(Runs(S)),
     diffs |-> MetricSum(S, "diffs"), applied |-> MetricSum(S, "applied"),
     added |-> MetricSum(S, "added"), removed |-> MetricSum(S, "removed"), aiAdded |-> MetricSum(S, "aiAdded"),
     active |-> active, firstRun |-> firstRun]

(* What each kind of event adds. *)
LEMMA RowOf ==
    ASSUME NEW e \in Events
    PROVE  LET x == EventOf[e]
               row == MetricRow(e)
               nothing(keys) == \A k \in Metrics \ keys : row[k] = 0
           IN /\ \A k \in Metrics : row[k] \in Nat
              /\ x.type = "prompt.submitted" => row.prompts = 1 /\ nothing({"prompts"})
              /\ x.type = "ai.response.completed" =>
                    /\ row.responses = 1 /\ row.errors = One(x.status = "error")
                    /\ row.input = x.input /\ row.output = x.output
                    /\ nothing({"responses", "errors", "input", "output"})
              /\ x.type = "execution.completed" =>
                    row.runs = 1 /\ row.succeeded = One(x.status = "succeeded") /\ nothing({"runs", "succeeded"})
              /\ x.type = "code.diff" =>
                    /\ row.diffs = 1 /\ row.applied = One(x.origin = "ai_applied")
                    /\ row.added = x.added /\ row.removed = x.removed
                    /\ row.aiAdded = One(x.origin = "ai_applied") * x.added
                    /\ nothing({"diffs", "applied", "added", "removed", "aiAdded"})
              /\ x.type \notin {"prompt.submitted", "ai.response.completed", "execution.completed", "code.diff"} =>
                    nothing({})
<1>1. PICK i \in Nat, o \in Nat, a \in Nat, r \in Nat :
         EventOf[e].input = i /\ EventOf[e].output = o /\ EventOf[e].added = a /\ EventOf[e].removed = r
  BY EventsAssumption DEF EventRecord
<1>2. \A b : One(b) \in {0, 1}
  BY DEF One
<1>3. \A n \in Nat : 0 * n = 0 /\ 1 * n = n
  OBVIOUS
<1>4. CASE EventOf[e].type = "prompt.submitted"
  BY <1>1, <1>3, <1>4 DEF MetricRow, One, Metrics
<1>5. CASE EventOf[e].type = "ai.response.completed"
  BY <1>1, <1>3, <1>5 DEF MetricRow, One, Metrics
<1>6. CASE EventOf[e].type = "execution.completed"
  BY <1>1, <1>3, <1>6 DEF MetricRow, One, Metrics
<1>7. CASE EventOf[e].type = "code.diff"
  BY <1>1, <1>3, <1>7 DEF MetricRow, One, Metrics
<1>8. CASE EventOf[e].type \notin {"prompt.submitted", "ai.response.completed", "execution.completed", "code.diff"}
  BY <1>1, <1>3, <1>8 DEF MetricRow, One, Metrics
<1> QED
  BY <1>4, <1>5, <1>6, <1>7, <1>8

(* The terms of a metric are naturals. *)
LEMMA TermsNat ==
    ASSUME NEW S, NEW k \in Metrics
    PROVE  Amounts(MetricTerms(S, k)) /\ DOMAIN MetricTerms(S, k) = Events /\ MetricSum(S, k) \in Nat
<1>1. ASSUME NEW e \in Events PROVE One(e \in S) * MetricRow(e)[k] \in Nat
  <2>1. PICK n \in Nat : n = MetricRow(e)[k]
    BY RowOf
  <2>2. One(e \in S) \in {0, 1}
    BY DEF One
  <2> QED
    BY <2>1, <2>2
<1>2. Amounts(MetricTerms(S, k)) /\ DOMAIN MetricTerms(S, k) = Events
  BY <1>1, EventsAssumption DEF Amounts, MetricTerms
<1> QED
  BY <1>2, SumNat DEF MetricSum

(* An event adds its row. *)
LEMMA SumGrows ==
    ASSUME NEW S, NEW e \in Events, e \notin S, NEW k \in Metrics
    PROVE  MetricSum(S \cup {e}, k) = MetricSum(S, k) + MetricRow(e)[k]
<1> DEFINE f == MetricTerms(S, k)
           g == MetricTerms(S \cup {e}, k)
<1>1. PICK n \in Nat : n = MetricRow(e)[k]
  BY RowOf
<1>2. f[e] = 0 /\ g[e] = n
  <2>1. f[e] = One(e \in S) * n /\ g[e] = One(e \in S \cup {e}) * n
    BY <1>1 DEF MetricTerms
  <2>2. One(e \in S) = 0 /\ One(e \in S \cup {e}) = 1
    BY DEF One
  <2>3. 0 * n = 0 /\ 1 * n = n
    OBVIOUS
  <2> QED
    BY <2>1, <2>2, <2>3
<1>3. \A d \in Events \ {e} : f[d] = g[d]
  <2>1. \A d \in Events \ {e} : One(d \in S) = One(d \in S \cup {e})
    BY DEF One
  <2> QED
    BY <2>1 DEF MetricTerms
<1>4. Amounts(f) /\ Amounts(g) /\ DOMAIN f = Events /\ DOMAIN g = Events
  BY TermsNat
<1>5. SumFunction(f) \in Nat /\ SumFunction(g) \in Nat
  BY TermsNat DEF MetricSum
<1> HIDE DEF f, g
<1>6. SumFunction(g) + f[e] = SumFunction(f) + g[e]
  BY <1>3, <1>4, SumChange
<1>7. SumFunction(g) = SumFunction(f) + n
  BY <1>2, <1>5, <1>6
<1> QED
  BY <1>1, <1>7 DEF MetricSum, f, g

(* Compute's loop counts an event that comes after those it has counted. *)
LEMMA CountGrows ==
    ASSUME NEW S \in SUBSET Events, NEW e \in Events, \A d \in S : EventOf[d].seq < EventOf[e].seq,
           NEW a, NEW b
    PROVE  CountEvent(Tally(S, a, b), e) = Tally(S \cup {e}, a, b)
<1> DEFINE x == EventOf[e]
           T == S \cup {e}
<1>1. x.seq \in Nat /\ \A d \in Events : EventOf[d].seq \in Nat
  BY EventsAssumption DEF EventRecord
<1>2. e \notin S
  BY <1>1
<1>3. \A k \in Metrics : MetricSum(T, k) = MetricSum(S, k) + MetricRow(e)[k] /\ MetricSum(S, k) \in Nat
  BY <1>2, SumGrows, TermsNat
<1>4. ASSUME NEW k \in Metrics, MetricRow(e)[k] = 0 PROVE MetricSum(T, k) = MetricSum(S, k)
  <2>1. PICK n \in Nat : n = MetricSum(S, k)
    BY <1>3
  <2>2. MetricSum(T, k) = n + 0
    BY <1>3, <1>4, <2>1
  <2> QED
    BY <2>1, <2>2
<1>5. CASE x.type = "prompt.submitted"
  <2>1. /\ MetricRow(e).prompts = 1
          /\ \A k \in Metrics \ {"prompts"} : MetricRow(e)[k] = 0
    BY <1>5, RowOf
  <2>2. CountEvent(Tally(S, a, b), e) =
          [prompts |-> MetricSum(S, "prompts") + 1, responses |-> MetricSum(S, "responses"),
           errors |-> MetricSum(S, "errors"), input |-> MetricSum(S, "input"),
           output |-> MetricSum(S, "output"), runs |-> MetricSum(S, "runs"),
           succeeded |-> MetricSum(S, "succeeded"), last |-> StatusOf(Runs(S)),
           diffs |-> MetricSum(S, "diffs"), applied |-> MetricSum(S, "applied"),
           added |-> MetricSum(S, "added"), removed |-> MetricSum(S, "removed"),
           aiAdded |-> MetricSum(S, "aiAdded"), active |-> a, firstRun |-> b]
    BY <1>5 DEF CountEvent, Tally
  <2>3. Runs(T) = Runs(S)
    BY <1>5 DEF Runs
  <2> HIDE DEF T, x
  <2>4. /\ MetricSum(T, "prompts") = MetricSum(S, "prompts") + 1
        /\ MetricSum(T, "responses") = MetricSum(S, "responses")
        /\ MetricSum(T, "errors") = MetricSum(S, "errors")
        /\ MetricSum(T, "input") = MetricSum(S, "input")
        /\ MetricSum(T, "output") = MetricSum(S, "output")
        /\ MetricSum(T, "runs") = MetricSum(S, "runs")
        /\ MetricSum(T, "succeeded") = MetricSum(S, "succeeded")
        /\ MetricSum(T, "diffs") = MetricSum(S, "diffs")
        /\ MetricSum(T, "applied") = MetricSum(S, "applied")
        /\ MetricSum(T, "added") = MetricSum(S, "added")
        /\ MetricSum(T, "removed") = MetricSum(S, "removed")
        /\ MetricSum(T, "aiAdded") = MetricSum(S, "aiAdded")
    BY <1>3, <1>4, <2>1 DEF Metrics
  <2>5. CountEvent(Tally(S, a, b), e) = Tally(T, a, b)
    BY <2>2, <2>3, <2>4 DEF Tally
  <2> QED
    BY <2>5 DEF T
<1>6. CASE x.type = "ai.response.completed"
  <2>1. /\ MetricRow(e).responses = 1 /\ MetricRow(e).errors = One(x.status = "error")
          /\ MetricRow(e).input = x.input /\ MetricRow(e).output = x.output
          /\ \A k \in Metrics \ {"responses", "errors", "input", "output"} : MetricRow(e)[k] = 0
    BY <1>6, RowOf
  <2>2. CountEvent(Tally(S, a, b), e) =
          [prompts |-> MetricSum(S, "prompts"), responses |-> MetricSum(S, "responses") + 1,
           errors |-> MetricSum(S, "errors") + One(x.status = "error"),
           input |-> MetricSum(S, "input") + x.input,
           output |-> MetricSum(S, "output") + x.output, runs |-> MetricSum(S, "runs"),
           succeeded |-> MetricSum(S, "succeeded"), last |-> StatusOf(Runs(S)),
           diffs |-> MetricSum(S, "diffs"), applied |-> MetricSum(S, "applied"),
           added |-> MetricSum(S, "added"), removed |-> MetricSum(S, "removed"),
           aiAdded |-> MetricSum(S, "aiAdded"), active |-> a, firstRun |-> b]
    BY <1>6 DEF CountEvent, Tally
  <2>3. Runs(T) = Runs(S)
    BY <1>6 DEF Runs
  <2> HIDE DEF T, x
  <2>4. /\ MetricSum(T, "prompts") = MetricSum(S, "prompts")
        /\ MetricSum(T, "responses") = MetricSum(S, "responses") + 1
        /\ MetricSum(T, "errors") = MetricSum(S, "errors") + One(x.status = "error")
        /\ MetricSum(T, "input") = MetricSum(S, "input") + x.input
        /\ MetricSum(T, "output") = MetricSum(S, "output") + x.output
        /\ MetricSum(T, "runs") = MetricSum(S, "runs")
        /\ MetricSum(T, "succeeded") = MetricSum(S, "succeeded")
        /\ MetricSum(T, "diffs") = MetricSum(S, "diffs")
        /\ MetricSum(T, "applied") = MetricSum(S, "applied")
        /\ MetricSum(T, "added") = MetricSum(S, "added")
        /\ MetricSum(T, "removed") = MetricSum(S, "removed")
        /\ MetricSum(T, "aiAdded") = MetricSum(S, "aiAdded")
    BY <1>3, <1>4, <2>1 DEF Metrics
  <2>5. CountEvent(Tally(S, a, b), e) = Tally(T, a, b)
    BY <2>2, <2>3, <2>4 DEF Tally
  <2> QED
    BY <2>5 DEF T
<1>7. CASE x.type = "code.diff"
  <2>1. /\ MetricRow(e).diffs = 1 /\ MetricRow(e).applied = One(x.origin = "ai_applied")
          /\ MetricRow(e).added = x.added /\ MetricRow(e).removed = x.removed
          /\ MetricRow(e).aiAdded = One(x.origin = "ai_applied") * x.added
          /\ \A k \in Metrics \ {"diffs", "applied", "added", "removed", "aiAdded"} : MetricRow(e)[k] = 0
    BY <1>7, RowOf
  <2>2. CountEvent(Tally(S, a, b), e) =
          [prompts |-> MetricSum(S, "prompts"), responses |-> MetricSum(S, "responses"),
           errors |-> MetricSum(S, "errors"), input |-> MetricSum(S, "input"),
           output |-> MetricSum(S, "output"), runs |-> MetricSum(S, "runs"),
           succeeded |-> MetricSum(S, "succeeded"), last |-> StatusOf(Runs(S)),
           diffs |-> MetricSum(S, "diffs") + 1,
           applied |-> MetricSum(S, "applied") + One(x.origin = "ai_applied"),
           added |-> MetricSum(S, "added") + x.added,
           removed |-> MetricSum(S, "removed") + x.removed,
           aiAdded |-> MetricSum(S, "aiAdded") + One(x.origin = "ai_applied") * x.added,
           active |-> a, firstRun |-> b]
    BY <1>7 DEF CountEvent, Tally
  <2>3. Runs(T) = Runs(S)
    BY <1>7 DEF Runs
  <2> HIDE DEF T, x
  <2>4. /\ MetricSum(T, "prompts") = MetricSum(S, "prompts")
        /\ MetricSum(T, "responses") = MetricSum(S, "responses")
        /\ MetricSum(T, "errors") = MetricSum(S, "errors")
        /\ MetricSum(T, "input") = MetricSum(S, "input")
        /\ MetricSum(T, "output") = MetricSum(S, "output")
        /\ MetricSum(T, "runs") = MetricSum(S, "runs")
        /\ MetricSum(T, "succeeded") = MetricSum(S, "succeeded")
        /\ MetricSum(T, "diffs") = MetricSum(S, "diffs") + 1
        /\ MetricSum(T, "applied") = MetricSum(S, "applied") + One(x.origin = "ai_applied")
        /\ MetricSum(T, "added") = MetricSum(S, "added") + x.added
        /\ MetricSum(T, "removed") = MetricSum(S, "removed") + x.removed
        /\ MetricSum(T, "aiAdded") = MetricSum(S, "aiAdded") + One(x.origin = "ai_applied") * x.added
    BY <1>3, <1>4, <2>1 DEF Metrics
  <2>5. CountEvent(Tally(S, a, b), e) = Tally(T, a, b)
    BY <2>2, <2>3, <2>4 DEF Tally
  <2> QED
    BY <2>5 DEF T
<1>8. CASE x.type = "execution.completed"
  <2>1. /\ MetricRow(e).runs = 1 /\ MetricRow(e).succeeded = One(x.status = "succeeded")
          /\ \A k \in Metrics \ {"runs", "succeeded"} : MetricRow(e)[k] = 0
    BY <1>8, RowOf
  <2>2. CountEvent(Tally(S, a, b), e) =
          [prompts |-> MetricSum(S, "prompts"), responses |-> MetricSum(S, "responses"),
           errors |-> MetricSum(S, "errors"), input |-> MetricSum(S, "input"),
           output |-> MetricSum(S, "output"), runs |-> MetricSum(S, "runs") + 1,
           succeeded |-> MetricSum(S, "succeeded") + One(x.status = "succeeded"),
           last |-> x.status, diffs |-> MetricSum(S, "diffs"),
           applied |-> MetricSum(S, "applied"), added |-> MetricSum(S, "added"),
           removed |-> MetricSum(S, "removed"), aiAdded |-> MetricSum(S, "aiAdded"),
           active |-> a, firstRun |-> b]
    BY <1>8 DEF CountEvent, Tally
  <2>3. StatusOf(Runs(T)) = x.status
    <3>1. e \in Runs(T) /\ \A d \in Runs(T) : EventOf[d].seq <= x.seq /\ (d # e => EventOf[d].seq < x.seq)
      BY <1>1, <1>8 DEF Runs
    <3>2. Runs(T) \subseteq Events
      BY DEF Runs
    <3>3. PICK R \in SUBSET Events : R = Runs(T)
      BY <3>2
    <3>4. LastOf(R) = e
      <4>1. e \in R /\ \A d \in R : EventOf[d].seq <= EventOf[e].seq
        BY <3>1, <3>3
      <4>2. LastOf(R) \in R /\ \A d \in R : EventOf[d].seq <= EventOf[LastOf(R)].seq
        BY <4>1 DEF LastOf
      <4>3. PICK l \in R : l = LastOf(R)
        BY <4>2
      <4>4. x.seq <= EventOf[l].seq /\ l \in Events
        BY <4>1, <4>2, <4>3
      <4>5. EventOf[l].seq \in Nat /\ (l # e => EventOf[l].seq < x.seq)
        BY <1>1, <3>1, <3>3, <4>4
      <4> QED
        BY <1>1, <4>3, <4>4, <4>5
    <3> QED
      BY <3>1, <3>3, <3>4 DEF StatusOf
  <2> HIDE DEF T, x
  <2>4. /\ MetricSum(T, "prompts") = MetricSum(S, "prompts")
        /\ MetricSum(T, "responses") = MetricSum(S, "responses")
        /\ MetricSum(T, "errors") = MetricSum(S, "errors")
        /\ MetricSum(T, "input") = MetricSum(S, "input")
        /\ MetricSum(T, "output") = MetricSum(S, "output")
        /\ MetricSum(T, "runs") = MetricSum(S, "runs") + 1
        /\ MetricSum(T, "succeeded") = MetricSum(S, "succeeded") + One(x.status = "succeeded")
        /\ MetricSum(T, "diffs") = MetricSum(S, "diffs")
        /\ MetricSum(T, "applied") = MetricSum(S, "applied")
        /\ MetricSum(T, "added") = MetricSum(S, "added")
        /\ MetricSum(T, "removed") = MetricSum(S, "removed")
        /\ MetricSum(T, "aiAdded") = MetricSum(S, "aiAdded")
    BY <1>3, <1>4, <2>1 DEF Metrics
  <2>5. CountEvent(Tally(S, a, b), e) = Tally(T, a, b)
    BY <2>2, <2>3, <2>4 DEF Tally
  <2> QED
    BY <2>5 DEF T
<1>9. CASE x.type \notin {"prompt.submitted", "ai.response.completed", "code.diff", "execution.completed"}
  <2>1. \A k \in Metrics : MetricRow(e)[k] = 0
    BY <1>9, RowOf
  <2>2. CountEvent(Tally(S, a, b), e) = Tally(S, a, b)
    BY <1>9 DEF CountEvent
  <2>3. Runs(T) = Runs(S)
    BY <1>9 DEF Runs
  <2> HIDE DEF T, x
  <2>4. /\ MetricSum(T, "prompts") = MetricSum(S, "prompts")
        /\ MetricSum(T, "responses") = MetricSum(S, "responses")
        /\ MetricSum(T, "errors") = MetricSum(S, "errors")
        /\ MetricSum(T, "input") = MetricSum(S, "input")
        /\ MetricSum(T, "output") = MetricSum(S, "output")
        /\ MetricSum(T, "runs") = MetricSum(S, "runs")
        /\ MetricSum(T, "succeeded") = MetricSum(S, "succeeded")
        /\ MetricSum(T, "diffs") = MetricSum(S, "diffs")
        /\ MetricSum(T, "applied") = MetricSum(S, "applied")
        /\ MetricSum(T, "added") = MetricSum(S, "added")
        /\ MetricSum(T, "removed") = MetricSum(S, "removed")
        /\ MetricSum(T, "aiAdded") = MetricSum(S, "aiAdded")
    BY <1>3, <1>4, <2>1 DEF Metrics
  <2>5. CountEvent(Tally(S, a, b), e) = Tally(T, a, b)
    BY <2>2, <2>3, <2>4 DEF Tally
  <2> QED
    BY <2>5 DEF T
<1> QED
  BY <1>5, <1>6, <1>7, <1>8, <1>9

(* An empty session. *)
LEMMA TallyZero == Tally({}, 0, NoTime) = Zero
<1>1. ASSUME NEW k \in Metrics PROVE MetricSum({}, k) = 0
  <2>1. ASSUME NEW e \in Events PROVE MetricTerms({}, k)[e] = 0
    <3>1. PICK n \in Nat : n = MetricRow(e)[k]
      BY RowOf
    <3>2. MetricTerms({}, k)[e] = One(e \in {}) * n /\ One(e \in {}) = 0
      BY <3>1 DEF MetricTerms, One
    <3>3. 0 * n = 0
      OBVIOUS
    <3> QED
      BY <3>2, <3>3
  <2> QED
    BY <2>1, TermsNat, SumZeros DEF MetricSum
<1>2. /\ MetricSum({}, "prompts") = 0 /\ MetricSum({}, "responses") = 0 /\ MetricSum({}, "errors") = 0
      /\ MetricSum({}, "input") = 0 /\ MetricSum({}, "output") = 0 /\ MetricSum({}, "runs") = 0
      /\ MetricSum({}, "succeeded") = 0 /\ MetricSum({}, "diffs") = 0 /\ MetricSum({}, "applied") = 0
      /\ MetricSum({}, "added") = 0 /\ MetricSum({}, "removed") = 0 /\ MetricSum({}, "aiAdded") = 0
  BY <1>1 DEF Metrics
<1>3. StatusOf(Runs({})) = ""
  BY DEF StatusOf, Runs
<1> QED
  BY <1>2, <1>3 DEF Tally, Zero

Acts(S) == {e \in S : EventOf[e].type \in ActivityTypes}
Requests(S) == {e \in Acts(S) : EventOf[e].type = "execution.requested"}
Ats(S) == {EventOf[e].at : e \in S}
ActiveTime(S) == IF Acts(S) = {} THEN 0 ELSE Max(Ats(Acts(S))) - Min(Ats(Acts(S)))
FirstRun(S) == IF Requests(S) = {} THEN NoTime ELSE Min(Ats(Requests(S))) - Min(Ats(Acts(S)))

(* The loop of Compute, step by step. *)
Counts(ordered, g) ==
    g = [n \in 0..Len(ordered) |-> IF n = 0 THEN Zero ELSE CountEvent(g[n - 1], ordered[n])]

(* It counts the events of a list. *)
LEMMA LoopCounts ==
    ASSUME NEW S \in SUBSET Events, NEW ordered \in Seq(S), Range(ordered) = S,
           \A i, j \in 1..Len(ordered) : i < j => EventOf[ordered[i]].seq < EventOf[ordered[j]].seq,
           NEW counts, counts = CHOOSE g : Counts(ordered, g)
    PROVE  counts[Len(ordered)] = Tally(S, 0, NoTime)
<1> DEFINE N == Len(ordered)
           prefix(n) == {ordered[i] : i \in 1..n}
           h == [n \in 0..N |-> Tally(prefix(n), 0, NoTime)]
<1>1. N \in Nat /\ DOMAIN ordered = 1..N /\ \A n \in 1..N : ordered[n] \in Events
  OBVIOUS
<1>2. ASSUME NEW n \in 1..N
      PROVE  CountEvent(Tally(prefix(n - 1), 0, NoTime), ordered[n]) = Tally(prefix(n), 0, NoTime)
  <2>1. prefix(n) = prefix(n - 1) \cup {ordered[n]}
    <3>1. n \in Nat /\ 1..n = (1..(n - 1)) \cup {n}
      BY <1>1
    <3> QED
      BY <3>1
  <2>2. ASSUME NEW d \in prefix(n - 1) PROVE d \in Events /\ EventOf[d].seq < EventOf[ordered[n]].seq
    <3>1. PICK i \in 1..(n - 1) : d = ordered[i]
      OBVIOUS
    <3>2. i \in 1..N /\ i < n
      BY <1>1
    <3> QED
      BY <1>1, <3>1, <3>2
  <2>3. prefix(n - 1) \in SUBSET Events
    BY <2>2
  <2> HIDE DEF prefix
  <2> QED
    BY <1>1, <2>1, <2>2, <2>3, CountGrows
<1>3. prefix(0) = {}
  OBVIOUS
<1>4. ASSUME NEW n \in 0..N PROVE h[n] = IF n = 0 THEN Zero ELSE CountEvent(h[n - 1], ordered[n])
  <2>1. CASE n = 0
    <3>1. h[0] = Tally(prefix(0), 0, NoTime)
      BY <1>1
    <3> HIDE DEF h, prefix
    <3> QED
      BY <1>3, <2>1, <3>1, TallyZero
  <2>2. CASE n # 0
    <3>1. n \in 1..N /\ n - 1 \in 0..N
      BY <1>1, <2>2
    <3>2. h[n] = Tally(prefix(n), 0, NoTime) /\ h[n - 1] = Tally(prefix(n - 1), 0, NoTime)
      BY <3>1
    <3> HIDE DEF h, prefix
    <3> QED
      BY <1>2, <2>2, <3>1, <3>2
  <2> QED
    BY <2>1, <2>2
<1>5. h = [n \in 0..N |-> h[n]]
  OBVIOUS
<1>6. Counts(ordered, h)
  <2> HIDE DEF h
  <2> QED
    BY <1>4, <1>5 DEF Counts
<1>7. Counts(ordered, counts)
  BY <1>6
<1>8. ASSUME NEW n \in 0..N PROVE counts[n] = IF n = 0 THEN Zero ELSE CountEvent(counts[n - 1], ordered[n])
  BY <1>7 DEF Counts
<1> HIDE DEF h
<1> DEFINE P == {n \in Nat : n <= N => counts[n] = h[n]}
<1>9. 0 \in P
  <2>1. 0 \in 0..N
    BY <1>1
  <2> QED
    BY <1>4, <1>8, <2>1
<1>10. ASSUME NEW n \in Nat, n \in P PROVE n + 1 \in P
  <2> SUFFICES ASSUME n + 1 <= N PROVE counts[n + 1] = h[n + 1]
    OBVIOUS
  <2>1. n + 1 \in 0..N /\ n + 1 # 0 /\ (n + 1) - 1 = n /\ n <= N
    BY <1>1
  <2>2. counts[n + 1] = CountEvent(counts[n], ordered[n + 1]) /\ h[n + 1] = CountEvent(h[n], ordered[n + 1])
    BY <1>4, <1>8, <2>1
  <2> QED
    BY <1>10, <2>1, <2>2
<1>11. Nat \subseteq P
  <2> HIDE DEF P
  <2> QED
    BY <1>9, <1>10, Induction
<1>12. counts[N] = h[N]
  BY <1>1, <1>11
<1>13. prefix(N) = S
  BY <1>1 DEF Range
<1>14. N \in 0..N
  BY <1>1
<1>15. h[N] = Tally(prefix(N), 0, NoTime)
  BY <1>14 DEF h
<1> HIDE DEF prefix
<1> QED
  BY <1>12, <1>13, <1>15

(* Compute gives the metrics of the events of a timeline, in whatever      *)
(* order and however often they are in it.                                 *)
LEMMA ComputeTallies ==
    ASSUME NEW t, Range(t) \in SUBSET Events
    PROVE  Compute(t) = Tally(Range(t), ActiveTime(Range(t)), FirstRun(Range(t)))
<1> DEFINE ordered == Dedupe(t)
<1>1. PICK S \in SUBSET Events : S = Range(t)
  OBVIOUS
<1>2. /\ ordered \in Seq(S) /\ Range(ordered) = S
      /\ \A i, j \in 1..Len(ordered) : i < j => EventOf[ordered[i]].seq < EventOf[ordered[j]].seq
  BY <1>1, SequenceLists DEF Dedupe
<1>3. PICK counts : counts = CHOOSE g : Counts(ordered, g)
  OBVIOUS
<1>4. counts[Len(ordered)] = Tally(S, 0, NoTime)
  <2> HIDE DEF ordered
  <2> QED
    BY <1>2, <1>3, LoopCounts
<1>5. PICK activity : activity = Acts(S)
  OBVIOUS
<1>6. activity = {e \in Range(ordered) : EventOf[e].type \in ActivityTypes}
  BY <1>2, <1>5 DEF Acts
<1>7. Compute(t) =
        [counts[Len(ordered)] EXCEPT
          !.active = IF activity = {} THEN 0 ELSE Max(Ats(activity)) - Min(Ats(activity)),
          !.firstRun = IF {e \in activity : EventOf[e].type = "execution.requested"} = {} THEN NoTime
                       ELSE Min(Ats({e \in activity : EventOf[e].type = "execution.requested"})) - Min(Ats(activity))]
  BY <1>3, <1>6 DEF Compute, Counts, Ats
<1>8. Compute(t) = [Tally(S, 0, NoTime) EXCEPT !.active = ActiveTime(S), !.firstRun = FirstRun(S)]
  BY <1>4, <1>5, <1>7 DEF ActiveTime, FirstRun, Requests
<1> QED
  BY <1>1, <1>8, ZenonT(40) DEF Tally

(* Every timeline that is read has the events of the log. *)
LEMMA TimelineRange ==
    ASSUME NEW t \in Timelines
    PROVE  Range(t) = {e \in Events : log[e] > 0} /\ Range(t) # {}
<1> DEFINE S == {e \in Events : log[e] > 0}
           s == InSequence(S)
<1>1. s \in Seq(S) /\ Range(s) = S
  <2>1. S \in SUBSET Events
    OBVIOUS
  <2> HIDE DEF S
  <2> QED
    BY <2>1, SequenceLists
<1>2. PICK u \in {s, Reverse(s)}, e \in S : t = Append(u, e)
  BY <1>1 DEF Timelines
<1> HIDE DEF s, S
<1>3. Reverse(s) \in Seq(S) /\ Range(Reverse(s)) = S
  <2>1. Len(s) \in Nat /\ DOMAIN s = 1..Len(s) /\ Reverse(s) = [i \in 1..Len(s) |-> s[(Len(s) - i) + 1]]
    BY <1>1 DEF Reverse
  <2>2. \A i \in 1..Len(s) : (Len(s) - i) + 1 \in 1..Len(s) /\ (Len(s) - ((Len(s) - i) + 1)) + 1 = i
    BY <2>1
  <2>3. DOMAIN Reverse(s) = 1..Len(s) /\ \A i \in 1..Len(s) : Reverse(s)[i] = s[(Len(s) - i) + 1]
    BY <2>1
  <2>4. \A i \in 1..Len(s) : Reverse(s)[i] \in S
    BY <1>1, <2>1, <2>2, <2>3
  <2>5. Reverse(s) \in Seq(S)
    BY <2>1, <2>2, <1>1
  <2>6. ASSUME NEW d \in S PROVE d \in Range(Reverse(s))
    <3>1. PICK i \in 1..Len(s) : s[i] = d
      BY <1>1, <2>1 DEF Range
    <3>2. Reverse(s)[(Len(s) - i) + 1] = d
      BY <2>2, <2>3, <3>1
    <3> QED
      BY <2>2, <2>3, <3>2 DEF Range
  <2> QED
    BY <2>3, <2>4, <2>5, <2>6 DEF Range
<1>4. u \in Seq(S) /\ Range(u) = S
  BY <1>1, <1>2, <1>3
<1>5. Len(u) \in Nat /\ DOMAIN u = 1..Len(u) /\ DOMAIN t = 1..(Len(u) + 1) /\ t[Len(u) + 1] = e
      /\ \A i \in 1..Len(u) : t[i] = u[i]
  BY <1>2, <1>4
<1>6. \A i \in 1..(Len(u) + 1) : i \in 1..Len(u) \/ i = Len(u) + 1
  BY <1>5
<1>7. ASSUME NEW d \in S PROVE d \in Range(t)
  <2>1. PICK i \in 1..Len(u) : u[i] = d
    BY <1>4, <1>5 DEF Range
  <2>2. i \in 1..(Len(u) + 1) /\ t[i] = d
    BY <1>5, <2>1
  <2> QED
    BY <1>5, <2>2 DEF Range
<1>8. ASSUME NEW d \in Range(t) PROVE d \in S
  <2>1. PICK i \in 1..(Len(u) + 1) : t[i] = d
    BY <1>5 DEF Range
  <2>2. CASE i \in 1..Len(u)
    BY <1>4, <1>5, <2>1, <2>2 DEF Range
  <2>3. CASE i = Len(u) + 1
    BY <1>5, <2>1, <2>3
  <2> QED
    BY <1>6, <2>2, <2>3
<1>9. Range(t) = S
  BY <1>7, <1>8
<1> QED
  BY <1>2, <1>9 DEF S

(* A session that is not purged has its whole log. *)
LEMMA LogWhole == ASSUME AInv, purge = "none" PROVE {e \in Events : log[e] > 0} = logged
  BY DEF AInv, LogInv, AnalyticsTypeOK

(* v_session_metrics gives the metrics of what was logged. *)
LEMMA ViewTallies ==
    ASSUME AInv, purge = "none", "mv_session_metrics" \in filled,
           \E e \in Events : rows["mv_session_metrics"][e] > 0
    PROVE  SessionMetrics = Tally(logged, ActiveTime(logged), FirstRun(logged))
<1> DEFINE v == "mv_session_metrics"
           row == {e \in Events : rows[v][e] > 0}
           sum(k) == SumFunction([e \in Events |-> Final(v, e) * MetricRow(e)[k]])
<1>1. row = Acts(logged) /\ row # {}
  <2>1. v \in ViewNames /\ Whole(v) /\ lost[v] = {} /\ logged \subseteq Events
    BY ViewFacts DEF AInv, ViewInv, AnalyticsTypeOK, Whole
  <2>2. \A e \in Events : rows[v][e] > 0 <=> e \in logged /\ Selects(v, e)
    BY <2>1, Counted
  <2>3. \A e : Selects(v, e) <=> EventOf[e].type \in ActivityTypes
    BY DEF Selects, Activity
  <2> QED
    BY <2>1, <2>2, <2>3 DEF Acts
<1>2. logged \subseteq Events
  BY DEF AInv, AnalyticsTypeOK
<1>3. ASSUME NEW k \in Metrics PROVE sum(k) = MetricSum(logged, k)
  <2>1. ASSUME NEW e \in Events PROVE Final(v, e) * MetricRow(e)[k] = One(e \in logged) * MetricRow(e)[k]
    <3>1. PICK n \in Nat : n = MetricRow(e)[k]
      BY RowOf
    <3>2. CASE EventOf[e].type \in ActivityTypes
      <4>1. e \in row <=> e \in logged
        BY <1>1, <3>2 DEF Acts
      <4>2. Final(v, e) = One(e \in logged)
        BY <4>1 DEF Final, One
      <4> QED
        BY <4>2
    <3>3. CASE EventOf[e].type \notin ActivityTypes
      <4>1. n = 0
        BY <3>1, <3>3, RowOf DEF ActivityTypes
      <4>2. PICK a \in {0, 1}, b \in {0, 1} : a = Final(v, e) /\ b = One(e \in logged)
        BY DEF Final, One
      <4>3. a * n = 0 /\ b * n = 0
        BY <4>1
      <4> QED
        BY <3>1, <4>2, <4>3
    <3> QED
      BY <3>2, <3>3
  <2>2. [e \in Events |-> Final(v, e) * MetricRow(e)[k]] = MetricTerms(logged, k)
    BY <2>1 DEF MetricTerms
  <2> QED
    BY <2>2 DEF MetricSum
<1>4. PICK runs : runs = {e \in row : MetricRow(e).completed}
  OBVIOUS
<1>5. PICK requests : requests = {e \in row : MetricRow(e).requested}
  OBVIOUS
<1>6. \A e : (MetricRow(e).completed <=> EventOf[e].type = "execution.completed")
              /\ (MetricRow(e).requested <=> EventOf[e].type = "execution.requested")
  BY DEF MetricRow
<1>7. runs = Runs(logged) /\ requests = Requests(logged)
  BY <1>1, <1>4, <1>5, <1>6 DEF Runs, Requests, Acts, ActivityTypes
<1>8. SessionMetrics =
        [prompts |-> sum("prompts"), responses |-> sum("responses"), errors |-> sum("errors"),
         input |-> sum("input"), output |-> sum("output"),
         runs |-> sum("runs"), succeeded |-> sum("succeeded"), last |-> StatusOf(runs),
         diffs |-> sum("diffs"), applied |-> sum("applied"),
         added |-> sum("added"), removed |-> sum("removed"), aiAdded |-> sum("aiAdded"),
         active |-> Max(Ats(row)) - Min(Ats(row)),
         firstRun |-> IF requests = {} THEN NoTime ELSE Min(Ats(requests)) - Min(Ats(row))]
  BY <1>4, <1>5 DEF SessionMetrics, StatusOf, LastOf, Ats
<1>9. /\ sum("prompts") = MetricSum(logged, "prompts") /\ sum("responses") = MetricSum(logged, "responses")
      /\ sum("errors") = MetricSum(logged, "errors") /\ sum("input") = MetricSum(logged, "input")
      /\ sum("output") = MetricSum(logged, "output") /\ sum("runs") = MetricSum(logged, "runs")
      /\ sum("succeeded") = MetricSum(logged, "succeeded") /\ sum("diffs") = MetricSum(logged, "diffs")
      /\ sum("applied") = MetricSum(logged, "applied") /\ sum("added") = MetricSum(logged, "added")
      /\ sum("removed") = MetricSum(logged, "removed") /\ sum("aiAdded") = MetricSum(logged, "aiAdded")
  <2> HIDE DEF sum
  <2> QED
    BY <1>3 DEF Metrics
<1>10. /\ ActiveTime(logged) = Max(Ats(row)) - Min(Ats(row))
       /\ FirstRun(logged) = IF requests = {} THEN NoTime ELSE Min(Ats(requests)) - Min(Ats(row))
  <2> HIDE DEF row
  <2> QED
    BY <1>1, <1>7 DEF ActiveTime, FirstRun
<1> HIDE DEF sum, row
<1> QED
  BY <1>7, <1>8, <1>9, <1>10 DEF Tally

(* The dashboard's counts are at least those of Compute, and the same if   *)
(* no event came twice.                                                    *)
LEMMA SummaryBounds ==
    ASSUME AInv, \A e \in logged : rows[Activity][e] > 0, NEW m \in DOMAIN Summary
    PROVE  /\ m \in Metrics
           /\ IF resent = 0 THEN MetricSum(logged, m) = Summary[m] ELSE MetricSum(logged, m) <= Summary[m]
<1> DEFINE f == MetricTerms(logged, m)
           g == [e \in Events |-> rows[Activity][e] * ActivityRow(e)[m]]
<1>1. m \in {"prompts", "responses", "succeeded", "diffs", "applied", "added", "removed"} /\ m \in Metrics
  BY DEF Summary, Metrics
<1>2. Summary[m] = SumFunction(g)
  BY <1>1 DEF Summary
<1>3. ASSUME NEW e \in Events
      PROVE  f[e] \in Nat /\ g[e] \in Nat /\ f[e] <= g[e] /\ (resent = 0 => f[e] = g[e])
  <2>1. PICK n \in Nat : n = MetricRow(e)[m]
    BY <1>1, RowOf
  <2>2. ActivityRow(e)[m] = MetricRow(e)[m]
    BY <1>1 DEF ActivityRow, MetricRow
  <2>3. PICK c \in Nat : c = rows[Activity][e]
    <3>1. rows[Activity] \in [Events -> 0..MaxCopies]
      BY DEF AInv, AnalyticsTypeOK, Tables
    <3> QED
      BY <3>1, CopiesNat
  <2>4. PICK o \in {0, 1} : o = One(e \in logged)
    BY DEF One
  <2>5. o <= c /\ (resent = 0 => o = c)
    <3>1. (c > 0 <=> e \in logged) /\ (resent = 0 => c <= 1)
      BY <2>3 DEF AInv, ActivityInv
    <3>2. o = 1 <=> e \in logged
      BY <2>4 DEF One
    <3> QED
      BY <3>1, <3>2
  <2>6. f[e] = o * n /\ g[e] = c * n
    BY <2>1, <2>2, <2>3, <2>4 DEF MetricTerms
  <2>7. o * n \in Nat /\ c * n \in Nat
    OBVIOUS
  <2>8. o * n <= c * n
    <3>1. CASE o = 0
      BY <2>7, <3>1
    <3>2. CASE o = 1
      <4>1. PICK b \in Nat : c = 1 + b
        BY <2>5, <3>2
      <4>2. b * n \in Nat /\ c * n = n + b * n
        BY <4>1
      <4> QED
        BY <3>2, <4>2
    <3> QED
      BY <3>1, <3>2
  <2> QED
    BY <2>5, <2>6, <2>7, <2>8
<1>4. Amounts(f) /\ Amounts(g) /\ DOMAIN f = Events /\ DOMAIN g = Events
  BY <1>3, EventsAssumption DEF Amounts, MetricTerms
<1>5. f = [e \in Events |-> f[e]] /\ g = [e \in Events |-> g[e]]
  BY DEF MetricTerms
<1> HIDE DEF f, g
<1>6. SumFunction(f) <= SumFunction(g)
  BY <1>3, <1>4, SumLeq
<1>7. resent = 0 => f = g
  BY <1>3, <1>5
<1> QED
  BY <1>1, <1>2, <1>6, <1>7 DEF MetricSum, f

(* Once its view is backfilled, what v_session_metrics shows of a session  *)
(* that was not purged is what metrics.Compute makes of its timeline, and  *)
(* the dashboard shows no less.                                            *)
THEOREM MetricsAgree == AnalyticsSpec => []MetricsMirror
<1>1. ASSUME AInv PROVE MetricsMirror
  <2>1. ASSUME purge = "none", NEW t \in Timelines
        PROVE  Compute(t) = Tally(logged, ActiveTime(logged), FirstRun(logged))
    <3>1. Range(t) = logged /\ logged \subseteq Events
      BY <1>1, <2>1, TimelineRange, LogWhole DEF AInv, AnalyticsTypeOK
    <3> QED
      BY <3>1, ComputeTallies
  <2>2. ASSUME purge = "none", "mv_session_metrics" \in filled,
               \E e \in Events : rows["mv_session_metrics"][e] > 0, NEW t \in Timelines
        PROVE  Compute(t) = SessionMetrics
    BY <1>1, <2>1, <2>2, ViewTallies
  <2>3. ASSUME purge = "none", \A e \in logged : rows[Activity][e] > 0, NEW t \in Timelines, NEW m \in DOMAIN Summary
        PROVE  IF resent = 0 THEN Compute(t)[m] = Summary[m] ELSE Compute(t)[m] <= Summary[m]
    <3>1. /\ m \in Metrics
          /\ IF resent = 0 THEN MetricSum(logged, m) = Summary[m] ELSE MetricSum(logged, m) <= Summary[m]
      BY <1>1, <2>3, SummaryBounds
    <3>2. Compute(t)[m] = MetricSum(logged, m)
      BY <2>1, <2>3, <3>1 DEF Tally, Metrics
    <3> QED
      BY <3>1, <3>2
  <2> QED
    BY <2>2, <2>3 DEF MetricsMirror
<1> QED
  BY <1>1, AnalyticsInvariant, PTL

=============================================================================
