-------------------------- MODULE CreditLedgerProofs --------------------------
(***************************************************************************)
(* Theorems about CreditLedger for every number of connections, keys,      *)
(* amounts, limits and days.                                               *)
(***************************************************************************)
EXTENDS CreditLedger, FiniteSetTheorems, TLAPS

USE AmountsAssumption, LimitsAssumption, MaxDayAssumption, NobodyAssumption,
    NoEntryAssumption, NoOpAssumption

\* Rolling the day over, and charging a debit, leave a row of the table.
LEMMA RolledOverRow ==
  ASSUME NEW w \in Row, NEW d \in Days
  PROVE  /\ RolledOver(w, d) \in Row
         /\ RolledOver(w, d).limit = w.limit
         /\ RolledOver(w, d).spend <= w.spend
  BY DEF RolledOver, Row, Days

LEMMA ChargedRow ==
  ASSUME NEW w \in Row, NEW o \in LedgerOp
  PROVE  /\ Charged(w, o) \in Row
         /\ Charged(w, o).limit = w.limit
         /\ Charged(w, o).spend = w.spend + o.credits
<1>1. o.credits \in Nat /\ o.day \in Days
  BY DEF LedgerOp
<1>2. w.spend + o.credits \in Nat
  BY <1>1 DEF Row
<1>3. QED
  BY <1>1, <1>2 DEF Charged, Row

LEMMA InitInv == Init => IndInv
<1> SUFFICES ASSUME Init PROVE IndInv
  OBVIOUS
<1>1. row \in Row
  BY DEF Init, Row, Days
<1>2. TypeOK
  <2>1. today \in Days
    BY DEF Init, Days
  <2>2. ledger \in [Keys -> Entry \cup {NoEntry}] /\ audit \in [Keys -> Nat]
    BY DEF Init
  <2>3. /\ pc \in [Requests -> InFlight \cup {"idle"}]
        /\ op \in [Requests -> LedgerOp \cup CapOp \cup {NoOp}]
        /\ inserted \in [Requests -> BOOLEAN]
    BY DEF Init
  <2>4. QED
    BY <1>1, <2>1, <2>2, <2>3 DEF Init, TypeOK
<1>3. Phases /\ LockHeld /\ OneInsertPerKey /\ AdmittedStillFits
  BY DEF Init, Phases, LockHeld, OneInsertPerKey, AdmittedStillFits, InFlight
<1>4. DraftIsExact
  BY <1>1 DEF Init, DraftIsExact, Row
<1>5. AuditedOnce
  BY DEF Init, AuditedOnce
<1>6. QED
  BY <1>2, <1>3, <1>4, <1>5 DEF IndInv

LEMMA BeginInv ==
  ASSUME IndInv, NEW r \in Requests, NEW o \in LedgerOp \cup CapOp, Begin(r, o)
  PROVE  IndInv'
<1>1. TypeOK'
  BY DEF IndInv, TypeOK, InFlight, Begin
<1>2. Phases'
  BY DEF IndInv, TypeOK, Phases, Begin
<1>3. LockHeld'
  BY DEF IndInv, LockHeld, InFlight, Charges, Begin
<1>4. DraftIsExact'
  BY DEF IndInv, LockHeld, DraftIsExact, InFlight, Begin
<1>5. OneInsertPerKey'
  BY DEF IndInv, Phases, OneInsertPerKey, Begin
<1>6. AdmittedStillFits'
  BY DEF IndInv, AdmittedStillFits, WithinCap, Charges, Begin
<1>7. AuditedOnce'
  BY DEF IndInv, AuditedOnce, Begin
<1>8. QED
  BY <1>1, <1>2, <1>3, <1>4, <1>5, <1>6, <1>7 DEF IndInv

LEMMA SkipCapInv ==
  ASSUME IndInv, NEW r \in Requests, SkipCap(r)
  PROVE  IndInv'
<1>1. TypeOK'
  BY DEF IndInv, TypeOK, InFlight, SkipCap
<1>2. Phases'
  BY DEF IndInv, TypeOK, Phases, CapOp, SkipCap
<1>3. LockHeld'
  BY DEF IndInv, LockHeld, Charges, SkipCap
<1>4. DraftIsExact'
  BY DEF IndInv, DraftIsExact, SkipCap
<1>5. OneInsertPerKey'
  BY DEF IndInv, OneInsertPerKey, SkipCap
<1>6. AdmittedStillFits'
  BY DEF IndInv, AdmittedStillFits, WithinCap, Charges, SkipCap
<1>7. AuditedOnce'
  BY DEF IndInv, AuditedOnce, SkipCap
<1>8. QED
  BY <1>1, <1>2, <1>3, <1>4, <1>5, <1>6, <1>7 DEF IndInv

LEMMA AdmitDebitInv ==
  ASSUME IndInv, NEW r \in Requests, AdmitDebit(r)
  PROVE  IndInv'
<1>1. TypeOK'
  BY DEF IndInv, TypeOK, Phases, InFlight, RolledOver, LedgerOp, CapOp, Row, AdmitDebit
<1>2. Phases'
  BY DEF IndInv, TypeOK, Phases, Charges, CapOp, AdmitDebit
<1>3. LockHeld'
  BY DEF IndInv, TypeOK, LockHeld, InFlight, Charges, AdmitDebit
<1>4. DraftIsExact'
  BY DEF DraftIsExact, AdmitDebit
<1>5. OneInsertPerKey'
  BY DEF IndInv, OneInsertPerKey, AdmitDebit
<1>6. AdmittedStillFits'
  BY DEF IndInv, AdmittedStillFits, WithinCap, Charges, AdmitDebit
<1>7. AuditedOnce'
  BY DEF IndInv, AuditedOnce, AdmitDebit
<1>8. QED
  BY <1>1, <1>2, <1>3, <1>4, <1>5, <1>6, <1>7 DEF IndInv

LEMMA RefuseDebitInv ==
  ASSUME IndInv, NEW r \in Requests, RefuseDebit(r)
  PROVE  IndInv'
<1>1. TypeOK'
  BY DEF IndInv, TypeOK, RefuseDebit, Ends
<1>2. Phases'
  BY DEF IndInv, TypeOK, Phases, InFlight, RefuseDebit, Ends
<1>3. LockHeld'
  BY DEF IndInv, LockHeld, InFlight, Charges, RefuseDebit, Ends
<1>4. DraftIsExact'
  BY DEF DraftIsExact, RefuseDebit, Ends
<1>5. OneInsertPerKey'
  BY DEF IndInv, TypeOK, OneInsertPerKey, RefuseDebit, Ends
<1>6. AdmittedStillFits'
  BY DEF IndInv, AdmittedStillFits, WithinCap, Charges, RefuseDebit, Ends
<1>7. AuditedOnce'
  BY DEF IndInv, AuditedOnce, RefuseDebit
<1>8. QED
  BY <1>1, <1>2, <1>3, <1>4, <1>5, <1>6, <1>7 DEF IndInv

LEMMA InsertEntryInv ==
  ASSUME IndInv, NEW r \in Requests, InsertEntry(r)
  PROVE  IndInv'
<1>1. TypeOK'
  BY DEF IndInv, TypeOK, InFlight, InsertEntry, KeyIsFree
<1>2. Phases'
  BY DEF IndInv, TypeOK, Phases, CapOp, InsertEntry, KeyIsFree
<1>3. LockHeld'
  BY DEF IndInv, LockHeld, InFlight, Charges, InsertEntry, KeyIsFree
<1>4. DraftIsExact'
  BY DEF IndInv, DraftIsExact, InsertEntry, KeyIsFree
<1>5. OneInsertPerKey'
  BY DEF IndInv, TypeOK, OneInsertPerKey, InsertEntry, KeyIsFree, KeyIsPending
<1>6. AdmittedStillFits'
  BY DEF IndInv, AdmittedStillFits, WithinCap, Charges, InsertEntry, KeyIsFree
<1>7. AuditedOnce'
  BY DEF IndInv, AuditedOnce, InsertEntry, KeyIsFree
<1>8. QED
  BY <1>1, <1>2, <1>3, <1>4, <1>5, <1>6, <1>7 DEF IndInv

LEMMA CountSpendInv ==
  ASSUME IndInv, NEW r \in Requests, CountSpend(r)
  PROVE  IndInv'
<1>1. TypeOK'
  <2>1. draft' \in Row
    <3>1. CASE inserted[r] /\ Charges(r)
      <4>1. op[r] \in LedgerOp
        BY <3>1 DEF IndInv, Phases, InFlight, CountSpend, Counts
      <4>2. Charged(draft, op[r]) \in Row
        BY <4>1, ChargedRow DEF IndInv, TypeOK
      <4>3. QED
        BY <3>1, <4>2 DEF CountSpend, Counts
    <3>2. CASE ~(inserted[r] /\ Charges(r))
      BY <3>2 DEF IndInv, TypeOK, CountSpend, Counts
    <3>3. QED
      BY <3>1, <3>2
  <2>2. QED
    BY <2>1 DEF IndInv, TypeOK, InFlight, CountSpend, Counts
<1>2. Phases'
  BY DEF IndInv, TypeOK, Phases, CountSpend, Counts
<1>3. LockHeld'
  BY DEF IndInv, LockHeld, InFlight, Charges, CountSpend, Counts
<1>4. DraftIsExact'
  BY DEF IndInv, TypeOK, LockHeld, DraftIsExact, CountSpend, Counts
<1>5. OneInsertPerKey'
  BY DEF IndInv, OneInsertPerKey, CountSpend, Counts
<1>6. AdmittedStillFits'
  BY DEF IndInv, TypeOK, AdmittedStillFits, WithinCap, Charges, CountSpend, Counts
<1>7. AuditedOnce'
  BY DEF IndInv, AuditedOnce, CountSpend, Counts
<1>8. QED
  BY <1>1, <1>2, <1>3, <1>4, <1>5, <1>6, <1>7 DEF IndInv

LEMMA CommitInv ==
  ASSUME IndInv, NEW r \in Requests, Commit(r)
  PROVE  IndInv'
<1> DEFINE new == [kind |-> op[r].kind, credits |-> op[r].credits, day |-> op[r].day]
<1>a. op[r] \in LedgerOp /\ op[r].key \in Keys /\ new \in Entry
  BY DEF IndInv, Phases, InFlight, Commit, Audits, LedgerOp, Entry
<1>b. /\ ledger' = IF inserted[r] THEN [ledger EXCEPT ![op[r].key] = new] ELSE ledger
      /\ audit' = IF inserted[r] THEN [audit EXCEPT ![op[r].key] = @ + 1] ELSE audit
  BY DEF Commit, Audits
<1> HIDE DEF new
<1>1. TypeOK'
  <2>1. ledger' \in [Keys -> Entry \cup {NoEntry}] /\ audit' \in [Keys -> Nat]
    BY <1>a, <1>b DEF IndInv, TypeOK
  <2>2. row' \in Row /\ draft' \in Row /\ lock' \in Requests \cup {Nobody}
    BY DEF IndInv, TypeOK, Commit, Audits, RowBecomes, Ends
  <2>3. QED
    BY <2>1, <2>2 DEF IndInv, TypeOK, Commit, Audits, RowBecomes, Ends
<1>2. Phases'
  BY DEF IndInv, TypeOK, Phases, InFlight, Commit, Audits, Ends
<1>3. LockHeld'
  BY DEF IndInv, TypeOK, LockHeld, InFlight, Charges, Commit, Audits, Ends
<1>4. DraftIsExact'
  BY DEF IndInv, DraftIsExact, Commit, Audits, RowBecomes, Ends
<1>5. OneInsertPerKey'
  BY DEF IndInv, TypeOK, Phases, OneInsertPerKey, LedgerOp, Commit, Audits, Ends
<1>6. AdmittedStillFits'
  BY DEF IndInv, AdmittedStillFits, WithinCap, Charges, Commit, Audits, Ends
<1>7. AuditedOnce'
  BY <1>a, <1>b DEF IndInv, TypeOK, OneInsertPerKey, AuditedOnce
<1>8. QED
  BY <1>1, <1>2, <1>3, <1>4, <1>5, <1>6, <1>7 DEF IndInv

LEMMA UpdateCapRowInv ==
  ASSUME IndInv, NEW r \in Requests, UpdateCapRow(r)
  PROVE  IndInv'
<1>1. TypeOK'
  BY DEF IndInv, TypeOK, Phases, RolledOver, LedgerOp, CapOp, Row, UpdateCapRow,
     RowBecomes, Ends
<1>2. Phases'
  BY DEF IndInv, TypeOK, Phases, InFlight, UpdateCapRow, Ends
<1>3. LockHeld'
  BY DEF IndInv, LockHeld, InFlight, Charges, UpdateCapRow, Ends
<1>4. DraftIsExact'
  BY DEF DraftIsExact, UpdateCapRow, Ends
<1>5. OneInsertPerKey'
  BY DEF IndInv, TypeOK, OneInsertPerKey, UpdateCapRow, Ends
<1>6. AdmittedStillFits'
  BY DEF IndInv, AdmittedStillFits, WithinCap, Charges, UpdateCapRow, Ends
<1>7. AuditedOnce'
  BY DEF IndInv, AuditedOnce, UpdateCapRow
<1>8. QED
  BY <1>1, <1>2, <1>3, <1>4, <1>5, <1>6, <1>7 DEF IndInv

LEMMA RollbackInv ==
  ASSUME IndInv, NEW r \in Requests, Rollback(r)
  PROVE  IndInv'
<1>1. TypeOK'
  BY DEF IndInv, TypeOK, Rollback, Ends
<1>2. Phases'
  BY DEF IndInv, TypeOK, Phases, InFlight, Rollback, Ends
<1>3. LockHeld'
  BY DEF IndInv, TypeOK, LockHeld, InFlight, Charges, Rollback, Ends
<1>4. DraftIsExact'
  BY DEF IndInv, DraftIsExact, Rollback, Ends
<1>5. OneInsertPerKey'
  BY DEF IndInv, TypeOK, OneInsertPerKey, Rollback, Ends
<1>6. AdmittedStillFits'
  BY DEF IndInv, TypeOK, AdmittedStillFits, WithinCap, Charges, Rollback, Ends
<1>7. AuditedOnce'
  BY DEF IndInv, AuditedOnce, Rollback
<1>8. QED
  BY <1>1, <1>2, <1>3, <1>4, <1>5, <1>6, <1>7 DEF IndInv

LEMMA StepInv == IndInv /\ [Next]_vars => IndInv'
<1> SUFFICES ASSUME IndInv, [Next]_vars PROVE IndInv'
  OBVIOUS
<1>1. ASSUME NEW r \in Requests, BeginDebit(r) PROVE IndInv'
  BY <1>1, BeginInv DEF BeginDebit, LedgerOp, IndInv, TypeOK
<1>2. ASSUME NEW r \in Requests, BeginGrant(r) PROVE IndInv'
  BY <1>2, BeginInv DEF BeginGrant, LedgerOp, IndInv, TypeOK
<1>3. ASSUME NEW r \in Requests, BeginCapRequest(r) PROVE IndInv'
  BY <1>3, BeginInv DEF BeginCapRequest, CapOp, IndInv, TypeOK
<1>4. ASSUME NEW r \in Requests, Proceed(r) PROVE IndInv'
  BY <1>4, SkipCapInv, AdmitDebitInv, RefuseDebitInv, InsertEntryInv, CountSpendInv,
     CommitInv, UpdateCapRowInv DEF Proceed
<1>5. ASSUME NEW r \in Requests, Rollback(r) PROVE IndInv'
  BY <1>5, RollbackInv
<1>6. CASE NextDay
  BY <1>6 DEF NextDay, IndInv, TypeOK, Days, Phases, LockHeld, DraftIsExact, Charges,
     OneInsertPerKey, AdmittedStillFits, AuditedOnce
<1>7. CASE UNCHANGED vars
  BY <1>7 DEF vars, IndInv, TypeOK, Phases, LockHeld, DraftIsExact, Charges,
     OneInsertPerKey, AdmittedStillFits, AuditedOnce
<1>8. QED
  BY <1>1, <1>2, <1>3, <1>4, <1>5, <1>6, <1>7 DEF Next

THEOREM Invariance == Spec => []IndInv
  BY InitInv, StepInv, PTL DEF Spec

\* Every variable keeps its type.
THEOREM TypeCorrect == Spec => []TypeOK
  BY Invariance, PTL DEF IndInv

\* However many connections insert at once, no key has two inserters.
THEOREM KeysAreInsertedOnce == Spec => []OneInsertPerKey
  BY Invariance, PTL DEF IndInv

\* One audit event for each ledger entry, whatever fails or is retried.
THEOREM EveryEntryIsAudited == Spec => []AuditedOnce
  BY Invariance, PTL DEF IndInv

\* An admitted debit still fits the cap when its transaction counts it.
THEOREM AdmissionIsStable == Spec => []AdmittedStillFits
  BY Invariance, PTL DEF IndInv

-----------------------------------------------------------------------------
\* Only COMMIT writes the ledger.
LEMMA OnlyCommitWrites ==
  ASSUME [Next]_vars
  PROVE  \/ UNCHANGED <<ledger, audit>>
         \/ \E r \in Requests : Commit(r) /\ inserted[r]
  BY DEF Next, vars, Begin, BeginDebit, BeginGrant, BeginCapRequest, Proceed, SkipCap,
     AdmitDebit, RefuseDebit, InsertEntry, CountSpend, Commit, Audits, UpdateCapRow, Rollback,
     NextDay

\* A committed entry is never replaced or lost, with any number of retries.
THEOREM LedgerIsAppendOnly == Spec => EntriesAreFinal
<1>1. IndInv /\ [Next]_vars
      => [\A k \in Keys : ledger[k] # NoEntry => ledger'[k] = ledger[k]]_ledger
  <2> SUFFICES ASSUME IndInv, [Next]_vars, NEW k \in Keys, ledger[k] # NoEntry
               PROVE  ledger'[k] = ledger[k]
    OBVIOUS
  <2>1. CASE UNCHANGED ledger
    BY <2>1
  <2>2. ASSUME NEW r \in Requests, Commit(r), inserted[r]
        PROVE  ledger'[k] = ledger[k]
    BY <2>2 DEF Commit, Audits, IndInv, TypeOK, OneInsertPerKey
  <2>3. QED
    BY <2>1, <2>2, OnlyCommitWrites
<1>2. QED
  BY <1>1, Invariance, PTL DEF Spec, EntriesAreFinal

\* Only COMMIT and the cap requests write the row.
LEMMA RowWriters ==
  ASSUME [Next]_vars
  PROVE  \/ UNCHANGED row
         \/ \E r \in Requests : (Commit(r) /\ lock = r) \/ UpdateCapRow(r)
  BY DEF Next, vars, Begin, BeginDebit, BeginGrant, BeginCapRequest, Proceed, SkipCap,
     AdmitDebit, RefuseDebit, InsertEntry, KeyIsFree, CountSpend, Counts, Commit, Rollback, NextDay,
     RowBecomes

\* The counter of the day only grows within the limit in force.
THEOREM CounterStaysWithinCap == Spec => GrowsWithinCap
<1>1. IndInv /\ [Next]_vars
      => [row'.spend > row.spend => row'.spend <= row'.limit]_row
  <2> SUFFICES ASSUME IndInv, [Next]_vars, row'.spend > row.spend
               PROVE  row'.spend <= row'.limit
    OBVIOUS
  <2>1. CASE UNCHANGED row
    BY <2>1 DEF IndInv, TypeOK, Row
  <2>2. ASSUME NEW r \in Requests, Commit(r), lock = r
        PROVE  row'.spend <= row'.limit
    <3>1. row \in Row /\ op[r] \in LedgerOp /\ op[r].day \in Days
      BY <2>2 DEF Commit, Audits, IndInv, TypeOK, Phases, LedgerOp
    <3> DEFINE fresh == RolledOver(row, op[r].day)
    <3>2. fresh \in Row /\ fresh.spend <= row.spend
      BY <3>1, RolledOverRow
    <3>3. /\ WithinCap(fresh, op[r].credits)
          /\ row' = IF inserted[r] THEN Charged(fresh, op[r]) ELSE fresh
      BY <2>2 DEF Commit, Audits, RowBecomes, IndInv, DraftIsExact
    <3>4. row'.spend <= row.spend \/ row' = Charged(fresh, op[r])
      BY <3>2, <3>3
    <3>5. QED
      BY <3>1, <3>2, <3>3, <3>4, ChargedRow DEF IndInv, TypeOK, Row, WithinCap
  <2>3. ASSUME NEW r \in Requests, UpdateCapRow(r)
        PROVE  FALSE
    <3>1. op[r].day \in Days
      BY <2>3 DEF UpdateCapRow, IndInv, TypeOK, Phases, CapOp, LedgerOp
    <3>2. row'.spend = RolledOver(row, op[r].day).spend
      BY <2>3, <3>1 DEF UpdateCapRow, RowBecomes, RolledOver
    <3>3. QED
      BY <3>1, <3>2, RolledOverRow DEF IndInv, TypeOK, Row
  <2>4. QED
    BY <2>1, <2>2, <2>3, RowWriters
<1>2. QED
  BY <1>1, Invariance, PTL DEF Spec, GrowsWithinCap

-----------------------------------------------------------------------------
\* A COMMIT is one step of the abstract ledger, or changes nothing it sees.
LEMMA CommitIsAtomic ==
  ASSUME IndInv, NEW r \in Requests, Commit(r)
  PROVE  [Atomic!Next]_(Atomic!vars)
<1> DEFINE fresh == RolledOver(row, op[r].day)
<1>1. op[r] \in LedgerOp /\ op[r].day \in Days /\ row \in Row
  BY DEF Commit, Audits, IndInv, TypeOK, Phases, LedgerOp
<1>2. lock = r <=> Charges(r)
  BY DEF Commit, Audits, IndInv, LockHeld, InFlight
<1>3. lock = r => /\ WithinCap(fresh, op[r].credits)
                  /\ row' = IF inserted[r] THEN Charged(fresh, op[r]) ELSE fresh
  BY DEF Commit, Audits, RowBecomes, IndInv, DraftIsExact
<1>4. lock # r => row' = row
  BY DEF Commit, Audits, RowBecomes
<1>5. fresh = [limit |-> row.limit, spend |-> Atomic!SpentBy(op[r].day), date |-> op[r].day]
  BY DEF RolledOver, Atomic!SpentBy
<1>6. CASE ~inserted[r]
  BY <1>1, <1>3, <1>4, <1>5, <1>6 DEF Commit, Audits, Atomic!vars, Atomic!Next, Atomic!StartDay,
     Atomic!Days, Days
<1>7. CASE inserted[r]
  <2>1. Atomic!AddEntry(op[r].key, op[r].kind, op[r].credits, op[r].day)
    BY <1>7 DEF Commit, Audits, IndInv, OneInsertPerKey, Atomic!AddEntry
  <2>2. CASE op[r].kind = "grant"
    <3>1. op[r].key \in Keys /\ op[r].credits \in Amounts \ {0} /\ row' = row
      BY <1>1, <1>2, <1>4, <2>2 DEF Charges, LedgerOp
    <3>2. Atomic!Grant(op[r].key, op[r].credits, op[r].day)
      BY <2>1, <2>2, <3>1 DEF Atomic!Grant
    <3>3. QED
      BY <1>1, <3>1, <3>2 DEF Atomic!Next, Atomic!Days, Days
  <2>3. CASE op[r].kind = "debit"
    <3>1. op[r].key \in Keys /\ op[r].credits \in Amounts /\ op[r].credits \in Nat
      BY <1>1 DEF LedgerOp
    <3>2. Atomic!Debit(op[r].key, op[r].credits, op[r].day)
      <4>1. CASE op[r].credits = 0
        BY <1>2, <1>4, <2>1, <2>3, <4>1 DEF Charges, Atomic!Debit
      <4>2. CASE op[r].credits > 0
        BY <1>2, <1>3, <1>5, <1>7, <2>1, <2>3, <4>2 DEF Charges, Charged, WithinCap,
           Atomic!Debit
      <4>3. QED
        BY <3>1, <4>1, <4>2
    <3>3. QED
      BY <1>1, <3>1, <3>2 DEF Atomic!Next, Atomic!Days, Days
  <2>4. QED
    BY <1>1, <2>2, <2>3 DEF LedgerOp
<1>8. QED
  BY <1>6, <1>7

LEMMA UpdateCapRowIsAtomic ==
  ASSUME IndInv, NEW r \in Requests, UpdateCapRow(r)
  PROVE  Atomic!Next
<1>1. op[r] \in CapOp
  BY DEF UpdateCapRow, IndInv, TypeOK, Phases, LedgerOp
<1>2. CASE op[r].kind = "getCap"
  <2>1. Atomic!StartDay(op[r].day)
    BY <1>2 DEF UpdateCapRow, RowBecomes, RolledOver, Atomic!StartDay, Atomic!SpentBy
  <2>2. QED
    BY <1>1, <2>1 DEF CapOp, Days, Atomic!Next, Atomic!Days
<1>3. CASE op[r].kind = "setCap"
  <2>1. Atomic!SetLimit(op[r].limit, op[r].day)
    BY <1>3 DEF UpdateCapRow, RowBecomes, RolledOver, Atomic!SetLimit, Atomic!SpentBy
  <2>2. QED
    BY <1>1, <1>3, <2>1 DEF CapOp, Days, Atomic!Next, Atomic!Days
<1>4. QED
  BY <1>2, <1>3 DEF UpdateCapRow

\* The requests, with all their statements, locks, retries and rollbacks, look
\* from outside like requests that take effect at one instant or not at all.
THEOREM Refinement == Spec => ImplementsAtomicLedger
<1>1. Init => Atomic!Init
  BY DEF Init, Atomic!Init
<1>2. IndInv /\ [Next]_vars => [Atomic!Next]_(Atomic!vars)
  <2> SUFFICES ASSUME IndInv, [Next]_vars PROVE [Atomic!Next]_(Atomic!vars)
    OBVIOUS
  <2>1. CASE UNCHANGED <<row, ledger, audit>>
    BY <2>1 DEF Atomic!vars
  <2>2. ASSUME NEW r \in Requests, Commit(r) PROVE [Atomic!Next]_(Atomic!vars)
    BY <2>2, CommitIsAtomic
  <2>3. ASSUME NEW r \in Requests, UpdateCapRow(r) PROVE [Atomic!Next]_(Atomic!vars)
    BY <2>3, UpdateCapRowIsAtomic
  <2>4. QED
    BY <2>1, <2>2, <2>3, OnlyCommitWrites, RowWriters
<1>3. QED
  BY <1>1, <1>2, Invariance, PTL DEF Spec, ImplementsAtomicLedger, Atomic!Spec
-----------------------------------------------------------------------------
\* A new entry adds its credits to its day, if it is a debit, and nothing to
\* any other day.
LEMMA CreditsAfterEntry ==
  ASSUME ledger \in [Keys -> Entry \cup {NoEntry}],
         NEW k \in Keys, ledger[k] = NoEntry, NEW e \in Entry,
         ledger' = [ledger EXCEPT ![k] = e],
         NEW d \in Days, IsFiniteSet(CreditsOn(d))
  PROVE  /\ CreditsOn(d)' = IF e.kind = "debit" /\ e.day = d
                            THEN CreditsOn(d) \cup ({k} \X (1 .. e.credits)) ELSE CreditsOn(d)
         /\ IsFiniteSet(CreditsOn(d)') /\ SpentOn(d) \in Nat
         /\ SpentOn(d)' = IF e.kind = "debit" /\ e.day = d
                          THEN SpentOn(d) + e.credits ELSE SpentOn(d)
<1> DEFINE added == {k} \X (1 .. e.credits)
           after == [ledger EXCEPT ![k] = e]
<1>1. /\ ledger'[k] = e /\ e # NoEntry /\ \A j \in Keys : j # k => ledger'[j] = ledger[j]
      /\ k \notin DebitsOn(d) /\ e.credits \in Nat
  BY NoEntryAssumption DEF DebitsOn, Entry
<1>2. DebitsOn(d)' = IF e.kind = "debit" /\ e.day = d THEN DebitsOn(d) \cup {k} ELSE DebitsOn(d)
  BY <1>1 DEF DebitsOn
<1>3. \A j \in DebitsOn(d) : ledger'[j] = ledger[j]
  BY <1>1 DEF DebitsOn
<1>4. CASE ~(e.kind = "debit" /\ e.day = d)
  <2>1. CreditsOn(d)' = CreditsOn(d)
    BY <1>2, <1>3, <1>4 DEF CreditsOn
  <2>2. QED
    BY <1>4, <2>1, FS_CardinalityType DEF SpentOn
<1>5. CASE e.kind = "debit" /\ e.day = d
  <2>1. CreditsOn(d)' = CreditsOn(d) \cup added
    BY <1>1, <1>2, <1>3, <1>5 DEF CreditsOn
  <2>2. CreditsOn(d) \cap added = {}
    BY <1>1 DEF CreditsOn
  <2>3. IsFiniteSet(added) /\ Cardinality(added) = e.credits
    <3>1. IsFiniteSet({k}) /\ Cardinality({k}) = 1
      BY FS_Singleton
    <3>2. IsFiniteSet(1 .. e.credits) /\ Cardinality(1 .. e.credits) = e.credits
      <4>1. 1 \in Int /\ e.credits \in Int
        BY <1>1
      <4>2. /\ IsFiniteSet(1 .. e.credits)
            /\ Cardinality(1 .. e.credits) = IF 1 > e.credits THEN 0 ELSE e.credits - 1 + 1
        BY <4>1, FS_Interval
      <4>3. QED
        BY <1>1, <4>2
    <3>3. IsFiniteSet(added) /\ Cardinality(added) = Cardinality({k}) * Cardinality(1 .. e.credits)
      BY <3>1, <3>2, FS_Product
    <3>4. QED
      BY <1>1, <3>1, <3>2, <3>3
  <2>4. /\ IsFiniteSet(CreditsOn(d) \cup added)
        /\ Cardinality(CreditsOn(d) \cup added) =
             Cardinality(CreditsOn(d)) + Cardinality(added) - Cardinality(CreditsOn(d) \cap added)
    BY <2>3, FS_Union
  <2>5. Cardinality(CreditsOn(d) \cap added) = 0 /\ Cardinality(CreditsOn(d)) \in Nat
    BY <2>2, FS_EmptySet, FS_CardinalityType
  <2>6. Cardinality(CreditsOn(d) \cup added) = Cardinality(CreditsOn(d)) + e.credits
    BY <1>1, <2>3, <2>4, <2>5
  <2>7. QED
    BY <1>5, <2>1, <2>4, <2>5, <2>6 DEF SpentOn
<1>6. QED
  BY <1>4, <1>5

\* A day without debits has spent nothing.
LEMMA NothingSpent ==
  ASSUME NEW d, CreditsOn(d) = {}
  PROVE  SpentOn(d) = 0
BY FS_EmptySet DEF SpentOn

LEMMA CountedInit == Init => CountedUpToDate /\ CounterIsExact
<1> SUFFICES ASSUME Init PROVE CountedUpToDate /\ CounterIsExact
  OBVIOUS
<1>1. \A d : CreditsOn(d) = {}
  BY DEF Init, CreditsOn, DebitsOn
<1>2. row.spend = 0
  BY DEF Init
<1>3. QED
  BY <1>1, <1>2, NothingSpent, FS_EmptySet DEF CountedUpToDate, CounterIsExact

\* The row that is rolled over to a day that is not before its date has what
\* was debited on that day.
LEMMA RolledOverIsExact ==
  ASSUME IndInv, CountedUpToDate, CounterIsExact, ~skewed,
         NEW d \in Days, d >= row.date
  PROVE  RolledOver(row, d).spend = SpentOn(d)
<1>1. row.date \in Days /\ row.date \in Int /\ d \in Int
  BY DEF IndInv, TypeOK, Row, Days
<1>2. CASE d = row.date
  BY <1>1, <1>2 DEF RolledOver, CounterIsExact
<1>3. CASE d > row.date
  <2>1. SpentOn(d) = 0
    BY <1>3, NothingSpent DEF CountedUpToDate
  <2>2. QED
    BY <1>3, <2>1 DEF RolledOver
<1>4. QED
  BY <1>1, <1>2, <1>3

\* The ledger stays as it is, and the row, at most, is rolled over.
LEMMA RolledOverStays ==
  ASSUME IndInv, CountedUpToDate, CounterIsExact, UNCHANGED ledger,
         \/ UNCHANGED <<row, skewed>>
         \/ /\ skewed' = (skewed \/ row'.date < row.date)
            /\ \E d \in Days : row'.date = d /\ row'.spend = RolledOver(row, d).spend
  PROVE  CountedUpToDate' /\ CounterIsExact'
<1>1. \A d : CreditsOn(d)' = CreditsOn(d) /\ SpentOn(d)' = SpentOn(d)
  BY DEF CreditsOn, DebitsOn, SpentOn
<1>2. CASE UNCHANGED <<row, skewed>>
  BY <1>1, <1>2 DEF CountedUpToDate, CounterIsExact
<1>3. ASSUME skewed' = (skewed \/ row'.date < row.date),
             NEW d \in Days, row'.date = d, row'.spend = RolledOver(row, d).spend
      PROVE  CountedUpToDate' /\ CounterIsExact'
  <2>1. row.date \in Int /\ d \in Int /\ \A c \in Days : c \in Int
    BY DEF IndInv, TypeOK, Row, Days
  <2>2. ~skewed' => ~skewed /\ d >= row.date
    <3>1. ~skewed' => ~skewed /\ ~(d < row.date)
      BY <1>3, Zenon
    <3>2. QED
      BY <2>1, <3>1
  <2>3. CounterIsExact'
    <3>1. ~skewed' => row'.spend = SpentOn(d)
      BY <1>3, <2>2, RolledOverIsExact
    <3>2. QED
      BY <1>1, <1>3, <3>1 DEF CounterIsExact
  <2>4. CountedUpToDate'
    BY <1>1, <1>3, <2>1, <2>2 DEF CountedUpToDate
  <2>5. QED
    BY <2>3, <2>4
<1>4. QED
  BY <1>2, <1>3

\* COMMIT counts what it adds to the ledger, no more and no less.
LEMMA CommitCounts ==
  ASSUME IndInv, CountedUpToDate, CounterIsExact, NEW r \in Requests, Commit(r)
  PROVE  CountedUpToDate' /\ CounterIsExact'
<1> DEFINE fresh == RolledOver(row, op[r].day)
           e == [kind |-> op[r].kind, credits |-> op[r].credits, day |-> op[r].day]
<1>1. /\ op[r] \in LedgerOp /\ op[r].day \in Days /\ op[r].key \in Keys /\ op[r].credits \in Nat
      /\ row \in Row /\ row.date \in Int /\ \A d \in Days : d \in Int
  <2>1. op[r] \in LedgerOp
    BY DEF Commit, IndInv, Phases, InFlight
  <2>2. op[r].day \in Days /\ op[r].key \in Keys /\ op[r].credits \in Nat
    BY <2>1 DEF LedgerOp
  <2>3. row \in Row /\ row.date \in Int /\ \A d \in Days : d \in Int
    BY DEF IndInv, TypeOK, Row, Days
  <2>4. QED
    BY <2>1, <2>2, <2>3
<1>2. lock = r <=> Charges(r)
  BY DEF Commit, IndInv, LockHeld, InFlight
<1>3. /\ row' = IF lock = r THEN (IF inserted[r] THEN Charged(fresh, op[r]) ELSE fresh) ELSE row
      /\ skewed' = (skewed \/ row'.date < row.date)
  BY DEF Commit, RowBecomes, IndInv, DraftIsExact
<1>4. CASE ~inserted[r]
  <2>1. UNCHANGED ledger
    BY <1>4 DEF Commit
  <2>2. CASE lock # r
    <3>1. UNCHANGED <<row, skewed>>
      BY <1>1, <1>3, <2>2 DEF IndInv, TypeOK
    <3>2. QED
      BY <2>1, <3>1, RolledOverStays
  <2>3. CASE lock = r
    <3>1. row'.date = op[r].day /\ row'.spend = RolledOver(row, op[r].day).spend
      BY <1>3, <1>4, <2>3 DEF RolledOver
    <3>2. QED
      BY <1>1, <1>3, <2>1, <3>1, RolledOverStays
  <2>4. QED
    BY <2>2, <2>3
<1>5. CASE inserted[r]
  <2>1. e \in Entry
    BY <1>1 DEF Entry, LedgerOp
  <2>2. /\ ledger \in [Keys -> Entry \cup {NoEntry}] /\ ledger[op[r].key] = NoEntry
        /\ ledger' = [ledger EXCEPT ![op[r].key] = e]
    BY <1>5 DEF Commit, IndInv, TypeOK, OneInsertPerKey
  <2>3. ASSUME NEW d \in Days
        PROVE  /\ CreditsOn(d)' = IF op[r].kind = "debit" /\ op[r].day = d
                                  THEN CreditsOn(d) \cup ({op[r].key} \X (1 .. op[r].credits))
                                  ELSE CreditsOn(d)
               /\ IsFiniteSet(CreditsOn(d)') /\ SpentOn(d) \in Nat
               /\ SpentOn(d)' = IF op[r].kind = "debit" /\ op[r].day = d
                                THEN SpentOn(d) + op[r].credits ELSE SpentOn(d)
    <3>1. SUFFICES ASSUME NEW k \in Keys, k = op[r].key, NEW f \in Entry, f = e
                   PROVE  /\ CreditsOn(d)' = IF f.kind = "debit" /\ f.day = d
                                  THEN CreditsOn(d) \cup ({k} \X (1 .. f.credits))
                                  ELSE CreditsOn(d)
               /\ IsFiniteSet(CreditsOn(d)') /\ SpentOn(d) \in Nat
               /\ SpentOn(d)' = IF f.kind = "debit" /\ f.day = d
                                THEN SpentOn(d) + f.credits ELSE SpentOn(d)
      BY <1>1, <2>1
    <3>2. IsFiniteSet(CreditsOn(d))
      BY DEF CountedUpToDate
    <3>3. ledger[k] = NoEntry /\ ledger' = [ledger EXCEPT ![k] = f]
      BY <2>2, <3>1
    <3>4. QED
      <4>1. ledger \in [Keys -> Entry \cup {NoEntry}]
        BY <2>2
      <4>2. QED
        BY <3>2, <3>3, <4>1, CreditsAfterEntry, Zenon
  <2>4. CASE ~Charges(r)
    <3>1. UNCHANGED <<row, skewed>>
      BY <1>1, <1>2, <1>3, <2>4 DEF IndInv, TypeOK
    <3>2. op[r].kind = "debit" => 1 .. op[r].credits = {} /\ op[r].credits = 0
      BY <1>1, <2>4 DEF Charges
    <3>3. ASSUME NEW d \in Days
          PROVE  CreditsOn(d)' = CreditsOn(d) /\ SpentOn(d)' = SpentOn(d)
      <4>1. CreditsOn(d)' = CreditsOn(d)
        BY <2>3, <3>2
      <4>2. QED
        BY <4>1 DEF SpentOn
    <3>4. QED
      BY <1>1, <2>3, <3>1, <3>3 DEF CountedUpToDate, CounterIsExact, Row
  <2>5. CASE Charges(r)
    <3>1. op[r].kind = "debit" /\ lock = r
      BY <1>2, <2>5 DEF Charges
    <3>2. row'.date = op[r].day /\ row'.spend = fresh.spend + op[r].credits
      BY <1>3, <1>5, <3>1 DEF Charged
    <3>3. ~skewed' => ~skewed /\ op[r].day >= row.date
      <4>1. ~skewed' => ~skewed /\ ~(op[r].day < row.date)
        BY <1>3, <3>2, Zenon
      <4>2. QED
        BY <1>1, <4>1
    <3>4. CounterIsExact'
      <4>1. ~skewed' => fresh.spend = SpentOn(op[r].day)
        BY <1>1, <3>3, RolledOverIsExact
      <4>2. \A d \in Days : d = op[r].day => SpentOn(d)' = SpentOn(d) + op[r].credits
        BY <2>3, <3>1
      <4>3. QED
        BY <1>1, <3>2, <4>1, <4>2 DEF CounterIsExact
    <3>5. CountedUpToDate'
      <4>1. ASSUME NEW d \in Days, ~skewed', d > op[r].day
            PROVE  CreditsOn(d)' = {}
        <5>1. CreditsOn(d) = {}
          BY <1>1, <3>3, <4>1 DEF CountedUpToDate
        <5>2. QED
          BY <1>1, <2>3, <4>1, <5>1
      <4>2. QED
        BY <2>3, <3>2, <4>1 DEF CountedUpToDate
    <3>6. QED
      BY <3>4, <3>5
  <2>6. QED
    BY <2>4, <2>5
<1>6. QED
  BY <1>4, <1>5

LEMMA UpdateCapRowCounts ==
  ASSUME IndInv, CountedUpToDate, CounterIsExact, NEW r \in Requests, UpdateCapRow(r)
  PROVE  CountedUpToDate' /\ CounterIsExact'
<1>1. op[r].day \in Days
  BY DEF UpdateCapRow, IndInv, TypeOK, Phases, CapOp, LedgerOp
<1>2. /\ row'.date = op[r].day /\ row'.spend = RolledOver(row, op[r].day).spend
      /\ skewed' = (skewed \/ row'.date < row.date) /\ UNCHANGED ledger
  BY DEF UpdateCapRow, RowBecomes, RolledOver
<1>3. QED
  BY <1>1, <1>2, RolledOverStays

\* Whatever fails, is retried or is done twice, and however requests overlap:
\* unless the row's date has moved backwards, the counter that the cap is
\* compared with is the sum of the debits of its day.  (incrementDailySpend)
THEOREM CounterIsTheDaysDebits == Spec => []CounterIsExact
<1>1. IndInv /\ CountedUpToDate /\ CounterIsExact /\ [Next]_vars
      => CountedUpToDate' /\ CounterIsExact'
  <2> SUFFICES ASSUME IndInv, CountedUpToDate, CounterIsExact, [Next]_vars
               PROVE  CountedUpToDate' /\ CounterIsExact'
    OBVIOUS
  <2>1. CASE \E r \in Requests : Commit(r)
    BY <2>1, CommitCounts
  <2>2. CASE \E r \in Requests : UpdateCapRow(r)
    BY <2>2, UpdateCapRowCounts
  <2>3. CASE UNCHANGED <<row, ledger, skewed>>
    BY <2>3, RolledOverStays
  <2>4. QED
    BY <2>1, <2>2, <2>3 DEF Next, vars, Begin, BeginDebit, BeginGrant, BeginCapRequest, Proceed,
       SkipCap, AdmitDebit, RefuseDebit, InsertEntry, CountSpend, Rollback, NextDay
<1>2. QED
  BY CountedInit, <1>1, Invariance, PTL DEF Spec
-----------------------------------------------------------------------------
\* The counter counts, and each day keeps to a limit: what holds until the
\* row's date moves backwards.
CapKept == CountedUpToDate /\ CounterIsExact /\ row.limit \in Limits /\ DayKeepsALimit

LEMMA CapKeptInit == Init => CapKept
<1> SUFFICES ASSUME Init PROVE CapKept
  OBVIOUS
<1>1. row.limit \in Limits
  BY DEF Init
<1>2. \A d : SpentOn(d) = 0
  <2>1. \A d : CreditsOn(d) = {}
    BY DEF Init, CreditsOn, DebitsOn
  <2>2. QED
    BY <2>1, NothingSpent
<1>3. DayKeepsALimit
  <2>1. 0 <= row.limit
    <3>1. row.limit \in Nat
      BY <1>1, LimitsAssumption
    <3>2. QED
      BY <3>1
  <2>2. QED
    BY <1>1, <1>2, <2>1 DEF DayKeepsALimit
<1>4. QED
  BY <1>1, <1>3, CountedInit DEF CapKept

\* Only the debit that ends in COMMIT adds to what a day has spent.
LEMMA DaysStay ==
  ASSUME CapKept, CountedUpToDate', CounterIsExact', row'.limit \in Limits, skewed => skewed',
         \A d \in Days : SpentOn(d)' = SpentOn(d)
  PROVE  CapKept'
BY DEF CapKept, DayKeepsALimit

\* The debit that is committed leaves its day within the limit of the row it
\* was compared with; the other days are as they were.
LEMMA CommitKeepsCap ==
  ASSUME IndInv, CapKept, NEW r \in Requests, Commit(r)
  PROVE  CapKept'
<1> DEFINE fresh == RolledOver(row, op[r].day)
           e == [kind |-> op[r].kind, credits |-> op[r].credits, day |-> op[r].day]
<1>1. CountedUpToDate' /\ CounterIsExact'
  BY CommitCounts DEF CapKept
<1>2. /\ op[r] \in LedgerOp /\ op[r].day \in Days /\ op[r].key \in Keys /\ op[r].credits \in Nat
      /\ row \in Row
  <2>1. op[r] \in LedgerOp
    BY DEF Commit, IndInv, Phases, InFlight
  <2>2. QED
    BY <2>1 DEF LedgerOp, IndInv, TypeOK
<1>3. lock = r => /\ WithinCap(fresh, op[r].credits)
                  /\ row' = IF inserted[r] THEN Charged(fresh, op[r]) ELSE fresh
  BY DEF Commit, RowBecomes, IndInv, DraftIsExact
<1>4. lock # r => row' = row
  BY DEF Commit, RowBecomes
<1>5. row'.limit = row.limit /\ row'.limit \in Limits /\ (skewed => skewed')
  <2>1. row'.limit = row.limit
    BY <1>3, <1>4 DEF RolledOver, Charged
  <2>2. skewed => skewed'
    BY Zenon DEF Commit, RowBecomes
  <2>3. QED
    BY <2>1, <2>2 DEF CapKept
<1>6. CASE ~inserted[r]
  <2>1. \A d \in Days : SpentOn(d)' = SpentOn(d)
    BY <1>6 DEF Commit, SpentOn, CreditsOn, DebitsOn
  <2>2. QED
    BY <1>1, <1>5, <2>1, DaysStay
<1>7. CASE inserted[r]
  <2>1. e \in Entry
    BY <1>2 DEF Entry, LedgerOp
  <2>2. /\ ledger \in [Keys -> Entry \cup {NoEntry}] /\ ledger[op[r].key] = NoEntry
        /\ ledger' = [ledger EXCEPT ![op[r].key] = e]
    BY <1>7 DEF Commit, IndInv, TypeOK, OneInsertPerKey
  <2>3. ASSUME NEW d \in Days
        PROVE  SpentOn(d)' = IF op[r].kind = "debit" /\ op[r].day = d
                             THEN SpentOn(d) + op[r].credits ELSE SpentOn(d)
    <3>1. SUFFICES ASSUME NEW k \in Keys, k = op[r].key, NEW f \in Entry, f = e
                   PROVE  SpentOn(d)' = IF f.kind = "debit" /\ f.day = d
                                        THEN SpentOn(d) + f.credits ELSE SpentOn(d)
      BY <1>2, <2>1
    <3>2. IsFiniteSet(CreditsOn(d))
      BY DEF CapKept, CountedUpToDate
    <3>3. ledger[k] = NoEntry /\ ledger' = [ledger EXCEPT ![k] = f]
      BY <2>2, <3>1
    <3>4. ledger \in [Keys -> Entry \cup {NoEntry}]
      BY <2>2
    <3>5. QED
      BY <3>2, <3>3, <3>4, CreditsAfterEntry, Zenon
  <2>4. CASE ~Charges(r)
    <3>1. \A d \in Days : SpentOn(d) \in Nat
      BY FS_CardinalityType DEF CapKept, CountedUpToDate, SpentOn
    <3>2. op[r].kind = "debit" => op[r].credits = 0
      BY <1>2, <2>4 DEF Charges
    <3>3. \A d \in Days : SpentOn(d)' = SpentOn(d)
      BY <2>3, <3>1, <3>2
    <3>4. QED
      BY <1>1, <1>5, <3>3, DaysStay
  <2>5. CASE Charges(r)
    <3>1. lock = r
      BY <2>5 DEF Commit, IndInv, LockHeld, InFlight
    <3>2. /\ row'.date = op[r].day
          /\ row'.spend = fresh.spend + op[r].credits
          /\ fresh.spend + op[r].credits <= row.limit
      BY <1>3, <1>7, <3>1 DEF Charged, WithinCap, RolledOver
    <3>3. \A d \in Days : d = op[r].day /\ ~skewed' => SpentOn(d)' <= row'.limit
      <4>1. \A d \in Days : d = op[r].day /\ ~skewed' => SpentOn(d)' = row'.spend
        BY <1>1, <3>2 DEF CounterIsExact
      <4>2. row'.spend <= row'.limit
        BY <1>5, <3>2
      <4>3. QED
        BY <4>1, <4>2
    <3>4. \A d \in Days : d # op[r].day => SpentOn(d)' = SpentOn(d)
      BY <2>3
    <3>5. DayKeepsALimit'
      <4>1. ASSUME NEW d \in Days, ~skewed'
            PROVE  \E l \in Limits : SpentOn(d)' <= l
        <5>1. CASE d = op[r].day
          BY <1>5, <3>3, <4>1, <5>1
        <5>2. CASE d # op[r].day
          BY <1>5, <3>4, <4>1, <5>2 DEF CapKept, DayKeepsALimit
        <5>3. QED
          BY <5>1, <5>2
      <4>2. QED
        BY <4>1 DEF DayKeepsALimit
    <3>6. QED
      BY <1>1, <1>5, <3>5 DEF CapKept
  <2>6. QED
    BY <2>4, <2>5
<1>8. QED
  BY <1>6, <1>7

LEMMA UpdateCapRowKeepsCap ==
  ASSUME IndInv, CapKept, NEW r \in Requests, UpdateCapRow(r)
  PROVE  CapKept'
<1>1. CountedUpToDate' /\ CounterIsExact'
  BY UpdateCapRowCounts DEF CapKept
<1>2. op[r] \in CapOp
  BY DEF UpdateCapRow, IndInv, TypeOK, Phases, LedgerOp
<1>3. row'.limit \in Limits
  <2>1. CASE op[r].kind = "setCap"
    BY <1>2, <2>1 DEF UpdateCapRow, RowBecomes, RolledOver, CapOp
  <2>2. CASE op[r].kind # "setCap"
    BY <2>2 DEF UpdateCapRow, RowBecomes, RolledOver, CapKept
  <2>3. QED
    BY <2>1, <2>2
<1>4. (skewed => skewed') /\ \A d \in Days : SpentOn(d)' = SpentOn(d)
  BY DEF UpdateCapRow, RowBecomes, SpentOn, CreditsOn, DebitsOn
<1>5. QED
  BY <1>1, <1>3, <1>4, DaysStay

\* The cap holds for every day, with any number of requests, retries and
\* failures, until a request that began before midnight sets the row's date
\* back: that is the only way a day's debits can exceed every limit.
\* (assertSpendCapForClient)
THEOREM CapHoldsUntilDateGoesBack == Spec => []DayKeepsALimit
<1>1. IndInv /\ CapKept /\ [Next]_vars => CapKept'
  <2> SUFFICES ASSUME IndInv, CapKept, [Next]_vars
               PROVE  CapKept'
    OBVIOUS
  <2>1. CASE \E r \in Requests : Commit(r)
    BY <2>1, CommitKeepsCap
  <2>2. CASE \E r \in Requests : UpdateCapRow(r)
    BY <2>2, UpdateCapRowKeepsCap
  <2>3. CASE UNCHANGED <<row, ledger, skewed>>
    <3>1. CountedUpToDate' /\ CounterIsExact'
      BY <2>3, RolledOverStays DEF CapKept
    <3>2. \A d \in Days : SpentOn(d)' = SpentOn(d)
      BY <2>3 DEF SpentOn, CreditsOn, DebitsOn
    <3>3. QED
      BY <2>3, <3>1, <3>2, DaysStay DEF CapKept
  <2>4. QED
    BY <2>1, <2>2, <2>3 DEF Next, vars, Begin, BeginDebit, BeginGrant, BeginCapRequest, Proceed,
       SkipCap, AdmitDebit, RefuseDebit, InsertEntry, CountSpend, Rollback, NextDay
<1>2. QED
  BY CapKeptInit, <1>1, Invariance, PTL DEF Spec, CapKept
-----------------------------------------------------------------------------
\* Who holds the row has left its first statement, and can at most wait for a
\* key; who has inserted a key waits for nothing.  So no circle of any number
\* of requests can close.  (assertSpendCapForClient before the INSERT, in
\* debitCredits)
THEOREM RequestsNeverDeadlock == Spec => []NoCircularWait
<1>1. IndInv => NoCircularWait
  <2> SUFFICES ASSUME IndInv, NEW R \in SUBSET Requests, R # {}
               PROVE  \E r \in R : \A s \in R : ~WaitsFor(r, s)
    BY DEF NoCircularWait
  <2>1. \A r, s \in Requests : inserted[s] => ~WaitsFor(s, r)
    BY DEF IndInv, Phases, WaitsFor
  <2>2. \A s \in Requests : lock = s => pc[s] # "begun"
    BY DEF IndInv, LockHeld
  <2>3. CASE \E s \in R : inserted[s]
    BY <2>1, <2>3
  <2>4. CASE \A s \in R : ~inserted[s]
    <3>1. CASE \E s \in R : lock = s
      <4>1. PICK s \in R : lock = s
        BY <3>1
      <4>2. \A u \in R : ~WaitsFor(s, u)
        BY <2>2, <2>4, <4>1 DEF WaitsFor
      <4>3. QED
        BY <4>2
    <3>2. CASE \A s \in R : lock # s
      BY <2>4, <3>2 DEF WaitsFor
    <3>3. QED
      BY <3>1, <3>2
  <2>5. QED
    BY <2>3, <2>4
<1>2. QED
  BY <1>1, Invariance, PTL
===============================================================================
