---------------------------- MODULE CreditLedger ----------------------------
(***************************************************************************)
(* The credit ledger of the control plane: one organization, its row of    *)
(* the table "organizations" (daily_spend_limit, current_daily_spend,      *)
(* daily_spend_date), the rows of credit_ledger_entries that belong to it, *)
(* and the requests that debit, grant, read the cap and change the cap.    *)
(*                                                                         *)
(* Every request runs in a READ COMMITTED transaction of its own.  A       *)
(* request is broken up where PostgreSQL can let another one in: at each   *)
(* statement.  What a transaction wrote is visible to the others only      *)
(* after its COMMIT, so the row of the organization has a committed        *)
(* version, row, and the version of the transaction that holds the row     *)
(* lock, draft.  An INSERT on a key waits for the transaction that holds   *)
(* an uncommitted entry with that key.  CURRENT_DATE and the default of    *)
(* occurred_at are those of the BEGIN (or of the start of the single       *)
(* statement), however long the request then waits.                        *)
(***************************************************************************)
EXTENDS Integers, FiniteSetsExt

CONSTANTS Requests,   \* the connections of the pool that serve a request
          Keys,       \* the idempotency keys
          Amounts,    \* the credits a debit or a grant may carry
          Limits,     \* the daily limits an owner may set
          MaxDay,     \* bound: the last day of the clock
          Nobody,     \* no transaction holds the row lock
          NoEntry,    \* no committed ledger entry has the key
          NoOp        \* the connection serves no request

ASSUME AmountsAssumption == Amounts \subseteq Nat
ASSUME LimitsAssumption == Limits \subseteq Nat /\ Limits # {}
ASSUME MaxDayAssumption == MaxDay \in Nat \ {0}
ASSUME NobodyAssumption == Nobody \notin Requests

Days == 1 .. MaxDay

Entry == [kind : {"debit", "grant"}, credits : Nat, day : Days]

ASSUME NoEntryAssumption == NoEntry \notin Entry

Row == [limit : Nat, spend : Nat, date : Days]

\* A request that adds to the ledger, and one about the cap (to = the limit
\* it leaves behind), each with the day of its BEGIN.
LedgerOp == [kind : {"debit"}, key : Keys, credits : Amounts, day : Days]
            \cup [kind : {"grant"}, key : Keys, credits : Amounts \ {0}, day : Days]
CapOp == [kind : {"getCap"}, day : Days] \cup [kind : {"setCap"}, limit : Limits, day : Days]

ASSUME NoOpAssumption == NoOp \notin LedgerOp \cup CapOp

VARIABLES today,     \* the day the database clock shows
          row,       \* the committed row of the organization
          draft,     \* the lock holder's version of that row (row, when there is none)
          lock,      \* the request whose transaction holds the row lock
          ledger,    \* Keys -> the committed entry, or NoEntry
          audit,     \* Keys -> how many committed audit events name the entry
          pc,        \* Requests -> the statement the request is about to run
          op,        \* Requests -> the request it serves, or NoOp
          inserted,  \* Requests -> its uncommitted transaction added an entry
          skewed     \* history: the row's date has once moved backwards

vars == <<today, row, draft, lock, ledger, audit, pc, op, inserted, skewed>>

InFlight == {"begun", "admitted", "inserted", "counted"}

TypeOK ==
  /\ today \in Days
  /\ row \in Row
  /\ draft \in Row
  /\ lock \in Requests \cup {Nobody}
  /\ ledger \in [Keys -> Entry \cup {NoEntry}]
  /\ audit \in [Keys -> Nat]
  /\ pc \in [Requests -> InFlight \cup {"idle"}]
  /\ op \in [Requests -> LedgerOp \cup CapOp \cup {NoOp}]
  /\ inserted \in [Requests -> BOOLEAN]
  /\ skewed \in BOOLEAN

Init ==
  /\ today = 1
  /\ \E l \in Limits : row = [limit |-> l, spend |-> 0, date |-> 1]
  /\ draft = row
  /\ lock = Nobody
  /\ ledger = [k \in Keys |-> NoEntry]
  /\ audit = [k \in Keys |-> 0]
  /\ pc = [r \in Requests |-> "idle"]
  /\ op = [r \in Requests |-> NoOp]
  /\ inserted = [r \in Requests |-> FALSE]
  /\ skewed = FALSE

-----------------------------------------------------------------------------
(* What the statements compute.  A definition named "...Slip" is a mistake   *)
(* one could make in the definition below it; the specification uses none.   *)

RolledOverSlip(w, day) == [limit |-> w.limit, spend |-> w.spend, date |-> day]

\* SET current_daily_spend = CASE WHEN daily_spend_date < CURRENT_DATE THEN 0
\* ELSE current_daily_spend END, daily_spend_date = CURRENT_DATE
RolledOver(w, day) ==
  [limit |-> w.limit, spend |-> IF w.date < day THEN 0 ELSE w.spend, date |-> day]

\* SET current_daily_spend = current_daily_spend + $2, daily_spend_date = CURRENT_DATE
Charged(w, o) == [limit |-> w.limit, spend |-> w.spend + o.credits, date |-> o.day]

\* The comparison of assertSpendCapForClient, on the row its UPDATE returned.
WithinCap(w, credits) == w.spend + credits <= w.limit

\* A debit of a model that is not free.
Charges(r) == op[r].kind = "debit" /\ op[r].credits > 0

\* Another transaction has inserted the key and has not ended: INSERT waits.
KeyIsPending(k) == \E s \in Requests : inserted[s] /\ op[s].key = k

\* ON CONFLICT DO NOTHING: the row is inserted unless a committed one exists.
KeyIsFree(k) == ledger[k] = NoEntry

\* A retry counts again.
CountsSlip(r) == Charges(r)

\* inserted.rowCount === 1, and credits > 0 in incrementDailySpendForClient.
Counts(r) == inserted[r] /\ Charges(r)

\* inserted.rowCount === 1
Audits(r) == inserted[r]

\* No ROLLBACK on the error path: the connection keeps its locks.
EndsSlip(r) ==
  /\ pc' = [pc EXCEPT ![r] = "idle"]
  /\ op' = [op EXCEPT ![r] = NoOp]
  /\ inserted' = [inserted EXCEPT ![r] = FALSE]
  /\ lock' = lock
  /\ draft' = draft

\* A transaction ends: its locks and its uncommitted writes are gone, and
\* without a lock holder there is one version of the row.
Ends(r) ==
  /\ pc' = [pc EXCEPT ![r] = "idle"]
  /\ op' = [op EXCEPT ![r] = NoOp]
  /\ inserted' = [inserted EXCEPT ![r] = FALSE]
  /\ lock' = IF lock = r THEN Nobody ELSE lock
  /\ draft' = IF lock' = Nobody THEN row' ELSE draft

RowBecomes(w) ==
  /\ row' = w
  /\ skewed' = (skewed \/ w.date < row.date)

-----------------------------------------------------------------------------
(* The requests.                                                           *)

\* BEGIN.  Any request may come again with a key that was already used: a
\* client that lost the answer retries, Stripe delivers an event twice.
Begin(r, o) ==
  /\ pc[r] = "idle"
  /\ pc' = [pc EXCEPT ![r] = "begun"]
  /\ op' = [op EXCEPT ![r] = o]
  /\ UNCHANGED <<today, row, draft, lock, ledger, audit, inserted, skewed>>

BeginDebit(r) == \E k \in Keys, c \in Amounts :
  Begin(r, [kind |-> "debit", key |-> k, credits |-> c, day |-> today])

\* grantCredits throws before its transaction unless credits > 0.
BeginGrant(r) == \E k \in Keys, c \in Amounts \ {0} :
  Begin(r, [kind |-> "grant", key |-> k, credits |-> c, day |-> today])

BeginCapRequest(r) ==
  \/ Begin(r, [kind |-> "getCap", day |-> today])
  \/ \E l \in Limits : Begin(r, [kind |-> "setCap", limit |-> l, day |-> today])

\* assertSpendCapForClient returns at once for a free model.
SkipCap(r) ==
  /\ pc[r] = "begun"
  /\ op[r].kind = "debit" /\ op[r].credits = 0
  /\ pc' = [pc EXCEPT ![r] = "admitted"]
  /\ UNCHANGED <<today, row, draft, lock, ledger, audit, op, inserted, skewed>>

\* assertSpendCapForClient: the UPDATE takes the row lock and rolls the day
\* over, and the debit fits.
AdmitDebit(r) ==
  /\ pc[r] = "begun"
  /\ Charges(r)
  /\ lock = Nobody
  /\ WithinCap(RolledOver(row, op[r].day), op[r].credits)
  /\ lock' = r
  /\ draft' = RolledOver(row, op[r].day)
  /\ pc' = [pc EXCEPT ![r] = "admitted"]
  /\ UNCHANGED <<today, row, ledger, audit, op, inserted, skewed>>

\* assertSpendCapForClient throws SpendLimitReachedError: ROLLBACK, and 429.
RefuseDebit(r) ==
  /\ pc[r] = "begun"
  /\ Charges(r)
  /\ lock = Nobody
  /\ ~WithinCap(RolledOver(row, op[r].day), op[r].credits)
  /\ UNCHANGED <<today, row, ledger, audit, skewed>>
  /\ Ends(r)

\* INSERT ... ON CONFLICT (organization_id, idempotency_key) DO NOTHING.
InsertEntry(r) ==
  /\ \/ pc[r] = "admitted"
     \/ pc[r] = "begun" /\ op[r].kind = "grant"
  /\ ~KeyIsPending(op[r].key)
  /\ inserted' = [inserted EXCEPT ![r] = KeyIsFree(op[r].key)]
  /\ pc' = [pc EXCEPT ![r] = "inserted"]
  /\ UNCHANGED <<today, row, draft, lock, ledger, audit, op, skewed>>

\* incrementDailySpendForClient, only for an entry this transaction inserted.
CountSpend(r) ==
  /\ pc[r] = "inserted"
  /\ draft' = IF Counts(r) THEN Charged(draft, op[r]) ELSE draft
  /\ pc' = [pc EXCEPT ![r] = "counted"]
  /\ UNCHANGED <<today, row, lock, ledger, audit, op, inserted, skewed>>

\* recordAudit, only for an inserted entry, and COMMIT: everything the
\* transaction wrote becomes visible at once.
Commit(r) ==
  /\ pc[r] = "counted"
  /\ ledger' = IF inserted[r]
               THEN [ledger EXCEPT ![op[r].key] =
                       [kind |-> op[r].kind, credits |-> op[r].credits, day |-> op[r].day]]
               ELSE ledger
  /\ audit' = IF Audits(r) THEN [audit EXCEPT ![op[r].key] = @ + 1] ELSE audit
  /\ RowBecomes(IF lock = r THEN draft ELSE row)
  /\ Ends(r)
  /\ UNCHANGED today

\* A statement fails, the process dies or the connection is lost: ROLLBACK.
Rollback(r) ==
  /\ pc[r] \in InFlight
  /\ UNCHANGED <<today, row, ledger, audit, skewed>>
  /\ Ends(r)

\* getSpendCap and updateSpendCap: one UPDATE each, which waits for the lock.
UpdateCapRow(r) ==
  /\ pc[r] = "begun"
  /\ op[r].kind \in {"getCap", "setCap"}
  /\ lock = Nobody
  /\ LET fresh == RolledOver(row, op[r].day) IN
       RowBecomes(IF op[r].kind = "setCap"
                  THEN [fresh EXCEPT !.limit = op[r].limit] ELSE fresh)
  /\ Ends(r)
  /\ UNCHANGED <<today, ledger, audit>>

NextDay ==
  /\ today < MaxDay
  /\ today' = today + 1
  /\ UNCHANGED <<row, draft, lock, ledger, audit, pc, op, inserted, skewed>>

-----------------------------------------------------------------------------
\* The statements a request runs once it has begun.
Proceed(r) ==
  \/ SkipCap(r) \/ AdmitDebit(r) \/ RefuseDebit(r) \/ InsertEntry(r)
  \/ CountSpend(r) \/ Commit(r) \/ UpdateCapRow(r)

Next ==
  \/ \E r \in Requests :
       \/ BeginDebit(r) \/ BeginGrant(r) \/ BeginCapRequest(r)
       \/ Proceed(r) \/ Rollback(r)
  \/ NextDay

Spec == Init /\ [][Next]_vars

\* PostgreSQL runs the statements of an open transaction, and it queues those
\* that wait for a row lock or for a pending key: none is passed over for ever.
Fairness == \A r \in Requests : SF_vars(Proceed(r))

FairSpec == Spec /\ Fairness

-----------------------------------------------------------------------------
(* What is promised.                                                       *)

\* An idempotency key is spent once: whatever retries and duplicates run at
\* the same time, a committed entry is never replaced or lost (the INSERT ...
\* ON CONFLICT DO NOTHING of debitCredits and of grantCredits).
EntriesAreFinal ==
  [][\A k \in Keys : ledger[k] # NoEntry => ledger'[k] = ledger[k]]_ledger

\* Two transactions never both believe that they inserted a key, and none
\* believes it of a key that is already committed.
OneInsertPerKey ==
  \A r \in Requests : inserted[r] =>
    /\ ledger[op[r].key] = NoEntry
    /\ \A s \in Requests \ {r} : inserted[s] => op[s].key # op[r].key

\* The audit trail has one event for each entry of the ledger and none
\* besides, so a retry leaves no second billing event.
AuditedOnce ==
  \A k \in Keys : audit[k] = IF ledger[k] = NoEntry THEN 0 ELSE 1

\* The counter of the day grows only within the limit that is in force when
\* it grows: neither another debit nor an owner who lowers the cap gets in
\* between the comparison of assertSpendCapForClient and the COMMIT.
GrowsWithinCap ==
  [][row'.spend > row.spend => row'.spend <= row'.limit]_row

\* The lock behind it: a debit that was admitted and has not counted its
\* credits still fits, on the version of the row it will write.
AdmittedStillFits ==
  \A r \in Requests :
    /\ pc[r] \in {"admitted", "inserted"}
    /\ Charges(r)
    => lock = r /\ draft.spend + op[r].credits <= draft.limit

\* The debits of a day, and every single credit they debit, from the entries.
DebitsOn(d) ==
  {k \in Keys : ledger[k] # NoEntry /\ ledger[k].kind = "debit" /\ ledger[k].day = d}
CreditsOn(d) == UNION {{k} \X (1 .. ledger[k].credits) : k \in DebitsOn(d)}
SpentOn(d) == Cardinality(CreditsOn(d))

\* As long as the date of the row has not moved backwards, the counter that
\* the cap is compared with is exactly what was debited on the row's date:
\* no debit is forgotten, counted twice, or counted for another day.
CounterIsExact == ~skewed => row.spend = SpentOn(row.date)

\* The error of assertSpendCapForClient says which debits are refused: those
\* that "would exceed the daily limit".  So the debits of one day stay within
\* the highest limit an owner ever sets.
DayWithinLimit == \A d \in Days : SpentOn(d) <= Max(Limits)

\* The same sentence read for a retry: a debit whose entry is already in the
\* ledger adds nothing, so it is not refused.
RetryNotRefused ==
  [][\A r \in Requests : RefuseDebit(r) => ledger[op[r].key] = NoEntry]_vars

\* The one way the debits of a day get past every limit is that the row's date
\* moves backwards, when a request of yesterday is served after midnight: until
\* then they stay within some limit that an owner may set.
DayKeepsALimit == ~skewed => \A d \in Days : \E l \in Limits : SpentOn(d) <= l

\* What the next statement of r waits for: s holds the row, or has inserted the
\* key and has not ended.
WaitsFor(r, s) ==
  \/ /\ pc[r] = "begun"
     /\ Charges(r) \/ op[r].kind \in {"getCap", "setCap"}
     /\ lock = s
  \/ /\ pc[r] = "admitted" \/ (pc[r] = "begun" /\ op[r].kind = "grant")
     /\ inserted[s] /\ op[s].key = op[r].key

\* Debits, grants and changes of the cap never wait for each other in a circle,
\* though a debit holds the row while it waits for a key: among any requests
\* there is one that waits for none of them, so the database never has to
\* break a deadlock by failing a debit.
NoCircularWait ==
  \A R \in SUBSET Requests : R # {} => \E r \in R : \A s \in R : ~WaitsFor(r, s)

\* Every request comes to an end: it is answered, refused or rolled back.
EveryRequestEnds == \A r \in Requests : []<>(pc[r] = "idle")

-----------------------------------------------------------------------------
(* The inductive invariant of the proofs.                                  *)

\* Where a request is says what it asks for and what it has written.
Phases ==
  \A r \in Requests :
    /\ pc[r] = "idle" <=> op[r] = NoOp
    /\ pc[r] \in InFlight \ {"begun"} => op[r] \in LedgerOp
    /\ inserted[r] => pc[r] \in {"inserted", "counted"}

\* The row lock is held by the debit that passed the cap check, until it ends.
LockHeld ==
  \A r \in Requests :
    lock = r <=> pc[r] \in InFlight \ {"begun"} /\ Charges(r)

\* What the lock holder will commit: the row rolled over to its day, with its
\* credits once it has counted them, and they fit.
DraftIsExact ==
  /\ lock = Nobody => draft = row
  /\ \A r \in Requests : lock = r =>
       LET fresh == RolledOver(row, op[r].day) IN
       /\ WithinCap(fresh, op[r].credits)
       /\ draft = IF pc[r] = "counted" /\ inserted[r] THEN Charged(fresh, op[r]) ELSE fresh

IndInv ==
  /\ TypeOK /\ Phases /\ LockHeld /\ DraftIsExact
  /\ OneInsertPerKey /\ AdmittedStillFits /\ AuditedOnce

\* Why the counter is exact: as long as the row's date has not moved backwards,
\* it is no earlier than that of any debit that was counted.
CountedUpToDate ==
  /\ \A d \in Days : IsFiniteSet(CreditsOn(d))
  /\ ~skewed => \A d \in Days : d > row.date => CreditsOn(d) = {}

\* Seen from outside, the committed state, a request happens at one instant.
Atomic == INSTANCE AtomicLedger WITH row <- row, ledger <- ledger, audit <- audit
ImplementsAtomicLedger == Atomic!Spec
=============================================================================
