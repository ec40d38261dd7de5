---------------------------- MODULE AtomicLedger ----------------------------
(***************************************************************************)
(* What the credit ledger promises to those who call it, with no           *)
(* transactions, locks or statements: every request takes effect at one    *)
(* instant or not at all.  A debit adds its entry, its audit event and its *)
(* credits on the counter of the day together, once per idempotency key,   *)
(* and only within the limit.                                              *)
(***************************************************************************)
EXTENDS Integers

CONSTANTS Keys, Amounts, Limits, MaxDay, NoEntry

Days == 1 .. MaxDay

VARIABLES row, ledger, audit

vars == <<row, ledger, audit>>

Init ==
  /\ \E l \in Limits : row = [limit |-> l, spend |-> 0, date |-> 1]
  /\ ledger = [k \in Keys |-> NoEntry]
  /\ audit = [k \in Keys |-> 0]

\* What is left of the counter on the given day.
SpentBy(day) == IF row.date < day THEN 0 ELSE row.spend

AddEntry(k, kind, c, day) ==
  /\ ledger[k] = NoEntry
  /\ ledger' = [ledger EXCEPT ![k] = [kind |-> kind, credits |-> c, day |-> day]]
  /\ audit' = [audit EXCEPT ![k] = @ + 1]

Debit(k, c, day) ==
  /\ AddEntry(k, "debit", c, day)
  /\ IF c = 0 THEN row' = row
     ELSE /\ SpentBy(day) + c <= row.limit
          /\ row' = [limit |-> row.limit, spend |-> SpentBy(day) + c, date |-> day]

Grant(k, c, day) == AddEntry(k, "grant", c, day) /\ row' = row

\* A request that only starts the counter of its day: it reads the cap, or it
\* repeats a debit that is in the ledger.
StartDay(day) ==
  /\ row' = [limit |-> row.limit, spend |-> SpentBy(day), date |-> day]
  /\ UNCHANGED <<ledger, audit>>

SetLimit(l, day) ==
  /\ row' = [limit |-> l, spend |-> SpentBy(day), date |-> day]
  /\ UNCHANGED <<ledger, audit>>

Next ==
  \E day \in Days :
    \/ \E k \in Keys, c \in Amounts : Debit(k, c, day)
    \/ \E k \in Keys, c \in Amounts \ {0} : Grant(k, c, day)
    \/ StartDay(day)
    \/ \E l \in Limits : SetLimit(l, day)

Spec == Init /\ [][Next]_vars
=============================================================================
