--------------------------- MODULE PayloadTokens ---------------------------
(***************************************************************************)
(* What the gateway makes of the strings of a payload before it goes to    *)
(* the provider, and of the provider's answer                              *)
(* (sano-shield-proxy/src/sanitizers/payload-sanitizer.ts).                *)
(*                                                                         *)
(* Each string is looked at by the detectors; what they report is sorted,  *)
(* and what is empty or overlaps an accepted report is dropped.  Then,     *)
(* string after string, the accepted reports are replaced by tokens, the   *)
(* last of a string first.  The answer, here an echo of what was sent, is  *)
(* restored token after token.                                             *)
(*                                                                         *)
(* A string is a sequence of symbols: a token <<type, n>> for "[TYPE_n]",  *)
(* typed by the user or put there by the gateway, <<"letter", x>> for      *)
(* anything else, or Dollar for what String.replaceAll takes as "the text  *)
(* that was found" ("$&") when it occurs in a replacement.                 *)
(*                                                                         *)
(* A definition named "...Slip" is a mistake one could make in the         *)
(* definition below it; the specification uses none.                       *)
(***************************************************************************)
EXTENDS Integers, SequencesExt

CONSTANTS Types,       \* the types of sensitive entities
          Texts,       \* what a string of the payload may be
          Reports,     \* what a detector may report: type, start, end, confidence
          NumTexts,    \* strings in a payload
          MaxReports   \* bound: reports for one string

VARIABLES texts,    \* the strings of the payload
          reported, \* what is reported for each and not yet normalized
          found,    \* for each the accepted reports: their order is that of their starts
          allowed,  \* tokenizeEntityTypes: the types to tokenize
          at,       \* the string that is being tokenized; 0 while they are inspected
          left,     \* its accepted reports still to be looked at
          out,      \* the strings that are sent
          mapping,  \* the tokens with their originals, as inserted
          indices,  \* for each type the next number to try
          back,     \* the strings of the answer
          due,      \* for each the entry whose token is replaced; 0: not answered
          seen      \* for each how far replaceAll() has come with that entry

sentVars == <<texts, reported, found, allowed, at, left, out, mapping, indices>>
backVars == <<back, due, seen>>
tokenVars == <<sentVars, backVars>>

Places == 1 .. NumTexts
Dollar == <<"$&", 0>>
Symbols == (Types \X Nat) \cup ({"letter"} \X Nat) \cup {Dollar}
Letters(text) == {x \in ToSet(text) : x[1] = "letter"}

\* A letter is what stands at one place of a text, which therefore has it once.
ASSUME TextsAssumption ==
  /\ NumTexts \in Nat \ {0}
  /\ Types \cap {"letter", "$&"} = {}
  /\ \A text \in Texts :
       /\ text \in Seq(Symbols)
       /\ \A i, j \in DOMAIN text : text[i] = text[j] /\ text[i][1] = "letter" => i = j
  /\ \A d \in Reports : d.type \in Types /\ d.start \in Nat /\ d.end \in Nat
-----------------------------------------------------------------------------
Before(d, e) == d.start < e.start \/ (d.start = e.start /\ d.confidence > e.confidence)

Overlap(d, e) == d.start < e.end /\ d.end > e.start

Accepts(accepted, d) == d.end > d.start /\ \A e \in accepted : ~Overlap(d, e)

\* Offsets count from 0 and the end is exclusive.
Slice(text, start, end) == SubSeq(text, start + 1, end)
Spliced(text, start, end, new) ==
  Slice(text, 0, start) \o new \o Slice(text, end, Len(text))

(* What replaceAll() puts for the token of an entry.                       *)
Replacement(entry) ==
  [i \in DOMAIN entry.original |->
     IF entry.original[i] = Dollar THEN entry.token ELSE entry.original[i]]
-----------------------------------------------------------------------------
PayloadTypeOK ==
  /\ texts \in [Places -> Texts]
  /\ reported \in [Places -> SUBSET Reports] /\ found \in [Places -> SUBSET Reports]
  /\ allowed \subseteq Types /\ at \in 0 .. NumTexts + 1 /\ left \subseteq Reports
  /\ out \in [Places -> Seq(Symbols)] /\ indices \in [Types -> Nat]
  /\ mapping \in Seq([token : Types \X Nat, place : Places, original : Seq(Symbols)])
  /\ back \in [Places -> Seq(Symbols)] /\ due \in [Places -> Nat] /\ seen \in [Places -> Nat]

(* inspectPayload(): what the detectors report lies within the string.     *)
PayloadInit ==
  /\ texts \in [Places -> Texts]
  /\ reported \in [Places -> {r \in SUBSET Reports : Cardinality(r) <= MaxReports}]
  /\ \A i \in Places : \A d \in reported[i] : d.end <= Len(texts[i])
  /\ found = [i \in Places |-> {}]
  /\ allowed = {} /\ at = 0 /\ left = {}
  /\ out = texts /\ mapping = <<>> /\ indices = [type \in Types |-> 0]
  /\ back = texts /\ due = [i \in Places |-> 0] /\ seen = [i \in Places |-> 0]

(* normalizeDetections(), one round of its loop: the next report in the    *)
(* order of Before is accepted or dropped.  Strings do not affect each     *)
(* other here, so that they are taken in their order.                      *)
Normalize(i, d) ==
  /\ \A j \in 1 .. i - 1 : reported[j] = {}
  /\ d \in reported[i] /\ \A e \in reported[i] : ~Before(e, d)
  /\ reported' = [reported EXCEPT ![i] = @ \ {d}]
  /\ found' = IF Accepts(found[i], d) THEN [found EXCEPT ![i] = @ \cup {d}] ELSE found
  /\ UNCHANGED <<texts, allowed, at, left, out, mapping, indices, backVars>>

(* tokenizePayload() is called with the types to tokenize.                 *)
TokenizePayload(types) ==
  /\ at = 0 /\ \A i \in Places : reported[i] = {}
  /\ allowed' = types /\ at' = 1 /\ left' = found[1]
  /\ UNCHANGED <<texts, reported, found, out, mapping, indices, backVars>>

IsFreeSlip(token) ==
  \A i \in DOMAIN mapping : mapping[i].token # token
IsFree(token) ==
  /\ ~Contains(texts[at], token)
  /\ \A i \in DOMAIN mapping : mapping[i].token # token

\* The first number from the next one on whose token is free: every number
\* passed over is one that a symbol or an entry has.
Index(type) ==
  LET Tried == indices[type] .. indices[type] + Len(texts[at]) + Len(mapping)
  IN  CHOOSE n \in Tried : IsFree(<<type, n>>) /\ \A m \in Tried : IsFree(<<type, m>>) => n <= m

TakenSlip == CHOOSE d \in left : \A e \in left : d.start <= e.start
Taken == CHOOSE d \in left : \A e \in left : e.start <= d.start

(* The report is of a type that is not tokenized.                          *)
Skip ==
  /\ left # {} /\ Taken.type \notin allowed
  /\ left' = left \ {Taken}
  /\ UNCHANGED <<texts, reported, found, allowed, at, out, mapping, indices, backVars>>

(* It is replaced by a token.                                              *)
Tokenize ==
  /\ left # {} /\ Taken.type \in allowed
  /\ LET d == Taken
         token == <<d.type, Index(d.type)>>
     IN  /\ indices' = [indices EXCEPT ![d.type] = token[2] + 1]
         /\ mapping' = Append(mapping, [token |-> token, place |-> at,
                                        original |-> Slice(texts[at], d.start, d.end)])
         /\ out' = [out EXCEPT ![at] = Spliced(@, d.start, d.end, <<token>>)]
  /\ left' = left \ {Taken}
  /\ UNCHANGED <<texts, reported, found, allowed, at, backVars>>

(* The next string of the payload.                                         *)
Advance ==
  /\ left = {} /\ at \in Places
  /\ at' = at + 1
  /\ left' = IF at < NumTexts THEN found[at + 1] ELSE {}
  /\ UNCHANGED <<texts, reported, found, allowed, out, mapping, indices, backVars>>

AllSent == at > NumTexts

(* The provider sends back what it got, and reversePayload() begins.       *)
Echo ==
  /\ AllSent /\ \A i \in Places : due[i] = 0
  /\ back' = out /\ due' = [i \in Places |-> 1]
  /\ UNCHANGED <<sentVars, seen>>

\* Where the token of the entry still stands.
Occurrences(i) ==
  {k \in 1 .. Len(back[i]) : k > seen[i] /\ back[i][k] = mapping[due[i]].token}

(* One round of reduce() for the next of the strings that have not had all *)
(* of them: replaceAll() goes on behind what it put.                       *)
Reversing(i) == due[i] \in DOMAIN mapping /\ \A j \in 1 .. i - 1 : due[j] > Len(mapping)

Replace(i) ==
  /\ Reversing(i) /\ Occurrences(i) # {}
  /\ LET k == CHOOSE k \in Occurrences(i) : \A m \in Occurrences(i) : k <= m
         new == Replacement(mapping[due[i]])
     IN  /\ back' = [back EXCEPT ![i] = Spliced(@, k - 1, k, new)]
         /\ seen' = [seen EXCEPT ![i] = k - 1 + Len(new)]
  /\ UNCHANGED <<sentVars, due>>

NextEntry(i) ==
  /\ Reversing(i) /\ Occurrences(i) = {}
  /\ due' = [due EXCEPT ![i] = @ + 1] /\ seen' = [seen EXCEPT ![i] = 0]
  /\ UNCHANGED <<sentVars, back>>

AllReversed == \A i \in Places : due[i] > Len(mapping)

PayloadNext ==
  \/ \E i \in Places : \E d \in reported[i] : Normalize(i, d)
  \/ \E types \in SUBSET Types : TokenizePayload(types)
  \/ Skip \/ Tokenize \/ Advance
  \/ Echo \/ \E i \in Places : Replace(i) \/ NextEntry(i)

PayloadSpec == PayloadInit /\ [][PayloadNext]_tokenVars
-----------------------------------------------------------------------------
(* Properties.                                                             *)

\* The user typed in it no token that was given to another string, and no "$&"
\* in it was given a token.
Plain(i) ==
  \A e \in ToSet(mapping) :
    IF e.place = i THEN ~Contains(e.original, Dollar) ELSE ~Contains(texts[i], e.token)

(* A string that the provider sends back as it got it is restored to what  *)
(* it was, although tokens of all strings share one mapping and originals  *)
(* may look like tokens themselves; unless the user typed a token that was *)
(* given to another string, or a "$&" is restored.  (reversePayload)       *)
EchoIsRestored == AllReversed => \A i \in Places : Plain(i) => back[i] = texts[i]

(* Of an accepted report of a type to be tokenized nothing is sent: the    *)
(* replacements, which change the length of the string, do not shift those *)
(* to come.  (tokenizePayload)                                             *)
DetectedIsHidden ==
  AllSent => \A i \in Places : \A d \in found[i] :
    d.type \in allowed =>
      Letters(Slice(texts[i], d.start, d.end)) \cap Letters(out[i]) = {}

(* A token is allocated only if the user typed it nowhere in the payload.  *)
(* (test/sanitizer.test.ts:6)                                              *)
TokensAreNew ==
  \A e \in ToSet(mapping) : \A i \in Places : ~Contains(texts[i], e.token)
-----------------------------------------------------------------------------
(* Why it holds.                                                           *)

Tokenizing == at \in Places

\* No report is accepted that shares a symbol with another one.
AcceptedAreApart ==
  \A i \in Places :
    /\ \A d \in reported[i] : d.end <= Len(texts[i])
    /\ \A d \in found[i] : d.start < d.end /\ d.end <= Len(texts[i])
    /\ \A d, e \in found[i] : d = e \/ ~Overlap(d, e)

\* The strings are inspected, then tokenized in their order, and each of them
\* from its end.
InTurn ==
  /\ at > 0 => \A i \in Places : reported[i] = {}
  /\ IF Tokenizing THEN left \subseteq found[at] ELSE left = {}
  /\ Tokenizing => \A d \in left, e \in found[at] \ left : d.end <= e.start
  /\ \A i \in Places : i > at => out[i] = texts[i]

\* Up to a report still to be looked at the string is as it was, and what
\* follows it comes from what followed it.
UntouchedUpTo(end, new, old) ==
  /\ end <= Len(new)
  /\ \A k \in 1 .. end : new[k] = old[k]
  /\ \A k \in end + 1 .. Len(new) : new[k][1] = "letter" =>
       \E j \in end + 1 .. Len(old) : new[k] = old[j]

StartIsUntouched ==
  Tokenizing => \A d \in left : UntouchedUpTo(d.end, out[at], texts[at])

Hidden(i, d) ==
  d.type \in allowed => Letters(Slice(texts[i], d.start, d.end)) \cap Letters(out[i]) = {}

PassedAreHidden ==
  /\ Tokenizing => \A d \in found[at] \ left : Hidden(at, d)
  /\ \A i \in Places : i < at => \A d \in found[i] : Hidden(i, d)

(* A token stands for one original, and the user did not type it in the    *)
(* string that it is put into.  (tokenizePayload, lines 116-121)           *)
TokensAreDistinct ==
  /\ \A j, k \in DOMAIN mapping : mapping[j].token = mapping[k].token => j = k
  /\ \A e \in ToSet(mapping) : ~Contains(texts[e.place], e.token)

\* How much of a text the start of a string stands for: a symbol for itself, or
\* the token of one of the entries for its original.
StandsFor(upTo, string, text, entries) ==
  /\ upTo \in [0 .. Len(string) -> 0 .. Len(text)]
  /\ upTo[0] = 0 /\ upTo[Len(string)] = Len(text)
  /\ \A k \in 1 .. Len(string) :
       \/ upTo[k] = upTo[k - 1] + 1 /\ string[k] = text[upTo[k]]
       \/ /\ upTo[k - 1] <= upTo[k]
          /\ \E e \in entries : e.token = string[k]
                                /\ e.original = Slice(text, upTo[k - 1], upTo[k])

\* The entries of a string from the n-th on.
EntriesFrom(n, i) == {mapping[m] : m \in {m \in DOMAIN mapping : m >= n /\ mapping[m].place = i}}

SentStandsFor ==
  \A i \in Places : \E upTo \in [0 .. Len(out[i]) -> 0 .. Len(texts[i])] :
    /\ StandsFor(upTo, out[i], texts[i], EntriesFrom(1, i))
    /\ i = at => \A d \in left : \A k \in 0 .. d.end : upTo[k] = k

BackStandsFor ==
  \A i \in Places :
    /\ due[i] = 0 => seen[i] = 0
    /\ due[i] > 0 => AllSent
    /\ due[i] > 0 /\ Plain(i) =>
         \E upTo \in [0 .. Len(back[i]) -> 0 .. Len(texts[i])] :
           StandsFor(upTo, back[i], texts[i], EntriesFrom(due[i], i))

\* replaceAll() leaves no token behind.
SeenIsReplaced ==
  \A i \in Places : due[i] \in DOMAIN mapping /\ Plain(i) =>
    \A k \in DOMAIN back[i] : k <= seen[i] => back[i][k] # mapping[due[i]].token

(* The inductive invariant.                                                *)
PayloadIndInv ==
  PayloadTypeOK /\ AcceptedAreApart /\ InTurn /\ StartIsUntouched /\ PassedAreHidden
  /\ TokensAreDistinct /\ SentStandsFor /\ BackStandsFor /\ SeenIsReplaced
=============================================================================
