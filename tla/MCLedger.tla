---------------------------- MODULE MCLedger -----------------------------
(* Small instances of Ledger for TLC.  A shop was paid twice on one day: b1 *)
(* and b2 at the bank, x1 in the archive file, which has a comment and      *)
(* another date for it; c1 is of a second account at the bank, which bears  *)
(* the same name, and two days later.                                       *)
EXTENDS Ledger

CONSTANTS x1, b1, b2, c1, archive, checking, savings, shop, food, note, comment

MCHome == [p \in Posting |->
  CASE p = c1 -> savings [] p \in Bank \ {c1} -> checking [] OTHER -> archive]
\* Two unrelated bank accounts.
MCApart == [p \in Posting |-> IF p = b1 THEN checking ELSE savings]
\* All accounts were given one name.
MCNamesakes == kSubset(2, Account)
MCDay == [p \in Posting |-> IF p = c1 THEN 4 ELSE 2]
MCText == [p \in Posting |-> [ref |-> None, refs |-> {}, method |-> None, payee |-> shop]]
MCFixed == [p \in Posting |-> {-3}]
MCCorrected == [p \in Posting |-> IF p \in Bank THEN {-3, -4} ELSE {-3}]
MCGuess == [p \in Posting |-> IF p \in Bank THEN Uncategorised ELSE food]
MCWritten == [p \in Posting |-> IF p \in Bank THEN {} ELSE {comment} \cap Mark]
MCRedated == [p \in Posting |-> IF p \in Bank THEN NoDay ELSE 4]
==========================================================================
