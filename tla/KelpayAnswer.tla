---------------------------- MODULE KelpayAnswer ----------------------------
(***************************************************************************)
(* How the backend reads what Kelpay says of a transaction: the parser of  *)
(* kelpay-response.util.ts and its three readers (verify; confirm and the  *)
(* callback; the inference from the fields).  The only state is the body   *)
(* that Kelpay writes, one field after the other; KelpayClient says when.   *)
(*                                                                         *)
(* A key is named by its normalised spelling.  A value is a word, perhaps  *)
(* with blanks around it; the word of a status is in capitals without      *)
(* inner blanks.  Slip... operators are the next definition with a         *)
(* programming error in it (see SalesTables).                              *)
(***************************************************************************)
EXTENDS Naturals, Sequences, FiniteSets

CONSTANTS
  CodeWords, StatusWords    \* the words Kelpay uses in this instance

StatusKeys == {"transactionstatus", "transaction_status"}
Null == "null"              \* a JSON null; it is empty in a form
NoWord == ""                \* a value of blanks or of nothing

VARIABLE written            \* Seq of fields, as Kelpay writes them

Field == [key : {"code"} \cup StatusKeys,
          word : CodeWords \cup StatusWords \cup {NoWord, Null}, blanks : BOOLEAN]

Body == {b \in Seq(Field) : Len(b) <= 2}

TypeOK == written \in Body

(* Slip: the field is written twice. *)
SlipTwice(f) ==
  /\ \A i \in DOMAIN written : (written[i].key = "code") # (f.key = "code")
  /\ written' = written \o <<f, f>>

(* Kelpay writes the code and the status at most once, the status under one *)
(* of its two spellings, in any order.                                      *)
Write(f) ==
  /\ \A i \in DOMAIN written : (written[i].key = "code") # (f.key = "code")
  /\ f.word \in (IF f.key = "code" THEN CodeWords ELSE StatusWords) \cup {NoWord, Null}
  /\ f.word = Null => ~f.blanks
  /\ written' = Append(written, f)

-----------------------------------------------------------------------------
Trim(v) == [v EXCEPT !.blanks = FALSE]
Value(f) == [word |-> f.word, blanks |-> f.blanks]
Empty == [word |-> NoWord, blanks |-> FALSE]

(* What parseKelpayResponse stores of one field; <<>> if it stores nothing. *)
(* "broken" is a body that starts like JSON and is none.                    *)
Stored(form, f) ==
  CASE form = "json" /\ f.word # Null -> <<[key |-> f.key, value |-> Value(f)]>>
    [] form = "form" ->
         <<[key |-> f.key, value |-> IF f.word = Null THEN Empty ELSE Trim(Value(f))]>>
    [] OTHER -> <<>>

Fields(form, body) ==
  LET after[n \in 0..Len(body)] ==
        IF n = 0 THEN <<>> ELSE after[n - 1] \o Stored(form, body[n])
  IN after[Len(body)]

(* pickField: the first entry under one of the keys that is not empty. *)
PickField(fields, keys) ==
  LET hits == {i \in DOMAIN fields :
                 fields[i].key \in keys /\ fields[i].value # Empty}
  IN IF hits = {} THEN Empty
     ELSE fields[CHOOSE i \in hits : \A j \in hits : i <= j].value

(* pickFieldAllowEmpty, as buildKeccelFlat uses it for the code. *)
FlatCode(fields) ==
  IF \E i \in DOMAIN fields : fields[i].key = "code"
    THEN fields[CHOOSE i \in DOMAIN fields : fields[i].key = "code"].value
    ELSE Empty

(* Slip: getKelpayCode does not trim. *)
SlipUntrimmedCode(fields) == PickField(fields, {"code"})

GetKelpayCode(fields) == Trim(PickField(fields, {"code"}))
-----------------------------------------------------------------------------
Contains(word, part) ==
  \E i \in 0..(Len(word) - Len(part)) : SubSeq(word, i + 1, i + Len(part)) = part

FailureWord(u) ==
  \/ u \in {"REJECTED", "DECLINED"}
  \/ Contains(u, "FAIL") \/ Contains(u, "CANCEL")

PendingWord(u) ==
  u \in {"PENDING", "PROCESSING", "WAITING", "INITIATED", "SUBMITTED", "UNKNOWN"}

SuccessWord(u) ==
  u \in {"SUCCESS", "DELIVERED", "COMPLETED", "COMPLETE", "SETTLED", "PAID",
         "CONFIRMED", "APPROVED", "SUCCESSFUL"}

OfStatus(u) ==
  CASE FailureWord(u) -> "failed"
    [] ~FailureWord(u) /\ ~PendingWord(u) /\ SuccessWord(u) -> "success"
    [] OTHER -> "unknown"

OfCode(c) ==
  CASE c = [word |-> "0", blanks |-> FALSE] -> "success"
    [] c = [word |-> "1", blanks |-> FALSE] -> "failed"
    [] OTHER -> "undecided"

(* Slip: whatever is not pending and not failed counts as paid. *)
SlipElseSuccess(fields) ==
  IF OfCode(GetKelpayCode(fields)) # "undecided" THEN OfCode(GetKelpayCode(fields))
  ELSE LET u == PickField(fields, StatusKeys).word
       IN IF FailureWord(u) THEN "failed" ELSE IF PendingWord(u) THEN "unknown" ELSE "success"

(* Slip: the status is looked at before the code. *)
SlipStatusFirst(fields) ==
  LET s == OfStatus(PickField(fields, StatusKeys).word)
      c == OfCode(GetKelpayCode(fields)) IN
  IF s # "unknown" THEN s ELSE IF c = "undecided" THEN "unknown" ELSE c

InferKelpayCheckOutcome(fields) ==
  LET c == OfCode(GetKelpayCode(fields))
  IN IF c # "undecided" THEN c ELSE OfStatus(PickField(fields, StatusKeys).word)

(* resolveKelpayCheckTerminal: confirm and the callback. *)
Resolve(fields) ==
  LET c == OfCode(Trim(FlatCode(fields)))
  IN IF c # "undecided" THEN c ELSE InferKelpayCheckOutcome(fields)

(* Slip: verify reads code 1 as "accepted", as payment.asp means it. *)
SlipVerifyAsInitiate(fields) ==
  LET c == OfCode(FlatCode(fields))
  IN IF c = "success" THEN c ELSE OfStatus(PickField(fields, StatusKeys).word)

(* The branches of verifyKelpayPayment, which compare the code untrimmed. *)
VerifyBranch(fields) ==
  LET c == OfCode(FlatCode(fields))
  IN IF c # "undecided" THEN c ELSE InferKelpayCheckOutcome(fields)
-----------------------------------------------------------------------------
Forms == {"json", "form", "broken"}
Outcome == Resolve(Fields("json", written))

(* The same answer is read the same way as JSON and as a form: blanks, nulls *)
(* and empty values, which the two parsers treat differently, do not show.   *)
FormatIrrelevant ==
  LET json == Fields("json", written)
      form == Fields("form", written) IN
  /\ Resolve(json) = Resolve(form)
  /\ VerifyBranch(json) = VerifyBranch(form)

(* verify, which has branches of its own, and confirm and the callback never *)
(* disagree on an answer: one of them would close a payment the other keeps. *)
ReadersAgree ==
  \A form \in Forms : VerifyBranch(Fields(form, written)) = Resolve(Fields(form, written))

(* "code en premier": once the answer says 0 or 1, no other field that Kelpay *)
(* adds changes how it is read.                                              *)
CodeOutranksStatus ==
  [][\A f \in Field :
       /\ written' = Append(written, f) /\ f.key # "code"
       /\ OfCode(GetKelpayCode(Fields("json", written))) # "undecided"
       => Outcome' = Outcome]_written

(* A payment is closed only on a word that says so: an answer that is read   *)
(* as paid holds code 0 or a success word, one read as failed code 1 or a    *)
(* failure word, and a body that cannot be parsed is read as neither.        *)
OutcomeIsStated ==
  LET says(key, P(_)) == \E i \in DOMAIN written : written[i].key \in key /\ P(written[i].word)
  IN /\ Outcome = "success" =>
          \/ says({"code"}, LAMBDA w : w = "0") \/ says(StatusKeys, SuccessWord)
     /\ Outcome = "failed" =>
          \/ says({"code"}, LAMBDA w : w = "1") \/ says(StatusKeys, FailureWord)
     /\ Resolve(Fields("broken", written)) = "unknown"
=============================================================================
