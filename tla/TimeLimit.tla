----------------------------- MODULE TimeLimit -----------------------------
(***************************************************************************)
(* What the column Time Limit of a CSV file means to the catalogue:        *)
(* classifyTimeLimitDuration, the prices of priceFromTimeLimit, and the    *)
(* preview of an import (getImportTypeRecommendations) beside the type     *)
(* that importFromCSV creates.  Nothing is stored; these are functions.    *)
(*                                                                         *)
(* A time limit is a number, written without leading zeros, followed by a  *)
(* unit, in lower case and without blanks; Empty is a column that is empty *)
(* or missing.  The unit "bare" is none at all; "other" is one that no     *)
(* comparison of the code mentions, as in 45min.                           *)
(***************************************************************************)
EXTENDS Integers, Sequences, TLAPS

CONSTANTS
  TICKET_PRICE_24H, TICKET_PRICE_7D, TICKET_PRICE_30D

Number == 0..999       \* up to three digits, as in 720h
Unit == {"bare", "h", "d", "j", "day", "w", "week", "m", "month", "other"}
Empty == [n |-> 0, unit |-> "empty"]
Limit == [n : Number, unit : Unit] \cup {Empty}

Durations == {"24h", "7j", "30j"}

(* The text of the time limit ends with these digits before its unit. *)
Ends(w, digits, width) == w.n % width = digits

InDays(w) == w.unit \in {"d", "day", "j"}

(* t.includes('30'): two digits next to each other. *)
Contains30(w) == w.n % 100 = 30 \/ w.n \div 10 = 30

Is30j(w) ==
  \/ InDays(w) /\ Ends(w, 30, 100)
  \/ w.unit = "h" /\ Ends(w, 720, 1000)
  \/ w.unit = "m" /\ w.n = 1
  \/ w.unit = "month" /\ Ends(w, 1, 10)

Is7j(w) ==
  \/ InDays(w) /\ Ends(w, 7, 10)
  \/ w.unit = "h" /\ Ends(w, 168, 1000)
  \/ w.unit = "w" /\ w.n = 1
  \/ w.unit = "week" /\ Ends(w, 1, 10)

classifyTimeLimitDuration(w) ==
  IF w = Empty THEN "24h"
  ELSE IF Is30j(w) THEN "30j"
  ELSE IF Is7j(w) THEN "7j"
  ELSE IF Contains30(w) THEN "30j"
  ELSE IF w.unit = "bare" /\ w.n = 7 THEN "7j"
  ELSE "24h"

Price(d) ==
  IF d = "30j" THEN TICKET_PRICE_30D
  ELSE IF d = "7j" THEN TICKET_PRICE_7D ELSE TICKET_PRICE_24H

priceFromTimeLimit(w) == Price(classifyTimeLimitDuration(w))

getDurationTimeLimit(d) ==
  IF d = "30j" THEN [n |-> 30, unit |-> "d"]
  ELSE IF d = "7j" THEN [n |-> 7, unit |-> "d"] ELSE [n |-> 24, unit |-> "h"]
-----------------------------------------------------------------------------
OrDefault(w) == IF w = Empty THEN [n |-> 24, unit |-> "h"] ELSE w

(* The preview groups the lines of a file by their class ... *)
LinesOf(file, d) ==
  {i \in DOMAIN file : classifyTimeLimitDuration(OrDefault(file[i])) = d}

(* ... and prices a group by its first line. *)
Sample(file, d, i) == i \in LinesOf(file, d) /\ \A j \in LinesOf(file, d) : i <= j

recommendedPrice(file, i) == priceFromTimeLimit(OrDefault(file[i]))

(* The type an import creates for a duration. *)
CreatedType(d) ==
  [profile |-> d, timeLimit |-> getDurationTimeLimit(d),
   price |-> priceFromTimeLimit(getDurationTimeLimit(d))]
-----------------------------------------------------------------------------
(* A time limit of so many hours; m is taken for a month and a bare number *)
(* for days, as the classes have it.                                       *)
Lasts(w, hours) ==
  \/ w.unit = "h" /\ w.n = hours
  \/ (InDays(w) \/ w.unit = "bare") /\ 24 * w.n = hours
  \/ w.unit \in {"w", "week"} /\ 168 * w.n = hours
  \/ w.unit \in {"m", "month"} /\ 720 * w.n = hours

(* What the digits of the standard numbers look like to the classes. *)
LEMMA Digits ==
  /\ 24 % 1000 # 720 /\ 24 % 1000 # 168 /\ 24 % 100 # 30 /\ 24 \div 10 # 30
  /\ 168 % 1000 = 168 /\ 720 % 1000 = 720
  /\ 1 % 100 # 30 /\ 1 \div 10 # 30 /\ 1 % 10 = 1 /\ 1 % 10 # 7
  /\ 7 % 100 # 30 /\ 7 \div 10 # 30 /\ 7 % 10 = 7
  /\ 30 % 100 = 30 /\ 30 % 10 # 7
OBVIOUS

LEMMA Multiples ==
  ASSUME NEW n \in Int
  PROVE  /\ 24 * n = 24 => n = 1
         /\ 24 * n = 168 => n = 7
         /\ 24 * n = 720 => n = 30
         /\ 168 * n # 24 /\ 168 * n # 720 /\ (168 * n = 168 => n = 1)
         /\ 720 * n # 24 /\ 720 * n # 168 /\ (720 * n = 720 => n = 1)
OBVIOUS

LEMMA FieldsOfLimit ==
  ASSUME NEW w \in Limit, w # Empty
  PROVE  w.n \in Int
BY DEF Limit, Number

LEMMA OneDay ==
  ASSUME NEW w \in Limit, w # Empty, Lasts(w, 24)
  PROVE  classifyTimeLimitDuration(w) = "24h"
<1>1. w.n \in Int
  BY FieldsOfLimit
<1>2. \/ w.unit = "h" /\ w.n = 24
      \/ (InDays(w) \/ w.unit = "bare") /\ w.n = 1
  BY <1>1, Multiples DEF Lasts
<1>3. ~Is30j(w)
  BY <1>2, Digits DEF Is30j, InDays, Ends
<1>4. ~Is7j(w)
  BY <1>2, Digits DEF Is7j, InDays, Ends
<1>5. ~Contains30(w) /\ w.n # 7
  BY <1>2, Digits DEF Contains30
<1>. QED
  BY <1>3, <1>4, <1>5 DEF classifyTimeLimitDuration

LEMMA SevenDays ==
  ASSUME NEW w \in Limit, w # Empty, Lasts(w, 168)
  PROVE  classifyTimeLimitDuration(w) = "7j"
<1>1. w.n \in Int
  BY FieldsOfLimit
<1>2. \/ w.unit = "h" /\ w.n = 168
      \/ (InDays(w) \/ w.unit = "bare") /\ w.n = 7
      \/ w.unit \in {"w", "week"} /\ w.n = 1
  BY <1>1, Multiples DEF Lasts
<1>3. ~Is30j(w)
  BY <1>2, Digits DEF Is30j, InDays, Ends
<1>4. Is7j(w) \/ (w.unit = "bare" /\ w.n = 7 /\ ~Contains30(w))
  BY <1>2, Digits DEF Is7j, InDays, Ends, Contains30
<1>. QED
  BY <1>3, <1>4 DEF classifyTimeLimitDuration

LEMMA ThirtyDays ==
  ASSUME NEW w \in Limit, w # Empty, Lasts(w, 720)
  PROVE  classifyTimeLimitDuration(w) = "30j"
<1>1. w.n \in Int
  BY FieldsOfLimit
<1>2. \/ w.unit = "h" /\ w.n = 720
      \/ (InDays(w) \/ w.unit = "bare") /\ w.n = 30
      \/ w.unit \in {"m", "month"} /\ w.n = 1
  BY <1>1, Multiples DEF Lasts
<1>3. Is30j(w) \/ (w.unit = "bare" /\ w.n = 30)
  BY <1>2, Digits DEF Is30j, InDays, Ends
<1>4. w.unit = "bare" /\ w.n = 30 => ~Is7j(w) /\ Contains30(w)
  BY Digits DEF Is7j, InDays, Ends, Contains30
<1>. QED
  BY <1>3, <1>4 DEF classifyTimeLimitDuration

(* Every way of writing one day, seven days or thirty days falls into the   *)
(* class of that length, although classifyTimeLimitDuration looks for parts *)
(* of the text in a fixed order.                                            *)
THEOREM StandardLengths ==
  ASSUME NEW w \in Limit, w # Empty
  PROVE  /\ Lasts(w, 24) => classifyTimeLimitDuration(w) = "24h"
         /\ Lasts(w, 168) => classifyTimeLimitDuration(w) = "7j"
         /\ Lasts(w, 720) => classifyTimeLimitDuration(w) = "30j"
BY OneDay, SevenDays, ThirtyDays

(* The type an import creates is found again by the time limit it carries.   *)
THEOREM CreatedTypeFits ==
  ASSUME NEW d \in Durations
  PROVE  classifyTimeLimitDuration(CreatedType(d).timeLimit) = d
<1>. DEFINE w == CreatedType(d).timeLimit
<1>1. w = getDurationTimeLimit(d)
  BY DEF CreatedType
<1>2. w \in Limit /\ w # Empty
  BY <1>1 DEF getDurationTimeLimit, Limit, Number, Unit, Empty
<1>3. CASE d = "24h"
  <2>1. w.unit = "h" /\ w.n = 24
    BY <1>1, <1>3 DEF getDurationTimeLimit
  <2>. QED
    BY <1>2, <1>3, <2>1, StandardLengths DEF Lasts
<1>4. CASE d = "7j"
  <2>1. w.unit = "d" /\ w.n = 7
    BY <1>1, <1>4 DEF getDurationTimeLimit
  <2>2. 24 * 7 = 168
    OBVIOUS
  <2>. QED
    BY <1>2, <1>4, <2>1, <2>2, StandardLengths DEF Lasts, InDays
<1>5. CASE d = "30j"
  <2>1. w.unit = "d" /\ w.n = 30
    BY <1>1, <1>5 DEF getDurationTimeLimit
  <2>2. 24 * 30 = 720
    OBVIOUS
  <2>. QED
    BY <1>2, <1>5, <2>1, <2>2, StandardLengths DEF Lasts, InDays
<1>. QED
  BY <1>3, <1>4, <1>5 DEF Durations

(* The price the preview recommends for a group of lines is the price of the *)
(* type that an import under this duration creates, whichever line comes     *)
(* first and however its time limit is written.                              *)
THEOREM RecommendedPriceIsCharged ==
  ASSUME NEW file \in Seq(Limit), NEW d \in Durations,
         NEW i \in DOMAIN file, Sample(file, d, i)
  PROVE  recommendedPrice(file, i) = CreatedType(d).price
<1>1. classifyTimeLimitDuration(OrDefault(file[i])) = d
  BY DEF Sample, LinesOf
<1>2. classifyTimeLimitDuration(getDurationTimeLimit(d)) = d
  BY CreatedTypeFits DEF CreatedType
<1>. QED
  BY <1>1, <1>2 DEF recommendedPrice, CreatedType, priceFromTimeLimit
=============================================================================
