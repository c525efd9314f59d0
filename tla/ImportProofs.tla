---------------------------- MODULE ImportProofs ----------------------------
(***************************************************************************)
(* Proofs about TicketImport: what imports report is what they stored, for *)
(* any number of imports, files of any length and any set of types.        *)
(***************************************************************************)
EXTENDS TicketImport, FiniteSetTheorems, TLAPS

USE ImportAssumption DEF Line

LEMMA ReadyIsImport == Ready \in Import /\ AddsUp(Ready)
BY DEF Ready, Import, AddsUp

(* A record whose import is under way: all that ImportInv says of it alone. *)
Fit(r) ==
  /\ r \in Import
  /\ r.pc \in {"line", "save"} => r.type \in Types /\ r.left # <<>>
  /\ AddsUp(r)

LEMMA FitIfInv == ASSUME ImportInv, NEW i \in Imports PROVE Fit(import[i])
BY DEF ImportInv, TypeOK, LinesAccounted, Fit

(* A step that only moves one import on keeps the invariant if the record it *)
(* leaves is fit and sound and forgets neither its count nor its type.       *)
LEMMA MoveStep ==
  ASSUME ImportInv, NEW i \in Imports, NEW STATE r, Fit(r), Sound(r),
         r.imported = import[i].imported,
         import[i].type # None => r.type = import[i].type /\ r.asked = import[i].asked,
         Become(i, r), UNCHANGED <<ticket, type, deleted>>
  PROVE  ImportInv'
<1>. USE DEF Become
<1>1. \A j \in Imports : import'[j] = IF j = i THEN r ELSE import[j]
  BY DEF ImportInv, TypeOK
<1>2. TypeOK'
  BY <1>1 DEF ImportInv, TypeOK, Fit
<1>3. LinesAccounted'
  BY <1>1 DEF ImportInv, LinesAccounted, Fit, AddsUp
<1>4. ReportedIsStored'
  BY <1>1 DEF ImportInv, ReportedIsStored, StoredBy
<1>5. TypeIsAsked'
  BY <1>1 DEF ImportInv, TypeIsAsked, RowsSound
<1>6. ImportsSound'
  BY <1>1 DEF ImportInv, ImportsSound, Sound
<1>7. RowsSound'
  BY DEF ImportInv, RowsSound
<1>. QED
  BY <1>2, <1>3, <1>4, <1>5, <1>6, <1>7 DEF ImportInv

LEMMA OneLineLess ==
  ASSUME NEW a \in Nat, NEW b \in Nat, NEW c \in Nat,
         NEW ok \in {0, 1}, NEW bad \in {0, 1}, ok + bad = 1
  PROVE  (a + ok) + (b + bad) + (c - 1) = a + b + c
OBVIOUS

(* What becomes of a record when its current line is dealt with. *)
LEMMA LineDone ==
  ASSUME NEW q, Fit(q), Sound(q), q.pc \in {"line", "save"},
         NEW ok \in {0, 1}, NEW bad \in {0, 1}, ok + bad = 1
  PROVE  LET r == NextLine(q, ok, bad) IN
         /\ Fit(r) /\ Sound(r)
         /\ r.type = q.type /\ r.asked = q.asked /\ r.imported = q.imported + ok
<1>. DEFINE r == NextLine(q, ok, bad)
<1>1. q \in Import /\ q.type \in Types /\ q.left # <<>> /\ AddsUp(q)
  BY DEF Fit
<1>2. /\ q.left \in Seq(Names \cup {Invalid}) /\ q.file \in Seq(Names \cup {Invalid})
      /\ q.imported \in Nat /\ q.failed \in Nat
  BY <1>1 DEF Import
<1>3. /\ Tail(q.left) \in Seq(Names \cup {Invalid})
      /\ Len(q.left) \in Nat \ {0}
      /\ Len(Tail(q.left)) = Len(q.left) - 1
  BY <1>1, <1>2
<1>4. /\ r.left = Tail(q.left)
      /\ r.pc = IF Len(q.left) = 1 THEN "done" ELSE "line"
      /\ r.type = q.type /\ r.asked = q.asked /\ r.file = q.file
      /\ r.imported = q.imported + ok /\ r.failed = q.failed + bad
  BY <1>1 DEF NextLine, Import
<1>5. r \in Import
  <2>1. \A l \in Seq(Names \cup {Invalid}), n, f \in Nat, pc \in {"line", "done"} :
          [q EXCEPT !.left = l, !.imported = n, !.failed = f, !.pc = pc] \in Import
    BY <1>1 DEF Import
  <2>2. q.imported + ok \in Nat /\ q.failed + bad \in Nat
    BY <1>2
  <2>3. (IF Len(q.left) = 1 THEN "done" ELSE "line") \in {"line", "done"}
    OBVIOUS
  <2>. QED
    BY <1>3, <2>1, <2>2, <2>3 DEF NextLine
<1>6. r.pc = "line" => r.left # <<>>
  <2>1. Len(<<>>) = 0
    OBVIOUS
  <2>2. Len(q.left) # 1 => Len(Tail(q.left)) # 0
    BY <1>3
  <2>. HIDE DEF r
  <2>3. r.pc = "line" => Len(q.left) # 1
    BY <1>4
  <2>. QED
    BY <1>4, <2>1, <2>2, <2>3
<1>7. AddsUp(r)
  <2>1. Len(q.file) \in Nat /\ q.type # None
    BY <1>1, <1>2
  <2>2. q.imported + q.failed + Len(q.left) = Len(q.file)
    BY <1>1, <2>1 DEF AddsUp
  <2>3. (q.imported + ok) + (q.failed + bad) + Len(Tail(q.left)) = Len(q.file)
    <3>1. Len(Tail(q.left)) = Len(q.left) - 1 /\ Len(q.left) \in Nat
      BY <1>3
    <3>2. ok \in Nat /\ bad \in Nat
      OBVIOUS
    <3>3. q.imported \in Nat /\ q.failed \in Nat
      BY <1>2
    <3>4. (q.imported + ok) + (q.failed + bad) + (Len(q.left) - 1)
            = q.imported + q.failed + Len(q.left)
      <4>1. \A a, b, c \in Nat : (a + ok) + (b + bad) + (c - 1) = a + b + c
        BY OneLineLess
      <4>2. Len(q.left) \in Nat
        BY <3>1
      <4>. QED
        BY <3>3, <4>1, <4>2
    <3>. QED
      BY <2>2, <3>1, <3>4
  <2>. HIDE DEF r
  <2>4. r.imported + r.failed + Len(r.left) = Len(r.file)
    BY <1>4, <2>3
  <2>. QED
    BY <1>4, <2>1, <2>4 DEF AddsUp
<1>8. Sound(r)
  <2>. HIDE DEF r
  <2>. QED
    BY <1>1, <1>4 DEF Sound
<1>. QED
  BY <1>1, <1>4, <1>5, <1>6, <1>7, <1>8 DEF Fit
-----------------------------------------------------------------------------
(* A line that ends without a new row. *)
LEMMA FailStep ==
  ASSUME ImportInv, NEW i \in Imports, import[i].pc \in {"line", "save"},
         Become(i, Failed(import[i])), UNCHANGED <<ticket, type, deleted>>
  PROVE  ImportInv'
<1>. DEFINE r == Failed(import[i])
<1>1. Fit(import[i]) /\ Sound(import[i])
  BY FitIfInv DEF ImportInv, ImportsSound
<1>2. /\ Fit(r) /\ Sound(r)
      /\ r.type = import[i].type /\ r.asked = import[i].asked
      /\ r.imported = import[i].imported + 0
  BY <1>1, LineDone DEF Failed
<1>3. import[i].imported \in Nat
  BY <1>1 DEF Fit, Import
<1>. HIDE DEF r
<1>4. r.imported = import[i].imported
  BY <1>2, <1>3
<1>. QED
  BY <1>2, <1>4, MoveStep DEF r

LEMMA StoredIsFinite == \A i : IsFiniteSet(StoredBy(i))
BY FS_Subset DEF StoredBy

(* A line that stores a row: one more in the report, one more in the table. *)
LEMMA StoreStep ==
  ASSUME ImportInv, NEW i \in Imports, import[i].pc = "save",
         NEW n \in Names, ticket[n] = NoTicket,
         ticket' = [ticket EXCEPT ![n] = [type |-> import[i].type, from |-> i]],
         Become(i, Counted(import[i])), UNCHANGED <<type, deleted>>
  PROVE  ImportInv'
<1>. DEFINE q == import[i]
            r == Counted(q)
<1>1. Fit(q) /\ Sound(q) /\ q.type \in Types /\ q.type # None
  BY FitIfInv DEF ImportInv, ImportsSound, Fit
<1>2. /\ Fit(r) /\ Sound(r)
      /\ r.type = q.type /\ r.asked = q.asked /\ r.imported = q.imported + 1
  BY <1>1, LineDone DEF Counted
<1>. HIDE DEF r
<1>3. \A j \in Imports : import'[j] = IF j = i THEN r ELSE import[j]
  BY DEF ImportInv, TypeOK, Become, r
<1>4. \A m \in Names : ticket'[m] =
        IF m = n THEN [type |-> q.type, from |-> i] ELSE ticket[m]
  BY DEF ImportInv, TypeOK
<1>5. TypeOK'
  <2>1. ticket' \in [Names -> TicketRow]
    BY <1>1 DEF ImportInv, TypeOK, TicketRow
  <2>2. import' \in [Imports -> Import]
    BY <1>2 DEF ImportInv, TypeOK, Become, Fit, r
  <2>. QED
    BY <1>2, <1>3, <2>1, <2>2 DEF ImportInv, TypeOK, Fit
<1>6. LinesAccounted'
  BY <1>2, <1>3 DEF ImportInv, LinesAccounted, Fit, AddsUp
<1>7. ReportedIsStored'
  <2>1. ticket[n].from = None
    BY DEF NoTicket
  <2>2. StoredBy(i)' = StoredBy(i) \cup {n} /\ n \notin StoredBy(i)
    BY <1>4, <2>1 DEF StoredBy
  <2>3. \A j \in Imports : j # i => StoredBy(j)' = StoredBy(j)
    BY <1>4, <2>1 DEF StoredBy
  <2>4. Cardinality(StoredBy(i)') = Cardinality(StoredBy(i)) + 1
    BY <2>2, StoredIsFinite, FS_AddElement
  <2>5. Cardinality(StoredBy(i)) \in Nat /\ deleted[i] \in Nat
    BY StoredIsFinite, FS_CardinalityType DEF ImportInv, TypeOK
  <2>6. q.imported = Cardinality(StoredBy(i)) + deleted[i]
    BY DEF ImportInv, ReportedIsStored
  <2>7. r.imported = Cardinality(StoredBy(i)') + deleted[i]
    BY <1>2, <2>4, <2>5, <2>6
  <2>. QED
    BY <1>3, <2>3, <2>7 DEF ImportInv, ReportedIsStored
<1>8. TypeIsAsked'
  BY <1>1, <1>2, <1>3, <1>4 DEF ImportInv, TypeIsAsked, RowsSound, Sound
<1>9. ImportsSound'
  BY <1>2, <1>3 DEF ImportInv, ImportsSound, Sound
<1>10. RowsSound'
  BY <1>1, <1>4 DEF ImportInv, RowsSound
<1>. QED
  BY <1>5, <1>6, <1>7, <1>8, <1>9, <1>10 DEF ImportInv

LEMMA RemoveStep ==
  ASSUME ImportInv, NEW n \in Names, RemoveTicket(n)
  PROVE  ImportInv'
<1>. USE DEF RemoveTicket
<1>1. PICK i \in Imports : i = ticket[n].from
  BY DEF ImportInv, RowsSound
<1>2. \A m \in Names : ticket'[m] = IF m = n THEN NoTicket ELSE ticket[m]
  BY DEF ImportInv, TypeOK
<1>3. \A j \in Imports : deleted'[j] = IF j = i THEN deleted[j] + 1 ELSE deleted[j]
  BY <1>1 DEF ImportInv, TypeOK
<1>4. TypeOK'
  <2>1. ticket' \in [Names -> TicketRow]
    BY DEF ImportInv, TypeOK, TicketRow, NoTicket
  <2>2. deleted' \in [Imports -> Nat]
    BY <1>1 DEF ImportInv, TypeOK
  <2>. QED
    BY <2>1, <2>2 DEF ImportInv, TypeOK
<1>5. ReportedIsStored'
  <2>1. StoredBy(i)' = StoredBy(i) \ {n} /\ n \in StoredBy(i)
    BY <1>1, <1>2 DEF StoredBy, NoTicket
  <2>2. \A j \in Imports : j # i => StoredBy(j)' = StoredBy(j)
    BY <1>1, <1>2 DEF StoredBy, NoTicket
  <2>3. Cardinality(StoredBy(i)') = Cardinality(StoredBy(i)) - 1
    BY <2>1, StoredIsFinite, FS_RemoveElement
  <2>4. Cardinality(StoredBy(i)) \in Nat /\ deleted[i] \in Nat
    BY <1>1, StoredIsFinite, FS_CardinalityType DEF ImportInv, TypeOK
  <2>5. import[i].imported = Cardinality(StoredBy(i)) + deleted[i]
    BY <1>1 DEF ImportInv, ReportedIsStored
  <2>6. import[i].imported = Cardinality(StoredBy(i)') + deleted'[i]
    BY <1>1, <1>3, <2>3, <2>4, <2>5
  <2>. QED
    BY <1>3, <2>2, <2>6 DEF ImportInv, ReportedIsStored
<1>6. TypeIsAsked'
  BY <1>2 DEF ImportInv, TypeIsAsked
<1>7. RowsSound'
  BY <1>2 DEF ImportInv, RowsSound
<1>8. LinesAccounted' /\ ImportsSound'
  BY DEF ImportInv, LinesAccounted, AddsUp, ImportsSound, Sound
<1>. QED
  BY <1>4, <1>5, <1>6, <1>7, <1>8 DEF ImportInv

(* A new type disturbs nobody: types that are there keep their profile. *)
LEMMA CreateStep ==
  ASSUME ImportInv, NEW i \in Imports, NEW y \in Types, CreateType(i, y)
  PROVE  ImportInv'
<1>. USE DEF CreateType
<1>0. PICK q : q = import[i]
  OBVIOUS
<1>. DEFINE r == [q EXCEPT !.pc = "line", !.type = y]
<1>1. /\ Fit(q) /\ q \in Import /\ q.type = None /\ q.failed = 0 /\ q.asked \in Durations
      /\ q.left = q.file /\ q.file # <<>> /\ q.imported = 0
  BY <1>0, FitIfInv DEF ImportInv, ImportsSound, Sound, Fit, AddsUp
<1>2. \A z \in Types : type'[z] = IF z = y THEN q.asked ELSE type[z]
  BY <1>0 DEF ImportInv, TypeOK
<1>3. /\ r \in Import /\ r.pc = "line" /\ r.type = y /\ r.asked = q.asked
      /\ r.left = q.left /\ r.file = q.file /\ r.imported = 0 /\ r.failed = 0
  BY <1>1 DEF Import
<1>4. Len(r.left) \in Nat /\ Len(r.file) = Len(r.left)
  BY <1>1, <1>3 DEF Import
<1>5. import' = [import EXCEPT ![i] = r]
  BY <1>0 DEF Become
<1>. HIDE DEF r
<1>6. \A j \in Imports : import'[j] = IF j = i THEN r ELSE import[j]
  BY <1>5 DEF ImportInv, TypeOK
<1>7. TypeOK'
  <2>1. import' \in [Imports -> Import]
    BY <1>3, <1>5 DEF ImportInv, TypeOK
  <2>2. type' \in [Types -> Durations \cup {None}]
    BY <1>0, <1>1 DEF ImportInv, TypeOK
  <2>. QED
    BY <1>1, <1>3, <1>6, <2>1, <2>2 DEF ImportInv, TypeOK
<1>8. LinesAccounted'
  <2>1. AddsUp(r)
    BY <1>3, <1>4 DEF AddsUp
  <2>. QED
    BY <1>6, <2>1 DEF ImportInv, LinesAccounted, AddsUp
<1>9. ReportedIsStored'
  BY <1>0, <1>1, <1>3, <1>6 DEF ImportInv, ReportedIsStored, StoredBy
<1>10. TypeIsAsked'
  <2>1. \A n \in Names : ticket[n] # NoTicket => ticket[n].type # y
    BY DEF ImportInv, TypeIsAsked, RowsSound, ImportsSound, Sound
  <2>2. \A n \in Names : ticket[n] # NoTicket => ticket[n].from # i
    BY <1>0, <1>1 DEF ImportInv, TypeIsAsked, RowsSound
  <2>. QED
    BY <1>2, <1>6, <2>1, <2>2 DEF ImportInv, TypeIsAsked, RowsSound
<1>11. ImportsSound'
  <2>1. Sound(r)'
    BY <1>1, <1>2, <1>3 DEF Sound
  <2>2. \A j \in Imports : Sound(import[j])'
    <3> SUFFICES ASSUME NEW j \in Imports, j # i PROVE Sound(import[j])'
      BY <1>6, <2>1 DEF Sound
    <3>1. Sound(import[j]) /\ import[j].type \in Types \cup {None}
      BY FitIfInv DEF ImportInv, ImportsSound, Fit, Import
    <3>. QED
      BY <1>2, <1>6, <3>1 DEF Sound
  <2>. QED
    BY <2>2 DEF ImportsSound
<1>12. RowsSound'
  BY DEF ImportInv, RowsSound
<1>. QED
  BY <1>7, <1>8, <1>9, <1>10, <1>11, <1>12 DEF ImportInv
-----------------------------------------------------------------------------
(* The starts of an import: it has counted nothing and stored nothing yet. *)
LEMMA StartStepKeeps ==
  ASSUME ImportInv, NEW i \in Imports, StartStep(i)
  PROVE  ImportInv'
<1>1. PICK file \in Files, asked \in Types \cup Durations \cup {None} :
        \/ StartRefused(i, file, asked) \/ StartWithoutType(i, file, asked)
        \/ TypeError(i, file, asked)
        \/ \E y \in Types : StartUnder(i, file, asked, y)
  BY DEF StartStep
<1>. DEFINE done == [Opened(file, asked) EXCEPT !.pc = "done"]
<1>2. Ready.imported = 0 /\ Ready.type = None /\ Ready.failed = 0
  BY DEF Ready
<1>3. Len(file) \in Nat /\ file \in Seq(Names \cup {Invalid}) /\ <<>> \in Seq(Names \cup {Invalid})
  OBVIOUS
<1>4. CASE StartRefused(i, file, asked)
  <2>1. Fit(done) /\ Sound(done) /\ done.imported = 0
    BY <1>3 DEF Fit, Sound, AddsUp, Import, Opened, Ready
  <2>. QED
    BY <1>2, <1>4, <2>1, MoveStep DEF StartRefused
<1>5. CASE StartWithoutType(i, file, asked)
  <2>. DEFINE r == [Opened(file, asked) EXCEPT !.pc = "createType", !.left = file]
  <2>1. Fit(r) /\ Sound(r) /\ r.imported = 0
    BY <1>3, <1>5 DEF StartWithoutType, Fit, Sound, AddsUp, Import, Opened, Ready
  <2>. QED
    BY <1>2, <1>5, <2>1, MoveStep DEF StartWithoutType
<1>6. CASE TypeError(i, file, asked)
  <2>1. CASE import[i] = Ready /\ Become(i, [done EXCEPT !.failed = 1])
    <3>. DEFINE r == [done EXCEPT !.failed = 1]
    <3>1. Fit(r) /\ Sound(r) /\ r.imported = 0
      BY <1>3 DEF Fit, Sound, AddsUp, Import, Opened, Ready
    <3>. QED
      BY <1>2, <1>6, <2>1, <3>1, MoveStep DEF TypeError
  <2>2. CASE /\ import[i].pc = "createType"
             /\ Become(i, [import[i] EXCEPT !.pc = "done", !.left = <<>>, !.failed = 1])
    <3>. DEFINE r == [import[i] EXCEPT !.pc = "done", !.left = <<>>, !.failed = 1]
    <3>1. Fit(import[i]) /\ Sound(import[i])
      BY FitIfInv DEF ImportInv, ImportsSound
    <3>2. import[i].type = None /\ import[i].imported = 0 /\ import[i] \in Import
      BY <2>2, <3>1 DEF Sound, Fit, AddsUp
    <3>3. Fit(r) /\ Sound(r) /\ r.imported = 0
      BY <1>3, <3>2 DEF Fit, Sound, AddsUp, Import
    <3>. QED
      BY <1>6, <2>2, <3>2, <3>3, MoveStep DEF TypeError
  <2>. QED
    BY <1>6, <2>1, <2>2 DEF TypeError
<1>7. CASE \E y \in Types : StartUnder(i, file, asked, y)
  <2>1. PICK y \in Types : StartUnder(i, file, asked, y)
    BY <1>7
  <2>. DEFINE r == [Opened(file, asked) EXCEPT !.pc = "line", !.left = file, !.type = y]
  <2>2. file # <<>> /\ type[y] # None /\ asked \in {y, type[y]} /\ y # None
    BY <2>1 DEF StartUnder
  <2>3. r \in Import
    BY <1>3, <2>2 DEF Import, Opened, Ready
  <2>4. /\ r.pc = "line" /\ r.asked = asked /\ r.file = file /\ r.left = file
        /\ r.type = y /\ r.imported = 0 /\ r.failed = 0
    BY DEF Opened, Ready
  <2>. HIDE DEF r
  <2>5. Fit(r) /\ Sound(r)
    BY <1>3, <2>2, <2>3, <2>4 DEF Fit, Sound, AddsUp
  <2>. QED
    BY <1>2, <2>1, <2>4, <2>5, MoveStep DEF StartUnder, r
<1>. QED
  BY <1>1, <1>4, <1>5, <1>6, <1>7

LEMMA LineStepKeeps ==
  ASSUME ImportInv, NEW i \in Imports, CheckLine(i) \/ SaveLine(i) \/ LineError(i)
  PROVE  ImportInv'
<1>. DEFINE q == import[i]
            n == Head(q.left)
<1>1. Fit(q) /\ Sound(q)
  BY FitIfInv DEF ImportInv, ImportsSound
<1>2. CASE CheckLine(i)
  <2>1. CASE Become(i, Failed(q))
    BY <1>2, <2>1, FailStep DEF CheckLine
  <2>2. CASE n # Invalid /\ Become(i, [q EXCEPT !.pc = "save"])
    <3>. DEFINE r == [q EXCEPT !.pc = "save"]
    <3>1. q.left # <<>> /\ q.left \in Seq(Names \cup {Invalid}) /\ q.type \in Types
      BY <1>1, <1>2 DEF CheckLine, Fit, Import
    <3>2. n \in Names
      BY <2>2, <3>1
    <3>3. /\ r \in Import /\ r.pc = "save" /\ r.type = q.type /\ r.left = q.left
          /\ r.asked = q.asked /\ r.imported = q.imported /\ r.failed = q.failed
          /\ r.file = q.file
      BY <1>1 DEF Fit, Import
    <3>4. Fit(r)
      BY <1>1, <3>1, <3>3 DEF Fit, AddsUp
    <3>5. Sound(r)
      BY <1>1, <3>1, <3>2, <3>3 DEF Sound
    <3>. QED
      BY <1>2, <2>2, <3>3, <3>4, <3>5, MoveStep DEF CheckLine
  <2>. QED
    BY <1>2, <2>1, <2>2 DEF CheckLine
<1>3. CASE SaveLine(i)
  <2>1. n \in Names
    BY <1>1, <1>3 DEF SaveLine, Sound
  <2>. QED
    BY <1>3, <2>1, FailStep, StoreStep DEF SaveLine
<1>4. CASE LineError(i)
  BY <1>4, FailStep DEF LineError
<1>. QED
  BY <1>2, <1>3, <1>4

LEMMA ImportInvInit == Init => ImportInv
<1>. SUFFICES ASSUME Init PROVE ImportInv
  OBVIOUS
<1>. USE DEF Init
<1>1. TypeOK
  BY ReadyIsImport DEF TypeOK, TicketRow, NoTicket, Ready
<1>2. LinesAccounted
  BY ReadyIsImport DEF LinesAccounted
<1>3. ReportedIsStored
  <2>. SUFFICES ASSUME NEW i \in Imports
                PROVE  import[i].imported = Cardinality(StoredBy(i)) + deleted[i]
    BY DEF ReportedIsStored
  <2>1. StoredBy(i) = {}
    BY DEF StoredBy, NoTicket
  <2>2. import[i].imported = 0 /\ deleted[i] = 0
    BY DEF Ready
  <2>3. Cardinality(StoredBy(i)) = 0
    BY <2>1, FS_EmptySet
  <2>. HIDE DEF Init
  <2>. QED
    BY <2>2, <2>3
<1>4. TypeIsAsked /\ RowsSound
  BY DEF TypeIsAsked, RowsSound
<1>5. ImportsSound
  BY DEF ImportsSound, Sound, Ready
<1>. QED
  BY <1>1, <1>2, <1>3, <1>4, <1>5 DEF ImportInv

LEMMA ImportInvStep == ImportInv /\ [Next]_vars => ImportInv'
<1>. SUFFICES ASSUME ImportInv, [Next]_vars PROVE ImportInv'
  OBVIOUS
<1>1. CASE \E i \in Imports : ImportStep(i)
  <2>1. PICK i \in Imports : ImportStep(i)
    BY <1>1
  <2>. QED
    BY <2>1, StartStepKeeps, LineStepKeeps, CreateStep DEF ImportStep
<1>2. CASE \E n \in Names : RemoveTicket(n)
  BY <1>2, RemoveStep
<1>3. CASE UNCHANGED vars
  BY <1>3 DEF vars, ImportInv, TypeOK, LinesAccounted, AddsUp, ReportedIsStored,
              StoredBy, TypeIsAsked, ImportsSound, Sound, RowsSound
<1>. QED
  BY <1>1, <1>2, <1>3 DEF Next

(* The inductive invariant holds for every value of the constants. *)
THEOREM ImportInvariant == Spec => []ImportInv
BY ImportInvInit, ImportInvStep, PTL DEF Spec

(* The rows, the types and what importFromCSV holds between its awaits have  *)
(* their types.                                                              *)
THEOREM ImportTyped == Spec => []TypeOK
<1>1. ImportInv => TypeOK
  BY DEF ImportInv
<1>. QED
  BY <1>1, ImportInvariant, PTL

(* The report of every import adds up, with any number of imports at once, *)
(* files of any length and statements that fail anywhere in importFromCSV. *)
THEOREM ReportsAddUp == Spec => []LinesAccounted
<1>1. ImportInv => LinesAccounted
  BY DEF ImportInv
<1>. QED
  BY <1>1, ImportInvariant, PTL

(* Each reported ticket of importFromCSV is a row of its own, whatever user *)
(* names the files share and whatever is deleted meanwhile.                 *)
THEOREM ReportsAreStored == Spec => []ReportedIsStored
<1>1. ImportInv => ReportedIsStored
  BY DEF ImportInv
<1>. QED
  BY <1>1, ImportInvariant, PTL

(* All tickets of a file have one type, the one that was asked for, whatever *)
(* types other imports create in ensureTicketTypeForRecord.                  *)
THEOREM TicketsHaveTheirType == Spec => []TypeIsAsked
<1>1. ImportInv => TypeIsAsked
  BY DEF ImportInv
<1>. QED
  BY <1>1, ImportInvariant, PTL

(* A duration whose type the preview found keeps exactly the types it has. *)
THEOREM SettledDurations == Spec => SettledForGood
<1>1. ASSUME TypeOK, [Next]_vars, NEW d \in Durations, Settled(d)
      PROVE  Settled(d)' /\ TypesOf(d)' = TypesOf(d)
  <2>1. CASE type' = type /\ \A i \in Imports :
               import'[i].pc = "createType" /\ import'[i].asked = d =>
                 import[i].pc = "createType" /\ import[i].asked = d
    BY <1>1, <2>1 DEF Settled, TypesOf
  <2>2. ASSUME NEW i \in Imports, ImportStep(i), type' = type,
               NEW r, Become(i, r), r.pc # "createType"
        PROVE  Settled(d)' /\ TypesOf(d)' = TypesOf(d)
    BY <1>1, <2>1, <2>2 DEF TypeOK, Become
  <2>3. ASSUME NEW i \in Imports, StartStep(i)
        PROVE  Settled(d)' /\ TypesOf(d)' = TypesOf(d)
    <3>1. PICK file \in Files, asked \in Types \cup Durations \cup {None} :
            \/ StartRefused(i, file, asked) \/ StartWithoutType(i, file, asked)
            \/ TypeError(i, file, asked)
            \/ \E y \in Types : StartUnder(i, file, asked, y)
      BY <2>3 DEF StartStep
    <3>2. ImportStep(i)
      BY <2>3 DEF ImportStep
    <3>3. CASE StartWithoutType(i, file, asked)
      <4>1. asked # d
        BY <1>1, <3>3 DEF StartWithoutType, Settled, TypesOf
      <4>2. [Opened(file, asked) EXCEPT !.pc = "createType", !.left = file].asked = asked
        BY DEF Opened, Ready
      <4>. QED
        BY <1>1, <2>1, <3>3, <4>1, <4>2 DEF StartWithoutType, Become, TypeOK
    <3>4. CASE StartRefused(i, file, asked)
      BY <2>2, <3>2, <3>4 DEF StartRefused, Opened, Ready
    <3>5. CASE TypeError(i, file, asked)
      <4>. DEFINE o == [Opened(file, asked) EXCEPT !.pc = "done", !.failed = 1]
                  q == [import[i] EXCEPT !.pc = "done", !.left = <<>>, !.failed = 1]
      <4>1. o.pc = "done" /\ q.pc = "done"
        BY <1>1 DEF Opened, Ready, TypeOK, Import
      <4>2. Become(i, o) \/ Become(i, q)
        BY <3>5 DEF TypeError
      <4>. HIDE DEF o, q
      <4>3. PICK r : Become(i, r) /\ r.pc = "done"
        BY <4>1, <4>2
      <4>. QED
        BY <2>2, <3>2, <3>5, <4>3 DEF TypeError
    <3>6. CASE \E y \in Types : StartUnder(i, file, asked, y)
      BY <2>2, <3>2, <3>6 DEF StartUnder, Opened, Ready
    <3>. QED
      BY <3>1, <3>3, <3>4, <3>5, <3>6
  <2>4. ASSUME NEW i \in Imports, NEW y \in Types, CreateType(i, y)
        PROVE  Settled(d)' /\ TypesOf(d)' = TypesOf(d)
    <3>1. import[i].asked # d /\ type[y] # d
      BY <1>1, <2>4 DEF CreateType, Settled
    <3>2. \A z \in Types : type'[z] = d <=> type[z] = d
      BY <1>1, <2>4, <3>1 DEF CreateType, TypeOK
    <3>3. \A j \in Imports : import'[j].pc = "createType" => import'[j] = import[j]
      BY <1>1, <2>4 DEF CreateType, Become, TypeOK, Import
    <3>. QED
      BY <1>1, <3>2, <3>3 DEF Settled, TypesOf
  <2>5. ASSUME NEW i \in Imports, CheckLine(i) \/ SaveLine(i) \/ LineError(i)
        PROVE  Settled(d)' /\ TypesOf(d)' = TypesOf(d)
    <3>. DEFINE q == import[i]
                s == [q EXCEPT !.pc = "save"]
    <3>a. q \in Import
      BY <1>1 DEF TypeOK
    <3>b. s.pc = "save"
      BY <3>a DEF Import
    <3>c. Failed(q).pc \in {"line", "done"} /\ Counted(q).pc \in {"line", "done"}
      BY <3>a DEF Failed, Counted, NextLine, Import
    <3>d. Become(i, s) \/ Become(i, Failed(q)) \/ Become(i, Counted(q))
      BY <2>5 DEF CheckLine, SaveLine, LineError
    <3>. HIDE DEF s
    <3>1. PICK r : Become(i, r) /\ r.pc # "createType"
      BY <3>b, <3>c, <3>d
    <3>2. ImportStep(i) /\ type' = type
      BY <2>5 DEF ImportStep, CheckLine, SaveLine, LineError
    <3>. QED
      BY <2>2, <3>1, <3>2
  <2>6. CASE \E n \in Names : RemoveTicket(n)
    BY <1>1, <2>1, <2>6 DEF RemoveTicket
  <2>7. CASE UNCHANGED vars
    BY <1>1, <2>1, <2>7 DEF vars
  <2>. QED
    BY <1>1, <2>3, <2>4, <2>5, <2>6, <2>7 DEF Next, ImportStep
<1>2. ImportInv => TypeOK
  BY DEF ImportInv
<1>3. TypeOK /\ [Next]_vars =>
        [\A d \in Durations : Settled(d) => Settled(d)' /\ TypesOf(d)' = TypesOf(d)]_vars
  BY <1>1
<1>. QED
  BY <1>2, <1>3, ImportInvariant, PTL DEF Spec, SettledForGood
=============================================================================
