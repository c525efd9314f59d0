---------------------------- MODULE TicketImport ----------------------------
(***************************************************************************)
(* TicketImport: CSV files that administrators import at the same time     *)
(* (TicketsService.importFromCSV), the ticket types that an import creates *)
(* when its duration has none, and the deletion of tickets.                *)
(*                                                                         *)
(* A line is the user name on it, or Invalid if one of the three columns   *)
(* is empty.  A duration stands for its profile as well.  isActive is left *)
(* out: every writer of ticket_types sets it.                              *)
(*                                                                         *)
(* Slip... operators are the next definition with a programming error in   *)
(* it (see SalesTables).                                                   *)
(***************************************************************************)
EXTENDS Naturals, Sequences, FiniteSets

CONSTANTS
  Names,       \* user names of tickets
  Types,       \* ids of the rows of "ticket_types"
  Durations,   \* 24h, 7j, 30j
  Imports,     \* the import requests; each is served once
  Files,       \* sequences of lines, without the header
  Invalid, None,
  Faults       \* a subset of {"dbError"}

(* A record of the file, as parseCsvRecords leaves it. *)
Line == Names \cup {Invalid}

ASSUME ImportAssumption ==
  /\ Files \subseteq Seq(Line)
  /\ Invalid \notin Names
  /\ None \notin Types \cup Durations \cup Imports
  /\ Types \cap Durations = {}
  /\ IsFiniteSet(Names)
  /\ <<>> \in Files

VARIABLES
  ticket,    \* [Names -> TicketRow]: the column username is unique
  type,      \* [Types -> Durations \cup {None}]: the profile of a type
  import,    \* [Imports -> Import]
  deleted    \* [Imports -> Nat]: rows of an import deleted since; history only

vars == <<ticket, type, import, deleted>>

(* from: the import that stored the row; history only. *)
TicketRow == [type : Types \cup {None}, from : Imports \cup {None}]
NoTicket == [type |-> None, from |-> None]

(* left: the lines still to do, the current one first. *)
Import == [pc : {"ready", "createType", "line", "save", "done"},
           asked : Types \cup Durations \cup {None},
           file : Files, left : Seq(Line),
           type : Types \cup {None}, imported : Nat, failed : Nat]

Ready == [pc |-> "ready", asked |-> None, file |-> <<>>, left |-> <<>>,
          type |-> None, imported |-> 0, failed |-> 0]

TypeOK ==
  /\ ticket \in [Names -> TicketRow]
  /\ type \in [Types -> Durations \cup {None}]
  /\ import \in [Imports -> Import]
  /\ deleted \in [Imports -> Nat]
  /\ \A i \in Imports : import[i].pc \in {"line", "save"} =>
       import[i].type \in Types /\ import[i].left # <<>>

(* The seed leaves at most one type for a duration. *)
Init ==
  /\ ticket = [n \in Names |-> NoTicket]
  /\ type \in [Types -> Durations \cup {None}]
  /\ \A y, z \in Types : type[y] = type[z] => y = z \/ type[y] = None
  /\ import = [i \in Imports |-> Ready]
  /\ deleted = [i \in Imports |-> 0]
-----------------------------------------------------------------------------
Become(i, r) == import' = [import EXCEPT ![i] = r]

(* The request with its file, before anything is read for it. *)
Opened(file, asked) == [Ready EXCEPT !.asked = asked, !.file = file]

(* Slip: the loop does not stop after the last line. *)
SlipOneLineMore(r, ok, bad) ==
  [r EXCEPT !.left = Tail(@), !.imported = @ + ok, !.failed = @ + bad, !.pc = "line"]

(* The current line is dealt with: on to the next one, if there is one. *)
NextLine(r, ok, bad) ==
  [r EXCEPT !.left = Tail(@), !.imported = @ + ok, !.failed = @ + bad,
            !.pc = IF Len(r.left) = 1 THEN "done" ELSE "line"]
Counted(r) == NextLine(r, 1, 0)
Failed(r) == NextLine(r, 0, 1)

(* An empty file, neither a type nor a duration, or a type that is not there. *)
StartRefused(i, file, asked) ==
  /\ import[i] = Ready
  /\ file = <<>> \/ asked = None \/ (asked \in Types /\ type[asked] = None)
  /\ Become(i, [Opened(file, asked) EXCEPT !.pc = "done"])
  /\ UNCHANGED <<ticket, type, deleted>>

(* Slip: the type of a duration is looked for without its profile. *)
SlipAnyType(i, file, asked, y) ==
  /\ import[i] = Ready
  /\ file # <<>>
  /\ type[y] # None
  /\ asked \in Types => asked = y
  /\ asked # None
  /\ Become(i, [Opened(file, asked) EXCEPT !.pc = "line", !.left = file, !.type = y])
  /\ UNCHANGED <<ticket, type, deleted>>

(* The type asked for, or any type that has the duration for its profile: it *)
(* is read once and serves the whole file.                                   *)
StartUnder(i, file, asked, y) ==
  /\ import[i] = Ready
  /\ file # <<>>
  /\ type[y] # None
  /\ asked \in {y, type[y]}
  /\ Become(i, [Opened(file, asked) EXCEPT !.pc = "line", !.left = file, !.type = y])
  /\ UNCHANGED <<ticket, type, deleted>>

(* Slip: catalogDuration always creates a type; what is there is not looked at. *)
SlipNoLookUp(i, file, asked) ==
  /\ import[i] = Ready
  /\ file # <<>>
  /\ asked \in Durations
  /\ Become(i, [Opened(file, asked) EXCEPT !.pc = "createType", !.left = file])
  /\ UNCHANGED <<ticket, type, deleted>>

(* ensureTicketTypeForRecord finds no type of the duration. *)
StartWithoutType(i, file, asked) ==
  /\ import[i] = Ready
  /\ file # <<>>
  /\ asked \in Durations
  /\ \A y \in Types : type[y] # asked
  /\ Become(i, [Opened(file, asked) EXCEPT !.pc = "createType", !.left = file])
  /\ UNCHANGED <<ticket, type, deleted>>

(* Slip: the new type is saved under the id of one that exists. *)
SlipTypeOverwritten(i, y) ==
  /\ import[i].pc = "createType"
  /\ type' = [type EXCEPT ![y] = import[i].asked]
  /\ Become(i, [import[i] EXCEPT !.pc = "line", !.type = y])
  /\ UNCHANGED <<ticket, deleted>>

(* Its insert comes later and is not refused if another import was faster. *)
CreateType(i, y) ==
  /\ import[i].pc = "createType"
  /\ type[y] = None
  /\ type' = [type EXCEPT ![y] = import[i].asked]
  /\ Become(i, [import[i] EXCEPT !.pc = "line", !.type = y])
  /\ UNCHANGED <<ticket, deleted>>

(* The outer catch block: an error before the lines counts as one failure *)
(* and ends the import.                                                   *)
TypeError(i, file, asked) ==
  /\ "dbError" \in Faults
  /\ \/ /\ import[i] = Ready /\ file # <<>> /\ asked # None
        /\ Become(i, [Opened(file, asked) EXCEPT !.pc = "done", !.failed = 1])
     \/ /\ import[i].pc = "createType"
        /\ Become(i, [import[i] EXCEPT !.pc = "done", !.left = <<>>, !.failed = 1])
  /\ UNCHANGED <<ticket, type, deleted>>

(* A line with an empty column or a user name that is there fails. *)
CheckLine(i) ==
  LET n == Head(import[i].left) IN
  /\ import[i].pc = "line"
  /\ IF n = Invalid \/ (n \in Names /\ ticket[n] # NoTicket)
       THEN Become(i, Failed(import[i]))
       ELSE Become(i, [import[i] EXCEPT !.pc = "save"])
  /\ UNCHANGED <<ticket, type, deleted>>

(* Slip: an upsert, which writes over the row that has the user name. *)
SlipUpsert(i) ==
  LET n == Head(import[i].left) IN
  /\ import[i].pc = "save"
  /\ ticket' = [ticket EXCEPT ![n] = [type |-> import[i].type, from |-> i]]
  /\ Become(i, Counted(import[i]))
  /\ UNCHANGED <<type, deleted>>

(* The insert; the unique user name may still refuse it. *)
SaveLine(i) ==
  LET n == Head(import[i].left) IN
  /\ import[i].pc = "save"
  /\ \/ /\ ticket[n] = NoTicket
        /\ ticket' = [ticket EXCEPT ![n] = [type |-> import[i].type, from |-> i]]
        /\ Become(i, Counted(import[i]))
     \/ /\ ticket[n] # NoTicket
        /\ Become(i, Failed(import[i]))
        /\ UNCHANGED ticket
  /\ UNCHANGED <<type, deleted>>

(* Slip: the catch block of a line logs the error and does not count it. *)
SlipErrorNotCounted(i) ==
  /\ "dbError" \in Faults
  /\ import[i].pc \in {"line", "save"}
  /\ Become(i, NextLine(import[i], 0, 0))
  /\ UNCHANGED <<ticket, type, deleted>>

(* The catch block of a line. *)
LineError(i) ==
  /\ "dbError" \in Faults
  /\ import[i].pc \in {"line", "save"}
  /\ Become(i, Failed(import[i]))
  /\ UNCHANGED <<ticket, type, deleted>>

RemoveTicket(n) ==
  /\ ticket[n] # NoTicket
  /\ ticket' = [ticket EXCEPT ![n] = NoTicket]
  /\ deleted' = [deleted EXCEPT ![ticket[n].from] = @ + 1]
  /\ UNCHANGED <<type, import>>
-----------------------------------------------------------------------------
StartStep(i) == \E file \in Files, asked \in Types \cup Durations \cup {None} :
  \/ StartRefused(i, file, asked) \/ StartWithoutType(i, file, asked)
  \/ TypeError(i, file, asked)
  \/ \E y \in Types : StartUnder(i, file, asked, y)

ImportStep(i) ==
  \/ StartStep(i)
  \/ \E y \in Types : CreateType(i, y)
  \/ CheckLine(i) \/ SaveLine(i) \/ LineError(i)

Next == (\E i \in Imports : ImportStep(i)) \/ (\E n \in Names : RemoveTicket(n))

Spec == Init /\ [][Next]_vars
-----------------------------------------------------------------------------
(* What an import answers adds up: every line of a file that was taken up is *)
(* imported, failed or still to do, on every way out of the loop; a file     *)
(* that was not taken up reports no ticket.                                  *)
AddsUp(r) ==
  IF r.type # None THEN r.imported + r.failed + Len(r.left) = Len(r.file)
                   ELSE r.imported = 0

LinesAccounted == \A i \in Imports : AddsUp(import[i])

StoredBy(i) == {n \in Names : ticket[n].from = i}

(* "ignore lignes invalides et doublons": each ticket an import reports is a *)
(* row of its own, there or deleted since, even if two imports carry the     *)
(* same user names: none is written over and none is counted twice.          *)
ReportedIsStored == \A i \in Imports :
  import[i].imported = Cardinality(StoredBy(i)) + deleted[i]

(* "Tous les tickets importés sont liés à ce type": all tickets of a file    *)
(* have one type, the one asked for or one of the duration asked for, also   *)
(* when several imports create types of that duration at the same time.      *)
TypeIsAsked == \A n \in Names : ticket[n] # NoTicket =>
  LET i == ticket[n].from IN
  /\ ticket[n].type = import[i].type
  /\ import[i].asked \in {ticket[n].type, type[ticket[n].type]}

TypesOf(d) == {y \in Types : type[y] = d}

(* A duration has a type and no import is about to create one. *)
Settled(d) ==
  /\ TypesOf(d) # {}
  /\ \A i \in Imports : import[i].pc = "createType" => import[i].asked # d

(* use_existing, the answer of the preview (getImportTypeRecommendations),   *)
(* stays right: two imports may both create the type of a duration, but once *)
(* it has one and none is on its way, no later import adds another and the   *)
(* type the preview names stays one of that duration.                        *)
SettledForGood ==
  [][\A d \in Durations : Settled(d) => Settled(d)' /\ TypesOf(d)' = TypesOf(d)]_vars
-----------------------------------------------------------------------------
(* What an import in progress knows, beside the above: one without a type    *)
(* has counted nothing, one that is about to create a type has its whole     *)
(* file before it, one that saves has a user name in hand, and the type of   *)
(* an import is there and the one asked for.                                 *)
Sound(r) ==
  /\ r.pc = "ready" => r = Ready
  /\ r.pc = "createType" =>
       /\ r.type = None /\ r.failed = 0 /\ r.asked \in Durations
       /\ r.left = r.file /\ r.file # <<>>
  /\ r.pc = "save" => Head(r.left) \in Names
  /\ r.type # None => type[r.type] # None /\ r.asked \in {r.type, type[r.type]}

ImportsSound == \A i \in Imports : Sound(import[i])

(* A row is complete. *)
RowsSound == \A n \in Names : ticket[n] # NoTicket =>
  ticket[n].type \in Types /\ ticket[n].from \in Imports

(* The inductive invariant: lines, rows, types and reports agree at every    *)
(* moment of every import, whatever the others are doing.                    *)
ImportInv ==
  /\ TypeOK /\ LinesAccounted /\ ReportedIsStored /\ TypeIsAsked
  /\ ImportsSound /\ RowsSound
=============================================================================
