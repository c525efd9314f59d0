------------------------------ MODULE MCImport ------------------------------
(* An instance of TicketImport for TLC. *)
EXTENDS TicketImport, SequencesExt, TLC

CONSTANT MaxLines

(* All files of at most MaxLines lines. *)
MCFiles == BoundedSeq(Line, MaxLines)

Symmetry == Permutations(Names) \cup Permutations(Types)
              \cup Permutations(Durations) \cup Permutations(Imports)
=============================================================================
