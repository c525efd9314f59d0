--------------------------- MODULE AccountsProofs ---------------------------
(***************************************************************************)
(* The inductive invariant of Accounts and what follows from it.  Each     *)
(* conjunct of AccountsInv has a lemma that says which steps keep it; an   *)
(* action is then a case that meets the hypotheses of those lemmas.        *)
(***************************************************************************)
EXTENDS Accounts, TLAPS

LEMMA EmptyRows == NoUser \in UserRow /\ NoRow \in PendingRow /\ NoLink \in LinkRow
  BY DEF NoUser, UserRow, NoRow, PendingRow, NoLink, LinkRow

LEMMA IdleIsTask == Idle \in Task
  BY EmptyRows DEF Idle, Task, Label

-----------------------------------------------------------------------------
(* Mails are kept, and the row of a link keeps its user and stays used. *)
Grows ==
  /\ mailbox \subseteq mailbox'
  /\ \A l \in Links : link[l].user \in Users =>
       /\ link'[l].user = link[l].user
       /\ link[l].used => link'[l].used

(* What makes a request sound is never undone. *)
LEMMA SoundStable ==
  ASSUME Grows, NEW r \in Task, Sound(r)
  PROVE  Sound(r)'
<1>1. r.older \subseteq Links
  BY DEF Task
<1>2. Confirmed(r.row.id) => Confirmed(r.row.id)'
  BY DEF Confirmed, Grows
<1>3. CASE r.pc \in ReplacingLink \cup HoldingLink
  BY <1>1, <1>2, <1>3 DEF Sound, Grows, ReplacingLink
<1>4. CASE r.pc \notin ReplacingLink \cup HoldingLink
  BY <1>2, <1>4 DEF Sound, ReplacingLink
<1> QED BY <1>3, <1>4

LEMMA IdleSound == Sound(Idle)
  BY AccountsAssumption
  DEF Sound, Idle, NoRow, HoldingCode, ReplacingLink, HoldingLink

(* A request that becomes a sound one disturbs no other. *)
LEMMA TaskStep ==
  ASSUME TypeOK, TasksSound, NEW t \in Tasks, NEW r \in Task,
         Become(t, r), Sound(r)', Grows
  PROVE  task' \in [Tasks -> Task] /\ TasksSound'
<1>1. task' \in [Tasks -> Task]
  BY DEF TypeOK, Become
<1>2. ASSUME NEW i \in Tasks PROVE Sound(task[i])'
  <2>1. CASE i = t
    BY <2>1 DEF Become, TypeOK, Sound, Confirmed
  <2>2. CASE i # t
    <3>1. PICK q : q = task[i]
      OBVIOUS
    <3>2. q \in Task /\ Sound(q)
      BY <3>1 DEF TypeOK, TasksSound
    <3>3. Sound(q)'
      BY <3>2, SoundStable
    <3>4. task'[i] = q
      BY <2>2, <3>1 DEF Become, TypeOK
    <3> QED BY <3>3, <3>4 DEF Sound, Confirmed
  <2> QED BY <2>1, <2>2
<1> QED BY <1>1, <1>2 DEF TasksSound
-----------------------------------------------------------------------------
(* A row whose pair is there already, and a code not drawn before. *)
Known(row) == row.code \in Codes => Pair(row) \in Pairs

Fresh(c) == c \in Codes /\ c \notin drawn /\ c \in drawn'

NoPair == Pair(NoRow)

LEMMA NoPairFits == NoPair.secret \notin Codes
  BY AccountsAssumption DEF NoPair, Pair, NoRow

LEMMA RowsKnown == \A e \in Emails : Known(pending[e])
  BY DEF Known, Pairs, Pair

LEMMA TasksKnown == \A t \in Tasks : Known(task[t].row)
  BY DEF Known, Pairs, Pair

(* Codes still belong when every pair there is after a step was there, or is *)
(* that of one code just drawn.                                              *)
LEMMA CodesStep ==
  ASSUME CodesBelong, drawn \subseteq drawn',
         NEW p, p.secret \in Codes => Fresh(p.secret),
         \A m \in mailbox' : m \in mailbox \/ m \in Pairs \/ m.secret \notin Codes,
         \A e \in Emails : Known(pending'[e]) \/ Pair(pending'[e]) = p,
         \A t \in Tasks : Known(task'[t].row) \/ Pair(task'[t].row) = p
  PROVE  CodesBelong'
<1>1. ASSUME NEW q \in Pairs' PROVE q \in Pairs \/ (q = p /\ Fresh(p.secret))
  <2>1. q.secret \in Codes
    BY DEF Pairs
  <2>2. CASE q \in mailbox'
    BY <2>1, <2>2 DEF Pairs
  <2>3. ASSUME NEW row, q = Pair(row), Known(row) \/ Pair(row) = p
        PROVE  q \in Pairs \/ (q = p /\ Fresh(p.secret))
    BY <2>1, <2>3 DEF Known, Pair
  <2>4. CASE \E e \in Emails : q = Pair(pending'[e])
    BY <2>3, <2>4
  <2>5. CASE \E t \in Tasks : q = Pair(task'[t].row)
    BY <2>3, <2>5
  <2>6. \/ q \in mailbox'
        \/ \E e \in Emails : q = Pair(pending'[e])
        \/ \E t \in Tasks : q = Pair(task'[t].row)
    BY DEF Pairs, Pair
  <2> QED BY <2>2, <2>4, <2>5, <2>6
<1>2. \A q \in Pairs : q.secret \in drawn
  BY DEF CodesBelong
<1>3. \A q \in Pairs' : q.secret \in drawn'
  BY <1>1, <1>2 DEF Fresh
<1>4. ASSUME NEW q \in Pairs', NEW s \in Pairs', q.secret = s.secret
      PROVE  q.reg = s.reg
  <2>1. CASE q \in Pairs /\ s \in Pairs
    BY <1>4, <2>1 DEF CodesBelong
  <2>2. CASE q = p /\ s = p
    BY <2>2
  <2>3. ~(q \in Pairs /\ s = p /\ Fresh(p.secret))
    BY <1>2, <1>4 DEF Fresh
  <2>4. ~(s \in Pairs /\ q = p /\ Fresh(p.secret))
    BY <1>2, <1>4 DEF Fresh
  <2> QED BY <1>1, <2>1, <2>2, <2>3, <2>4
<1> QED BY <1>3, <1>4 DEF CodesBelong

(* Rows are kept sound by writing sound ones. *)
RowSound(row) ==
  /\ row \in PendingRow
  /\ row.attempts <= MaxAttempts
  /\ row.id # None => row.code \in Codes

LEMMA RowsStep ==
  ASSUME TypeOK, RowsSound, AttemptsBounded, NEW e \in Emails, NEW row, RowSound(row),
         pending' = pending \/ pending' = [pending EXCEPT ![e] = row]
  PROVE  pending' \in [Emails -> PendingRow] /\ RowsSound' /\ AttemptsBounded'
  BY DEF TypeOK, RowsSound, AttemptsBounded, RowSound

LEMMA NoRowSound == RowSound(NoRow) /\ Known(NoRow)
  BY EmptyRows, AccountsAssumption DEF RowSound, NoRow, Known

(* The row a request has in hand once it has a code. *)
LEMMA TaskRowSound ==
  ASSUME TypeOK, TasksSound, NEW t \in Tasks, task[t].pc \in HoldingCode
  PROVE  RowSound(task[t].row) /\ task[t].email \in Emails /\ task[t].row.id \in Registrations
<1>1. task[t] \in Task /\ Sound(task[t])
  BY DEF TypeOK, TasksSound
<1> QED BY <1>1 DEF Task, Sound, RowSound
-----------------------------------------------------------------------------
(* Where the password of an account comes from: it was there, staff set it, *)
(* a confirmed registration brought it, or a link that is in its table.     *)
PasswordFrom(u) ==
  \/ user'[u].password = user[u].password
  \/ user'[u].password \in {Staff, None}
  \/ /\ user'[u].password \in Registrations
     /\ Confirmed(user'[u].password)
  \/ /\ user'[u].password \in Links
     /\ link[user'[u].password].user \in Users

LEMMA PasswordsStep ==
  ASSUME TypeOK, LinksSound, AccountIsConfirmed, Grows,
         \A u \in Users : PasswordFrom(u),
         \A m \in mailbox' : m \in mailbox \/ m.secret \in Codes
                                           \/ link[m.secret].user \in Users
  PROVE  AccountIsConfirmed' /\ LinksSound'
<1>1. ASSUME NEW u \in Users, user'[u].password \in Registrations
      PROVE  (\E m \in mailbox : m.reg = user[u].password)'
  BY <1>1, AccountsAssumption DEF PasswordFrom, AccountIsConfirmed, Confirmed, Grows
<1>2. ASSUME NEW l \in Links,
             \/ \E m \in mailbox' : m.secret = l
             \/ \E u \in Users : user'[u].password = l
      PROVE  link'[l].user \in Users
  <2>1. link[l].user \in Users => link'[l].user \in Users
    BY DEF Grows
  <2>2. CASE \E m \in mailbox' : m.secret = l
    BY <2>1, <2>2, AccountsAssumption DEF LinksSound
  <2>3. CASE \E u \in Users : user'[u].password = l
    BY <2>1, <2>3, AccountsAssumption DEF LinksSound, PasswordFrom
  <2> QED BY <1>2, <2>2, <2>3
<1> QED BY <1>1, <1>2 DEF AccountIsConfirmed, LinksSound
-----------------------------------------------------------------------------
(* The rows of "pending_registrations" after a step: at most one is written, *)
(* and it is sound.                                                          *)
WritesRow(p) ==
  \/ pending' = pending
  \/ \E e \in Emails, row \in PendingRow :
       /\ pending' = [pending EXCEPT ![e] = row]
       /\ RowSound(row)
       /\ Known(row) \/ Pair(row) = p

(* The mails after a step: a new one carries a pair that is there already, or *)
(* a link that is in its table.                                               *)
SendsMail ==
  /\ mailbox' \subseteq Mail
  /\ \A m \in mailbox' : \/ m \in mailbox \cup Pairs
                         \/ m.secret \in Links /\ link[m.secret].user \in Users

(* A step of request t that becomes r, and may draw the code of pair p. *)
LEMMA RequestStep ==
  ASSUME AccountsInv, NEW t \in Tasks, NEW r \in Task, NEW p,
         Become(t, r), Sound(r)', Grows,
         user' \in [Users -> UserRow], link' \in [Links -> LinkRow], lapsed' = lapsed,
         drawn \subseteq drawn', drawn' \subseteq Registrations \cup Codes,
         p.secret \in Codes => Fresh(p.secret),
         Known(r.row) \/ Pair(r.row) = p,
         \A u \in Users : PasswordFrom(u),
         WritesRow(p), SendsMail
  PROVE  AccountsInv'
<1> USE DEF AccountsInv
<1>1. task' \in [Tasks -> Task] /\ TasksSound'
  BY TaskStep
<1>2. pending' \in [Emails -> PendingRow] /\ RowsSound' /\ AttemptsBounded'
  <2>1. CASE pending' = pending
    BY <2>1 DEF TypeOK, RowsSound, AttemptsBounded
  <2>2. CASE pending' # pending
    <3>1. PICK e \in Emails, row \in PendingRow :
            pending' = [pending EXCEPT ![e] = row] /\ RowSound(row)
      BY <2>2 DEF WritesRow
    <3> QED BY <3>1, RowsStep
  <2> QED BY <2>1, <2>2
<1>3. TypeOK'
  BY <1>1, <1>2 DEF TypeOK, SendsMail
<1>4. CodesBelong'
  <2>1. \A m \in mailbox' : m \in mailbox \/ m \in Pairs \/ m.secret \notin Codes
    BY AccountsAssumption DEF SendsMail
  <2>2. ASSUME NEW i \in Emails PROVE Known(pending'[i]) \/ Pair(pending'[i]) = p
    BY RowsKnown DEF WritesRow, TypeOK
  <2>3. ASSUME NEW i \in Tasks PROVE Known(task'[i].row) \/ Pair(task'[i].row) = p
    BY TasksKnown DEF Become, TypeOK
  <2> QED BY <2>1, <2>2, <2>3, CodesStep
<1>5. \A m \in mailbox' : m \in mailbox \/ m.secret \in Codes \/ link[m.secret].user \in Users
  BY DEF SendsMail, Pairs
<1>6. AccountIsConfirmed' /\ LinksSound'
  BY <1>5, PasswordsStep
<1> QED BY <1>1, <1>2, <1>3, <1>4, <1>6

(* The case of a request that leaves accounts, links and mails alone. *)
LEMMA PlainStep ==
  ASSUME AccountsInv, NEW t \in Tasks, NEW r \in Task, NEW p,
         Become(t, r), Sound(r),
         UNCHANGED <<user, link, mailbox, lapsed>>,
         drawn \subseteq drawn', drawn' \subseteq Registrations \cup Codes,
         p.secret \in Codes => Fresh(p.secret),
         Known(r.row) \/ Pair(r.row) = p,
         WritesRow(p)
  PROVE  AccountsInv'
<1>1. Grows /\ SendsMail
  BY DEF Grows, SendsMail, AccountsInv, TypeOK
<1>2. \A u \in Users : PasswordFrom(u)
  BY DEF PasswordFrom
<1>3. user' \in [Users -> UserRow] /\ link' \in [Links -> LinkRow]
  BY DEF AccountsInv, TypeOK
<1>4. Sound(r)'
  BY <1>1, SoundStable
<1> QED BY <1>1, <1>2, <1>3, <1>4, RequestStep
-----------------------------------------------------------------------------
LEMMA TaskFacts ==
  ASSUME AccountsInv, NEW t \in Tasks
  PROVE  /\ task[t] \in Task /\ Sound(task[t]) /\ Known(task[t].row)
         /\ task[t].row \in PendingRow
  BY TasksKnown DEF AccountsInv, TypeOK, TasksSound, Task

LEMMA RowFacts ==
  ASSUME AccountsInv, NEW e \in Emails, pending[e].id # None
  PROVE  /\ pending[e] \in PendingRow /\ RowSound(pending[e]) /\ Known(pending[e])
         /\ pending[e].id \in Registrations /\ pending[e].code \in Codes
  BY RowsKnown DEF AccountsInv, TypeOK, RowsSound, AttemptsBounded, RowSound, PendingRow

LEMMA RegisterKeeps ==
  ASSUME AccountsInv, NEW t \in Tasks, NEW e \in Emails, NEW r \in Registrations,
         Register(t, e, r)
  PROVE  AccountsInv'
<1>1. PICK q : q = [Idle EXCEPT !.pc = "clearRow", !.email = e, !.row.id = r]
  OBVIOUS
<1>2. /\ q.pc = "clearRow" /\ q.email = e /\ q.row = [NoRow EXCEPT !.id = r]
      /\ q \in Task
  BY <1>1, EmptyRows DEF Idle, Task, Label, PendingRow
<1>3. Sound(q) /\ q.row.code \notin Codes
  BY <1>2, AccountsAssumption
  DEF Sound, NoRow, HoldingCode, ReplacingLink, HoldingLink
<1>4. Known(q.row)
  BY <1>3 DEF Known
<1>5. Become(t, q)
  BY <1>1 DEF Register
<1>6. drawn \subseteq drawn' /\ drawn' \subseteq Registrations \cup Codes
  BY DEF Register, AccountsInv, TypeOK
<1> QED BY <1>2, <1>3, <1>4, <1>5, <1>6, NoPairFits, PlainStep DEF Register, WritesRow

LEMMA ClearRowKeeps ==
  ASSUME AccountsInv, NEW t \in Tasks, ClearRow(t)
  PROVE  AccountsInv'
<1>1. PICK q : q = [task[t] EXCEPT !.pc = "insertRow"]
  OBVIOUS
<1>2. q \in Task /\ q.row = task[t].row /\ q.pc = "insertRow" /\ q.email = task[t].email
  BY <1>1, TaskFacts DEF Task, Label
<1>3. Sound(q) /\ task[t].email \in Emails
  BY <1>2, TaskFacts DEF Sound, ClearRow, HoldingCode, ReplacingLink, HoldingLink
<1>4. Known(q.row)
  BY <1>2, TaskFacts
<1>5. Become(t, q)
  BY <1>1 DEF ClearRow, Goto
<1>6. WritesRow(NoPair)
  BY <1>3, NoRowSound, EmptyRows DEF ClearRow, WritesRow
<1>7. drawn' \subseteq Registrations \cup Codes
  BY DEF ClearRow, AccountsInv, TypeOK
<1> QED BY <1>2, <1>3, <1>4, <1>5, <1>6, <1>7, NoPairFits, PlainStep DEF ClearRow

LEMMA InsertRowKeeps ==
  ASSUME AccountsInv, NEW t \in Tasks, NEW c \in Codes, InsertRow(t, c)
  PROVE  AccountsInv'
<1>1. PICK row : row = [task[t].row EXCEPT !.code = c]
  OBVIOUS
<1>2. row \in PendingRow /\ row.id = task[t].row.id /\ row.code = c
                        /\ row.attempts = task[t].row.attempts
  BY <1>1, TaskFacts DEF PendingRow
<1>3. RowSound(row) /\ task[t].email \in Emails /\ row.id \in Registrations
  BY <1>2, TaskFacts DEF RowSound, Sound, InsertRow
<1>4. Fresh(Pair(row).secret)
  BY <1>2 DEF Pair, Fresh, InsertRow
<1>5. drawn \subseteq drawn' /\ drawn' \subseteq Registrations \cup Codes
  BY DEF InsertRow, AccountsInv, TypeOK
<1>6. WritesRow(Pair(row))
  BY <1>1, <1>2, <1>3 DEF InsertRow, WritesRow
<1>7. CASE Become(t, Idle)
  <2>1. Known(Idle.row)
    BY NoRowSound DEF Idle
  <2> QED BY <1>4, <1>5, <1>6, <1>7, <2>1, IdleIsTask, IdleSound, PlainStep DEF InsertRow
<1>8. CASE Become(t, [task[t] EXCEPT !.pc = "registerMail", !.row = row])
  <2>1. PICK q : q = [task[t] EXCEPT !.pc = "registerMail", !.row = row]
    OBVIOUS
  <2>2. q \in Task /\ q.row = row /\ q.pc = "registerMail" /\ q.email = task[t].email
    BY <1>2, <2>1, TaskFacts DEF Task, Label
  <2>3. Sound(q)
    BY <1>2, <1>3, <2>2 DEF Sound, RowSound, HoldingCode, ReplacingLink, HoldingLink
  <2> QED BY <1>4, <1>5, <1>6, <1>8, <2>1, <2>2, <2>3, PlainStep DEF InsertRow
<1> QED BY <1>1, <1>7, <1>8 DEF InsertRow, Finish

LEMMA DropRowKeeps ==
  ASSUME AccountsInv, NEW t \in Tasks, DropRow(t)
  PROVE  AccountsInv'
<1>1. Known(Idle.row)
  BY NoRowSound DEF Idle
<1>2. task[t].email \in Emails
  BY TaskFacts DEF DropRow, Sound, HoldingCode
<1>3. WritesRow(NoPair)
  BY <1>2, NoRowSound, EmptyRows DEF DropRow, WritesRow
<1>4. drawn' \subseteq Registrations \cup Codes
  BY DEF DropRow, AccountsInv, TypeOK
<1> QED BY <1>1, <1>3, <1>4, NoPairFits, IdleIsTask, IdleSound, PlainStep
        DEF DropRow, Finish

LEMMA AbortKeeps ==
  ASSUME AccountsInv, NEW t \in Tasks, Abort(t)
  PROVE  AccountsInv'
<1>1. Known(Idle.row)
  BY NoRowSound DEF Idle
<1>2. drawn' \subseteq Registrations \cup Codes /\ WritesRow(NoPair)
  BY DEF Abort, AccountsInv, TypeOK, WritesRow
<1> QED BY <1>1, <1>2, NoPairFits, IdleIsTask, IdleSound, PlainStep DEF Abort, Finish

LEMMA CountSaveKeeps ==
  ASSUME AccountsInv, NEW t \in Tasks, CountSave(t)
  PROVE  AccountsInv'
<1>1. Known(Idle.row)
  BY NoRowSound DEF Idle
<1>2. RowSound(task[t].row) /\ task[t].email \in Emails
  BY TaskRowSound DEF CountSave, HoldingCode, AccountsInv
<1>3. WritesRow(NoPair)
  BY <1>2, TaskFacts DEF CountSave, WritesRow
<1>4. drawn' \subseteq Registrations \cup Codes
  BY DEF CountSave, AccountsInv, TypeOK
<1> QED BY <1>1, <1>3, <1>4, NoPairFits, IdleIsTask, IdleSound, PlainStep
        DEF CountSave, Finish

LEMMA ResendSaveKeeps ==
  ASSUME AccountsInv, NEW t \in Tasks, ResendSave(t)
  PROVE  AccountsInv'
<1>1. RowSound(task[t].row) /\ task[t].email \in Emails
  BY TaskRowSound DEF ResendSave, HoldingCode, AccountsInv
<1>2. WritesRow(NoPair)
  BY <1>1, TaskFacts DEF ResendSave, WritesRow
<1>3. drawn' \subseteq Registrations \cup Codes
  BY DEF ResendSave, AccountsInv, TypeOK
<1>4. CASE Become(t, Idle)
  <2>1. Known(Idle.row)
    BY NoRowSound DEF Idle
  <2> QED BY <1>2, <1>3, <1>4, <2>1, NoPairFits, IdleIsTask, IdleSound, PlainStep
          DEF ResendSave
<1>5. CASE Become(t, [task[t] EXCEPT !.pc = "resendMail"])
  <2>1. PICK q : q = [task[t] EXCEPT !.pc = "resendMail"]
    OBVIOUS
  <2>2. q \in Task /\ q.row = task[t].row /\ q.pc = "resendMail" /\ q.email = task[t].email
    BY <2>1, TaskFacts DEF Task, Label
  <2>3. Sound(q)
    BY <2>2, TaskFacts DEF Sound, ResendSave, HoldingCode, ReplacingLink, HoldingLink
  <2> QED BY <1>2, <1>3, <1>5, <2>1, <2>2, <2>3, TaskFacts, NoPairFits, PlainStep
          DEF ResendSave
<1> QED BY <1>4, <1>5 DEF ResendSave, Finish, Goto
-----------------------------------------------------------------------------
(* An idle request that takes up a row as it was read, or counted. *)
TakeUp(label, e, row) == [Idle EXCEPT !.pc = label, !.email = e, !.row = row]

LEMMA HoldingRow ==
  ASSUME AccountsInv, NEW e \in Emails, pending[e].id # None,
         NEW row \in PendingRow, row.id = pending[e].id, row.code \in Codes,
         row.attempts <= MaxAttempts,
         NEW label \in {"dropRow", "createUser", "countSave", "resendSave"},
         label = "createUser" => Confirmed(pending[e].id)
  PROVE  LET q == TakeUp(label, e, row) IN q \in Task /\ Sound(q) /\ q.row = row
<1>0. PICK q : q = TakeUp(label, e, row)
  OBVIOUS
<1>1. q \in Task /\ q.row = row /\ q.pc = label /\ q.email = e
  BY <1>0, EmptyRows DEF TakeUp, Idle, Task, Label
<1> QED BY <1>0, <1>1, RowFacts DEF Sound, HoldingCode, ReplacingLink, HoldingLink

(* Whoever types the code of a row has the mail of that very registration. *)
LEMMA CodeConfirms ==
  ASSUME AccountsInv, NEW e \in Emails, pending[e].id # None, pending[e].code \in Entries
  PROVE  Confirmed(pending[e].id)
<1>1. PICK m \in mailbox : m.secret = pending[e].code
  BY RowFacts, AccountsAssumption DEF Entries
<1>2. m \in Pairs /\ Pair(pending[e]) \in Pairs
  BY <1>1, RowFacts DEF Pairs, Known
<1>3. m.reg = Pair(pending[e]).reg
  BY <1>1, <1>2 DEF AccountsInv, CodesBelong, Pair
<1> QED BY <1>3 DEF Confirmed, Pair

LEMMA VerifyKeeps ==
  ASSUME AccountsInv, NEW t \in Tasks, NEW e \in Emails, NEW entry \in Entries,
         Verify(t, e, entry)
  PROVE  AccountsInv'
<1>1. PICK row : row = pending[e]
  OBVIOUS
<1>2. /\ row \in PendingRow /\ RowSound(row) /\ Known(row)
      /\ pending[e].id # None /\ row.id = pending[e].id /\ row.code \in Codes
      /\ row.attempts <= MaxAttempts
  BY <1>1, RowFacts DEF Verify, RowSound
<1>3. drawn' \subseteq Registrations \cup Codes
  BY DEF Verify, AccountsInv, TypeOK
<1>4. ASSUME NEW label \in {"dropRow", "createUser", "countSave", "resendSave"},
             label = "createUser" => Confirmed(pending[e].id),
             NEW given \in PendingRow, given.id = row.id, given.code = row.code,
             given.attempts <= MaxAttempts,
             Become(t, [Idle EXCEPT !.pc = label, !.email = e, !.row = given])
      PROVE  AccountsInv'
  <2>1. PICK q : q = TakeUp(label, e, given)
    OBVIOUS
  <2>2. q \in Task /\ Sound(q) /\ q.row = given
    BY <1>2, <1>4, <2>1, HoldingRow
  <2>3. Known(q.row)
    BY <1>2, <1>4, <2>2 DEF Known, Pair
  <2> QED BY <1>3, <1>4, <2>1, <2>2, <2>3, NoPairFits, PlainStep DEF Verify, WritesRow, TakeUp
<1>5. CASE Become(t, [Idle EXCEPT !.pc = "dropRow", !.email = e, !.row = row])
  BY <1>2, <1>4, <1>5 DEF RowSound
<1>6. CASE entry = row.code /\ Become(t, [Idle EXCEPT !.pc = "createUser", !.email = e, !.row = row])
  BY <1>1, <1>2, <1>4, <1>6, CodeConfirms DEF RowSound, Verify
<1>7. CASE row.attempts < MaxAttempts
           /\ Become(t, [Idle EXCEPT !.pc = "countSave", !.email = e,
                                     !.row = [row EXCEPT !.attempts = @ + 1]])
  <2>1. PICK given : given = [row EXCEPT !.attempts = @ + 1]
    OBVIOUS
  <2>2. given \in PendingRow /\ given.id = row.id /\ given.code = row.code
                            /\ given.attempts = row.attempts + 1
    BY <1>2, <2>1 DEF PendingRow
  <2>3. row.attempts \in Nat /\ MaxAttempts \in Nat
    BY <1>2, AccountsAssumption DEF PendingRow
  <2>4. given.attempts <= MaxAttempts
    BY <1>7, <2>2, <2>3
  <2> QED BY <1>4, <1>7, <2>1, <2>2, <2>4
<1> QED BY <1>1, <1>5, <1>6, <1>7 DEF Verify

LEMMA ResendKeeps ==
  ASSUME AccountsInv, NEW t \in Tasks, NEW e \in Emails, NEW c \in Codes, Resend(t, e, c)
  PROVE  AccountsInv'
<1>1. PICK row : row = pending[e]
  OBVIOUS
<1>2. /\ row \in PendingRow /\ RowSound(row) /\ Known(row)
      /\ pending[e].id # None /\ row.id = pending[e].id /\ row.code \in Codes
      /\ row.attempts <= MaxAttempts
  BY <1>1, RowFacts DEF Resend, RowSound
<1>3. drawn \subseteq drawn' /\ drawn' \subseteq Registrations \cup Codes
  BY DEF Resend, AccountsInv, TypeOK
<1>4. CASE Become(t, [Idle EXCEPT !.pc = "dropRow", !.email = e, !.row = row])
  <2>1. PICK q : q = TakeUp("dropRow", e, row)
    OBVIOUS
  <2>2. q \in Task /\ Sound(q) /\ q.row = row
    BY <1>2, <2>1, HoldingRow
  <2> QED BY <1>2, <1>3, <1>4, <2>1, <2>2, NoPairFits, PlainStep DEF Resend, WritesRow, TakeUp
<1>5. CASE /\ c \notin drawn /\ drawn' = drawn \cup {c}
           /\ Become(t, [Idle EXCEPT !.pc = "resendSave", !.email = e,
                          !.row = [row EXCEPT !.code = c, !.attempts = 0]])
  <2>1. PICK given : given = [row EXCEPT !.code = c, !.attempts = 0]
    OBVIOUS
  <2>2. PICK q : q = TakeUp("resendSave", e, given)
    OBVIOUS
  <2>3. given \in PendingRow /\ given.id = row.id /\ given.code = c /\ given.attempts = 0
    BY <1>2, <2>1 DEF PendingRow
  <2>4. given.attempts <= MaxAttempts
    BY <2>3, AccountsAssumption
  <2>5. q \in Task /\ Sound(q) /\ q.row = given
    BY <1>2, <2>2, <2>3, <2>4, HoldingRow
  <2>6. Fresh(Pair(given).secret)
    BY <1>5, <2>3 DEF Fresh, Pair
  <2> QED BY <1>3, <1>5, <2>1, <2>2, <2>5, <2>6, PlainStep DEF Resend, WritesRow, TakeUp
<1> QED BY <1>1, <1>4, <1>5 DEF Resend

LEMMA CreateRefusedKeeps ==
  ASSUME AccountsInv, NEW t \in Tasks, CreateRefused(t)
  PROVE  AccountsInv'
<1>1. PICK q : q = [task[t] EXCEPT !.pc = "dropRow"]
  OBVIOUS
<1>2. q \in Task /\ q.row = task[t].row /\ q.pc = "dropRow" /\ q.email = task[t].email
  BY <1>1, TaskFacts DEF Task, Label
<1>3. Sound(q)
  BY <1>2, TaskFacts DEF Sound, CreateRefused, HoldingCode, ReplacingLink, HoldingLink
<1>4. drawn' \subseteq Registrations \cup Codes
  BY DEF CreateRefused, AccountsInv, TypeOK
<1> QED BY <1>1, <1>2, <1>3, <1>4, TaskFacts, NoPairFits, PlainStep
        DEF CreateRefused, Goto, WritesRow

LEMMA ForgotKeeps ==
  ASSUME AccountsInv, NEW t \in Tasks, NEW u \in Users, Forgot(t, u)
  PROVE  AccountsInv'
<1>1. PICK q : q = [Idle EXCEPT !.pc = "linkInvalidate", !.user = u, !.older = LinksOf(u)]
  OBVIOUS
<1>2. /\ q \in Task /\ q.row = NoRow /\ q.pc = "linkInvalidate"
      /\ q.user = u /\ q.older = LinksOf(u)
  BY <1>1, EmptyRows DEF Idle, Task, Label, LinksOf
<1>3. Sound(q)
  BY <1>2, AccountsAssumption
  DEF Sound, LinksOf, NoRow, HoldingCode, ReplacingLink, HoldingLink
<1>4. Known(q.row)
  BY <1>2, NoRowSound
<1>5. drawn' \subseteq Registrations \cup Codes
  BY DEF Forgot, AccountsInv, TypeOK
<1> QED BY <1>1, <1>2, <1>3, <1>4, <1>5, NoPairFits, PlainStep DEF Forgot, WritesRow

LEMMA ResetKeeps ==
  ASSUME AccountsInv, NEW t \in Tasks, NEW l \in Links, Reset(t, l)
  PROVE  AccountsInv'
<1>1. PICK u : u = link[l].user
  OBVIOUS
<1>2. u \in Users
  BY <1>1, AccountsAssumption DEF Reset, Entries, AccountsInv, LinksSound
<1>3. PICK q : q = [Idle EXCEPT !.pc = "setPassword", !.user = u, !.link = l]
  OBVIOUS
<1>4. q \in Task /\ q.row = NoRow /\ q.pc = "setPassword" /\ q.user = u /\ q.link = l
  BY <1>2, <1>3, EmptyRows DEF Idle, Task, Label
<1>5. Sound(q)
  BY <1>1, <1>2, <1>4, AccountsAssumption
  DEF Sound, NoRow, HoldingCode, ReplacingLink, HoldingLink
<1>6. Known(q.row)
  BY <1>4, NoRowSound
<1>7. drawn' \subseteq Registrations \cup Codes
  BY DEF Reset, AccountsInv, TypeOK
<1> QED BY <1>1, <1>3, <1>4, <1>5, <1>6, <1>7, NoPairFits, PlainStep DEF Reset, WritesRow
-----------------------------------------------------------------------------
LEMMA MailCodeKeeps ==
  ASSUME AccountsInv, NEW t \in Tasks, MailCode(t)
  PROVE  AccountsInv'
<1>1. PICK q : Become(t, q) /\ (q = Idle \/ q = [task[t] EXCEPT !.pc = "dropRow"])
  BY DEF MailCode, Finish, Goto
<1>2. q \in Task /\ Sound(q) /\ Known(q.row)
  <2>1. CASE q = Idle
    BY <2>1, IdleIsTask, IdleSound, NoRowSound DEF Idle
  <2>2. CASE q = [task[t] EXCEPT !.pc = "dropRow"]
    <3>1. q \in Task /\ q.row = task[t].row /\ q.pc = "dropRow" /\ q.email = task[t].email
      BY <2>2, TaskFacts DEF Task, Label
    <3> QED BY <3>1, TaskFacts DEF Sound, MailCode, HoldingCode, ReplacingLink, HoldingLink
  <2> QED BY <1>1, <2>1, <2>2
<1>3. task[t].row.code \in Codes /\ task[t].row.id \in Registrations
  BY TaskFacts DEF Sound, MailCode, HoldingCode
<1>4. SendsMail
  <2>1. Pair(task[t].row) \in Pairs /\ Pair(task[t].row) \in Mail
    BY <1>3, TaskFacts DEF Known, Pair, Mail
  <2> QED BY <2>1 DEF MailCode, SendsMail, Pair, AccountsInv, TypeOK
<1>5. Grows
  BY DEF MailCode, Grows
<1>6. Sound(q)'
  BY <1>2, <1>5, SoundStable
<1>7. \A u \in Users : PasswordFrom(u)
  BY DEF MailCode, PasswordFrom
<1>8. /\ user' \in [Users -> UserRow] /\ link' \in [Links -> LinkRow] /\ lapsed' = lapsed
      /\ drawn' = drawn /\ drawn \subseteq Registrations \cup Codes
      /\ WritesRow(NoPair)
  BY DEF MailCode, AccountsInv, TypeOK, WritesRow
<1> QED BY <1>1, <1>2, <1>4, <1>5, <1>6, <1>7, <1>8, NoPairFits, RequestStep

LEMMA LinkMailKeeps ==
  ASSUME AccountsInv, NEW t \in Tasks, LinkMail(t)
  PROVE  AccountsInv'
<1>1. task[t].link \in Links /\ link[task[t].link].user \in Users
  BY TaskFacts DEF Sound, LinkMail, HoldingLink
<1>2. SendsMail
  BY <1>1 DEF LinkMail, SendsMail, Mail, AccountsInv, TypeOK
<1>3. Grows
  BY DEF LinkMail, Grows
<1>4. Sound(Idle)'
  BY <1>3, IdleIsTask, IdleSound, SoundStable
<1>5. Known(Idle.row)
  BY NoRowSound DEF Idle
<1>6. \A u \in Users : PasswordFrom(u)
  BY DEF LinkMail, PasswordFrom
<1>7. /\ user' \in [Users -> UserRow] /\ link' \in [Links -> LinkRow] /\ lapsed' = lapsed
      /\ drawn' = drawn /\ drawn \subseteq Registrations \cup Codes
      /\ WritesRow(NoPair) /\ Become(t, Idle)
  BY DEF LinkMail, AccountsInv, TypeOK, WritesRow, Finish
<1> QED BY <1>2, <1>3, <1>4, <1>5, <1>6, <1>7, IdleIsTask, NoPairFits, RequestStep
-----------------------------------------------------------------------------
LEMMA CreateUserKeeps ==
  ASSUME AccountsInv, NEW t \in Tasks, NEW u \in Users, CreateUser(t, u)
  PROVE  AccountsInv'
<1>1. PICK q : q = [task[t] EXCEPT !.pc = "dropRow"]
  OBVIOUS
<1>2. q \in Task /\ q.row = task[t].row /\ q.pc = "dropRow" /\ q.email = task[t].email
  BY <1>1, TaskFacts DEF Task, Label
<1>3. /\ task[t].email \in Emails /\ task[t].row.id \in Registrations
      /\ Confirmed(task[t].row.id)
  BY TaskFacts DEF Sound, CreateUser, HoldingCode
<1>4. Sound(q)
  BY <1>2, TaskFacts DEF Sound, CreateUser, HoldingCode, ReplacingLink, HoldingLink
<1>5. Grows /\ SendsMail
  BY DEF CreateUser, Grows, SendsMail, AccountsInv, TypeOK
<1>6. Sound(q)'
  BY <1>2, <1>4, <1>5, SoundStable
<1>7. user' \in [Users -> UserRow]
  BY <1>3 DEF CreateUser, UserRow, Passwords, AccountsInv, TypeOK
<1>8. \A v \in Users : PasswordFrom(v)
  BY <1>3 DEF CreateUser, PasswordFrom, AccountsInv, TypeOK
<1>9. /\ link' \in [Links -> LinkRow] /\ lapsed' = lapsed
      /\ drawn' = drawn /\ drawn \subseteq Registrations \cup Codes
      /\ WritesRow(NoPair)
  BY DEF CreateUser, AccountsInv, TypeOK, WritesRow
<1>10. Become(t, q) /\ Known(q.row)
  BY <1>1, <1>2, TaskFacts DEF CreateUser, Goto
<1> QED BY <1>2, <1>5, <1>6, <1>7, <1>8, <1>9, <1>10, NoPairFits, RequestStep

LEMMA SetPasswordKeeps ==
  ASSUME AccountsInv, NEW t \in Tasks, SetPassword(t)
  PROVE  AccountsInv'
<1>1. PICK q : q = [task[t] EXCEPT !.pc = "linkSpend"]
  OBVIOUS
<1>2. /\ q \in Task /\ q.row = task[t].row /\ q.pc = "linkSpend"
      /\ q.link = task[t].link /\ q.user = task[t].user
  BY <1>1, TaskFacts DEF Task, Label
<1>3. /\ task[t].link \in Links /\ task[t].user \in Users
      /\ link[task[t].link].user = task[t].user
  BY TaskFacts DEF Sound, SetPassword, HoldingLink
<1>4. Sound(q)
  BY <1>2, TaskFacts DEF Sound, SetPassword, HoldingCode, ReplacingLink, HoldingLink
<1>5. Grows /\ SendsMail
  BY DEF SetPassword, Grows, SendsMail, AccountsInv, TypeOK
<1>6. Sound(q)'
  BY <1>2, <1>4, <1>5, SoundStable
<1>7. user' \in [Users -> UserRow]
  BY <1>3 DEF SetPassword, UserRow, Passwords, AccountsInv, TypeOK
<1>8. \A v \in Users : PasswordFrom(v)
  BY <1>2, <1>3 DEF SetPassword, PasswordFrom, UserRow, AccountsInv, TypeOK
<1>9. /\ link' \in [Links -> LinkRow] /\ lapsed' = lapsed
      /\ drawn' = drawn /\ drawn \subseteq Registrations \cup Codes
      /\ WritesRow(NoPair)
  BY DEF SetPassword, AccountsInv, TypeOK, WritesRow
<1>10. Become(t, q) /\ Known(q.row)
  BY <1>1, <1>2, TaskFacts DEF SetPassword, Goto
<1> QED BY <1>2, <1>5, <1>6, <1>7, <1>8, <1>9, <1>10, NoPairFits, RequestStep
-----------------------------------------------------------------------------
(* A step that writes links, keeps their users and spends no less. *)
LEMMA LinkStep ==
  ASSUME AccountsInv, NEW t \in Tasks, NEW q \in Task, Become(t, q), Sound(q)', Grows,
         Known(q.row), link' \in [Links -> LinkRow],
         UNCHANGED <<user, pending, mailbox, lapsed, drawn>>
  PROVE  AccountsInv'
<1>1. /\ user' \in [Users -> UserRow] /\ drawn \subseteq Registrations \cup Codes
      /\ WritesRow(NoPair) /\ SendsMail
  BY DEF AccountsInv, TypeOK, WritesRow, SendsMail
<1>2. \A u \in Users : PasswordFrom(u)
  BY DEF PasswordFrom
<1> QED BY <1>1, <1>2, NoPairFits, RequestStep

LEMMA LinkInvalidateKeeps ==
  ASSUME AccountsInv, NEW t \in Tasks, LinkInvalidate(t)
  PROVE  AccountsInv'
<1>1. PICK q : q = [task[t] EXCEPT !.pc = "linkInsert"]
  OBVIOUS
<1>2. /\ q \in Task /\ q.row = task[t].row /\ q.pc = "linkInsert"
      /\ q.older = task[t].older /\ q.user = task[t].user
  BY <1>1, TaskFacts DEF Task, Label
<1>3. /\ q.older \subseteq Links /\ q.row.attempts <= MaxAttempts /\ q.user \in Users
      /\ \A l \in q.older : link[l].user = q.user
  BY <1>2, TaskFacts DEF Task, Sound, LinkInvalidate, ReplacingLink
<1>4. /\ link' \in [Links -> LinkRow]
      /\ \A l \in Links : /\ link'[l].user = link[l].user
                          /\ link[l].used \/ link[l].user = q.user => link'[l].used
  BY <1>2 DEF LinkInvalidate, LinksOf, LinkRow, AccountsInv, TypeOK
<1>5. Grows
  BY <1>4 DEF LinkInvalidate, Grows
<1>6. Sound(q)'
  BY <1>2, <1>3, <1>4 DEF Sound, HoldingCode, ReplacingLink, HoldingLink
<1>7. Become(t, q) /\ Known(q.row)
  BY <1>1, <1>2, TaskFacts DEF LinkInvalidate, Goto
<1> QED BY <1>2, <1>4, <1>5, <1>6, <1>7, LinkStep DEF LinkInvalidate

LEMMA LinkInsertKeeps ==
  ASSUME AccountsInv, NEW t \in Tasks, NEW l \in Links, LinkInsert(t, l)
  PROVE  AccountsInv'
<1>1. task[t].user \in Users /\ task[t].row.attempts <= MaxAttempts
  BY TaskFacts DEF Sound, LinkInsert, ReplacingLink
<1>2. link[l].user \notin Users
  BY AccountsAssumption DEF LinkInsert, NoLink
<1>3. CASE Become(t, Idle) /\ UNCHANGED link
  <2>1. Grows /\ link' \in [Links -> LinkRow]
    BY <1>3 DEF LinkInsert, Grows, AccountsInv, TypeOK
  <2>2. Sound(Idle)'
    BY <2>1, IdleIsTask, IdleSound, SoundStable
  <2>3. Known(Idle.row)
    BY NoRowSound DEF Idle
  <2> QED BY <1>3, <2>1, <2>2, <2>3, IdleIsTask, LinkStep DEF LinkInsert
<1>4. CASE /\ link' = [link EXCEPT ![l] = [user |-> task[t].user, used |-> FALSE]]
           /\ Become(t, [task[t] EXCEPT !.pc = "linkMail", !.link = l])
  <2>1. PICK q : q = [task[t] EXCEPT !.pc = "linkMail", !.link = l]
    OBVIOUS
  <2>2. /\ q \in Task /\ q.row = task[t].row /\ q.pc = "linkMail" /\ q.link = l
        /\ q.older = task[t].older /\ q.user = task[t].user
    BY <2>1, TaskFacts DEF Task, Label
  <2>3. /\ q.older \subseteq Links
        /\ \A i \in q.older : link[i].user = q.user /\ link[i].used
    BY <2>2, TaskFacts DEF Task, Sound, LinkInsert, ReplacingLink
  <2>4. /\ link' \in [Links -> LinkRow] /\ link'[l].user = q.user
        /\ \A i \in Links \ {l} : link'[i] = link[i]
    BY <1>1, <1>4, <2>2 DEF LinkRow, AccountsInv, TypeOK
  <2>5. Grows
    BY <1>2, <2>4 DEF LinkInsert, Grows
  <2>6. l \notin q.older
    BY <1>1, <1>2, <2>2, <2>3
  <2>7. Sound(q)'
    BY <1>1, <2>2, <2>3, <2>4, <2>6 DEF Sound, HoldingCode, ReplacingLink, HoldingLink
  <2> QED BY <1>4, <2>1, <2>2, <2>4, <2>5, <2>7, TaskFacts, LinkStep DEF LinkInsert
<1> QED BY <1>3, <1>4 DEF LinkInsert, Finish

LEMMA LinkSpendKeeps ==
  ASSUME AccountsInv, NEW t \in Tasks, LinkSpend(t)
  PROVE  AccountsInv'
<1>1. task[t].link \in Links
  BY TaskFacts DEF Sound, LinkSpend, HoldingLink
<1>2. /\ link' \in [Links -> LinkRow] /\ link'[task[t].link].used
      /\ \A l \in Links : link'[l].user = link[l].user /\ (link[l].used => link'[l].used)
  BY <1>1 DEF LinkSpend, LinkRow, AccountsInv, TypeOK
<1>3. Grows
  BY <1>2 DEF LinkSpend, Grows
<1>4. Sound(Idle)'
  BY <1>3, IdleIsTask, IdleSound, SoundStable
<1>5. Known(Idle.row)
  BY NoRowSound DEF Idle
<1> QED BY <1>2, <1>3, <1>4, <1>5, IdleIsTask, LinkStep DEF LinkSpend, Finish
-----------------------------------------------------------------------------
(* Steps that no request takes. *)
LEMMA QuietStep ==
  ASSUME AccountsInv, UNCHANGED <<pending, link, mailbox, drawn, task>>,
         user' \in [Users -> UserRow], lapsed' \subseteq Codes \cup Links,
         \A u \in Users : \/ user'[u].password = user[u].password
                         \/ user'[u].password \in {Staff, None}
  PROVE  AccountsInv'
<1> USE DEF AccountsInv
<1>1. TypeOK' /\ RowsSound' /\ AttemptsBounded'
  BY DEF TypeOK, RowsSound, AttemptsBounded
<1>2. CodesBelong'
  BY DEF CodesBelong, Pairs
<1>3. TasksSound'
  BY DEF TasksSound, Sound, Confirmed
<1>4. LinksSound'
  BY AccountsAssumption DEF LinksSound
<1>5. AccountIsConfirmed'
  BY AccountsAssumption DEF AccountIsConfirmed
<1> QED BY <1>1, <1>2, <1>3, <1>4, <1>5

LEMMA StaffStepKeeps == AccountsInv /\ StaffStep => AccountsInv'
<1> SUFFICES ASSUME AccountsInv, NEW u \in Users,
                    \/ \E e \in Emails : CreateByStaff(u, e)
                    \/ UpdateByStaff(u)
                    \/ RemoveUser(u)
             PROVE  AccountsInv'
  BY DEF StaffStep
<1> USE DEF AccountsInv, TypeOK, UserRow, Passwords
<1>1. CASE \E e \in Emails : CreateByStaff(u, e)
  BY <1>1, QuietStep DEF CreateByStaff
<1>2. CASE UpdateByStaff(u)
  BY <1>2, QuietStep DEF UpdateByStaff
<1>3. CASE RemoveUser(u)
  BY <1>3, EmptyRows, QuietStep DEF RemoveUser, NoUser
<1> QED BY <1>1, <1>2, <1>3

LEMMA LapseKeeps ==
  ASSUME AccountsInv, NEW s \in Codes \cup Links, Lapse(s)
  PROVE  AccountsInv'
  BY QuietStep DEF Lapse, AccountsInv, TypeOK
-----------------------------------------------------------------------------
LEMMA AccountsInit == Init => AccountsInv
<1> SUFFICES ASSUME Init PROVE AccountsInv
  OBVIOUS
<1>1. TypeOK
  BY EmptyRows, IdleIsTask DEF Init, TypeOK
<1>2. Pairs = {}
  BY AccountsAssumption DEF Init, Pairs, Pair, NoRow, Idle
<1>3. CodesBelong
  BY <1>2 DEF CodesBelong
<1>4. TasksSound
  BY IdleSound DEF Init, TasksSound
<1>5. RowsSound /\ AttemptsBounded
  BY AccountsAssumption DEF Init, RowsSound, AttemptsBounded, NoRow
<1>6. LinksSound /\ AccountIsConfirmed
  BY AccountsAssumption DEF Init, LinksSound, AccountIsConfirmed, NoUser
<1> QED BY <1>1, <1>3, <1>4, <1>5, <1>6 DEF AccountsInv

LEMMA AccountsStutter == AccountsInv /\ UNCHANGED vars => AccountsInv'
  BY QuietStep DEF vars, AccountsInv, TypeOK

LEMMA AccountsStep == AccountsInv /\ [Next]_vars => AccountsInv'
<1> SUFFICES ASSUME AccountsInv, Next PROVE AccountsInv'
  BY AccountsStutter
<1>1. ASSUME NEW t \in Tasks, RegistrationStep(t) PROVE AccountsInv'
  BY <1>1, RegisterKeeps, VerifyKeeps, ResendKeeps, ClearRowKeeps, MailCodeKeeps,
     DropRowKeeps, CountSaveKeeps, ResendSaveKeeps, InsertRowKeeps,
     CreateRefusedKeeps, CreateUserKeeps
  DEF RegistrationStep
<1>2. ASSUME NEW t \in Tasks, ResetStep(t) PROVE AccountsInv'
  BY <1>2, ForgotKeeps, LinkInsertKeeps, ResetKeeps, LinkInvalidateKeeps,
     LinkMailKeeps, SetPasswordKeeps, LinkSpendKeeps
  DEF ResetStep
<1> QED BY <1>1, <1>2, AbortKeeps, StaffStepKeeps, LapseKeeps DEF Next

(* Whatever the number of accounts, requests and codes: no request holds a   *)
(* row that pairs a code with another registration, a count past the limit   *)
(* or a link that is not its user's.                                         *)
THEOREM AccountsInvariant == Spec => []AccountsInv
  BY AccountsInit, AccountsStep, PTL DEF Spec

(* The rows of users, registrations and links, and what requests hold of *)
(* them, have their types throughout.                                    *)
THEOREM AccountsTyped == Spec => []TypeOK
<1>1. AccountsInv => TypeOK
  BY DEF AccountsInv
<1> QED BY <1>1, AccountsInvariant, PTL

(* An account with the password of its registration belongs to somebody who *)
(* got that registration's code by mail.                                    *)
THEOREM AccountsAreConfirmed == Spec => []AccountIsConfirmed
<1>1. AccountsInv => AccountIsConfirmed
  BY DEF AccountsInv
<1> QED BY <1>1, AccountsInvariant, PTL

(* Overlapping verifications never count past the limit of attempts. *)
THEOREM AttemptsAreBounded == Spec => []AttemptsBounded
<1>1. AccountsInv => AttemptsBounded
  BY DEF AccountsInv
<1> QED BY <1>1, AccountsInvariant, PTL

(* The links a user had are dead before a new one is inserted, for every     *)
(* number of requests that invalidate, insert and spend links at once.       *)
THEOREM OldLinksStayDead == Spec => []OlderLinksAreDead
<1>1. AccountsInv => OlderLinksAreDead
  BY DEF AccountsInv, TasksSound, Sound, OlderLinksAreDead
<1> QED BY <1>1, AccountsInvariant, PTL

-----------------------------------------------------------------------------
(* Request t is about to spend link l. *)
Spending(t, l) == task[t].pc = "linkSpend" /\ task[t].link = l

(* A link becomes reusable only by a step that ends a request about to spend *)
(* it: it is enough that every other step keeps those requests, or the link  *)
(* is spent, and that a password that comes through it comes with one.       *)
LEMMA ReuseStep ==
  ASSUME AccountsInv, Grows, NEW l \in Links, Reusable(l)',
         \A t \in Tasks : Spending(t, l) => Spending(t, l)',
         \A u \in Users : user'[u].password = l =>
           user[u].password = l \/ \E t \in Tasks : Spending(t, l)'
  PROVE  Reusable(l)
<1>1. \A t \in Tasks : ~Spending(t, l)'
  BY DEF Reusable, Spending
<1>2. PICK u \in Users : user[u].password = l
  BY <1>1 DEF Reusable
<1>3. link[l].user \in Users
  BY <1>2 DEF AccountsInv, LinksSound
<1>4. ~link[l].used
  BY <1>3 DEF Grows, Reusable
<1> QED BY <1>1, <1>2, <1>4 DEF Reusable, Spending

(* A request that is not about to spend a link. *)
LEMMA OtherReuse ==
  ASSUME AccountsInv, Grows, NEW l \in Links, Reusable(l)',
         NEW t \in Tasks, NEW q, Become(t, q), task[t].pc # "linkSpend",
         \A u \in Users : user'[u].password = l => user[u].password = l
  PROVE  Reusable(l)
<1>1. \A i \in Tasks : Spending(i, l) => Spending(i, l)'
  BY DEF Spending, Become, AccountsInv, TypeOK
<1> QED BY <1>1, ReuseStep

LEMMA RegistrationReuse ==
  ASSUME AccountsInv, NEW l \in Links, Reusable(l)', NEW t \in Tasks, RegistrationStep(t)
  PROVE  Reusable(l)
<1>1. /\ link' = link /\ mailbox \subseteq mailbox'
      /\ task[t].pc # "linkSpend"
      /\ \E q : Become(t, q)
  BY DEF RegistrationStep, Register, Verify, Resend, ClearRow, MailCode, DropRow, CountSave,
         ResendSave, InsertRow, CreateRefused, CreateUser, Goto, Finish
<1>2. \A u \in Users : user'[u].password = l => user[u].password = l
  <2>1. user' = user \/ \E u \in Users : CreateUser(t, u)
    BY DEF RegistrationStep, Register, Verify, Resend, ClearRow, MailCode, DropRow, CountSave,
           ResendSave, InsertRow, CreateRefused
  <2>2. ASSUME NEW u \in Users, CreateUser(t, u)
        PROVE  \A v \in Users : user'[v].password = l => user[v].password = l
    <3>1. task[t].row.id \in Registrations
      BY <2>2, TaskFacts DEF CreateUser, Sound, HoldingCode
    <3> QED BY <2>2, <3>1, AccountsAssumption DEF CreateUser, AccountsInv, TypeOK
  <2> QED BY <2>1, <2>2
<1> QED BY <1>1, <1>2, OtherReuse DEF Grows

LEMMA ResetReuse ==
  ASSUME AccountsInv, NEW l \in Links, Reusable(l)', NEW t \in Tasks, ResetStep(t)
  PROVE  Reusable(l)
<1>1. CASE (\E u \in Users : Forgot(t, u)) \/ (\E i \in Links : Reset(t, i)) \/ LinkMail(t)
  <2>1. /\ UNCHANGED <<user, link>> /\ mailbox \subseteq mailbox'
        /\ task[t].pc # "linkSpend" /\ \E q : Become(t, q)
    BY <1>1 DEF Forgot, Reset, LinkMail, Finish
  <2> QED BY <2>1, OtherReuse DEF Grows
<1>2. CASE LinkInvalidate(t)
  <2>1. Grows
    BY <1>2 DEF LinkInvalidate, LinksOf, Grows, AccountsInv, TypeOK, LinkRow
  <2> QED BY <1>2, <2>1, OtherReuse DEF LinkInvalidate, Goto
<1>3. CASE \E i \in Links : LinkInsert(t, i)
  <2>1. PICK i \in Links : LinkInsert(t, i)
    BY <1>3
  <2>2. link[i].user \notin Users
    BY <2>1, AccountsAssumption DEF LinkInsert, NoLink
  <2>3. Grows
    BY <2>1, <2>2 DEF LinkInsert, Grows, AccountsInv, TypeOK
  <2> QED BY <2>1, <2>3, OtherReuse DEF LinkInsert, Finish
<1>4. CASE SetPassword(t)
  <2>1. task[t] \in Task /\ task'[t] = [task[t] EXCEPT !.pc = "linkSpend"]
    BY <1>4, TaskFacts DEF SetPassword, Goto, Become, AccountsInv, TypeOK
  <2>2. task'[t].pc = "linkSpend" /\ task'[t].link = task[t].link
    BY <2>1 DEF Task
  <2>3. \A i \in Tasks : Spending(i, l) => Spending(i, l)'
    BY <1>4 DEF SetPassword, Goto, Become, Spending, AccountsInv, TypeOK
  <2>4. \A u \in Users : user'[u].password \in {user[u].password, task[t].link}
    BY <1>4 DEF SetPassword, AccountsInv, TypeOK, UserRow
  <2>5. Grows
    BY <1>4 DEF SetPassword, Grows
  <2>6. \A u \in Users : user'[u].password = l =>
          user[u].password = l \/ \E i \in Tasks : Spending(i, l)'
    BY <2>2, <2>4 DEF Spending
  <2> QED BY <2>3, <2>5, <2>6, ReuseStep
<1>5. CASE LinkSpend(t)
  <2>1. task[t].link \in Links
    BY <1>5, TaskFacts DEF Sound, LinkSpend, HoldingLink
  <2>2. Grows /\ link'[task[t].link].used
    BY <1>5, <2>1 DEF LinkSpend, Grows, LinkRow, AccountsInv, TypeOK
  <2>3. task[t].link # l
    BY <2>2 DEF Reusable
  <2>4. \A i \in Tasks : Spending(i, l) => Spending(i, l)'
    BY <1>5, <2>3 DEF LinkSpend, Finish, Become, Spending, AccountsInv, TypeOK
  <2> QED BY <1>5, <2>2, <2>4, ReuseStep DEF LinkSpend
<1> QED BY <1>1, <1>2, <1>3, <1>4, <1>5 DEF ResetStep

LEMMA NobodysReuse ==
  ASSUME AccountsInv, NEW l \in Links, Reusable(l)',
         StaffStep \/ (\E s \in Codes \cup Links : Lapse(s)) \/ UNCHANGED vars
  PROVE  Reusable(l)
<1>1. UNCHANGED <<mailbox, link, task>>
  BY DEF StaffStep, CreateByStaff, UpdateByStaff, RemoveUser, Lapse, vars
<1>2. Grows /\ \A t \in Tasks : Spending(t, l) => Spending(t, l)'
  BY <1>1 DEF Grows, Spending
<1>3. \A u \in Users : user'[u].password = l => user[u].password = l
  BY AccountsAssumption
  DEF StaffStep, CreateByStaff, UpdateByStaff, RemoveUser, Lapse, vars, NoUser,
      AccountsInv, TypeOK, UserRow
<1> QED BY <1>2, <1>3, ReuseStep

(* For every number of requests, links and users: a link that has set a      *)
(* password is spent unless the very request that used it ended, by a failed *)
(* statement or with the process, between setting the password and spending  *)
(* the link.                                                                 *)
THEOREM ReuseNeedsACutReset == Spec => ReusableByCutReset
<1>1. ASSUME AccountsInv, [Next]_vars, NEW l \in Links, ~Reusable(l), Reusable(l)'
      PROVE  \E t \in Tasks : task[t].pc = "linkSpend" /\ task[t].link = l /\ Abort(t)
  <2>1. PICK t \in Tasks : Abort(t)
    BY <1>1, RegistrationReuse, ResetReuse, NobodysReuse DEF Next
  <2>2. Grows /\ user' = user
    BY <2>1 DEF Abort, Grows
  <2>3. \A i \in Tasks \ {t} : Spending(i, l) => Spending(i, l)'
    BY <1>1, <2>1 DEF Abort, Finish, Become, Spending, AccountsInv, TypeOK
  <2>4. Spending(t, l)
    BY <1>1, <2>2, <2>3, ReuseStep
  <2> QED BY <2>1, <2>4 DEF Spending
<1>2. AccountsInv /\ [Next]_vars =>
        [\A l \in Links : ~Reusable(l) /\ Reusable(l)' =>
           \E t \in Tasks : task[t].pc = "linkSpend" /\ task[t].link = l /\ Abort(t)]_vars
  BY <1>1
<1> QED BY <1>2, AccountsInvariant, PTL DEF Spec, ReusableByCutReset
=============================================================================
