------------------------------ MODULE Accounts ------------------------------
(***************************************************************************)
(* Accounts: registration by a mailed code and password reset by a mailed  *)
(* link (AuthService), and the rows of "users" they create and change      *)
(* (UsersService).  A request is a slot of Tasks, as in SalesTables; an    *)
(* action is what it does between two awaits that matter.                  *)
(*                                                                         *)
(* A password is named by what set it: the registration it was chosen in,  *)
(* the reset link it came through, or Staff.  Codes drawn are distinct,    *)
(* and a code or a link works until it is in lapsed.                       *)
(*                                                                         *)
(* Slip... operators are the next definition with a programming error in   *)
(* it (see SalesTables).                                                   *)
(***************************************************************************)
EXTENDS Naturals, FiniteSets

CONSTANTS
  Emails,
  Users,           \* ids of the rows of "users"
  Registrations,   \* ids of the rows of "pending_registrations"
  Codes,           \* the codes that get drawn
  Links,           \* ids of the rows of "password_reset_tokens"
  Tasks, None, Staff,
  MaxAttempts,     \* REGISTRATION_MAX_VERIFY_ATTEMPTS
  MaxLapses,       \* bound of the model: codes and links that expire
  Faults           \* a subset of {"mailError", "abort"}

ASSUME AccountsAssumption ==
  /\ MaxAttempts \in Nat \ {0}
  /\ MaxLapses \in Nat
  /\ None \notin Emails \cup Users \cup Registrations \cup Codes \cup Links
  /\ Staff \notin Registrations \cup Links \cup {None}
  /\ Registrations \cap (Links \cup Codes) = {}
  /\ Codes \cap Links = {}

VARIABLES
  user,      \* [Users -> UserRow]
  pending,   \* [Emails -> PendingRow]: the column email is unique
  link,      \* [Links -> LinkRow]
  mailbox,   \* mails delivered: a code with its registration, or a link
  lapsed,    \* codes and links whose time is over
  drawn,     \* registrations and codes used up so far
  task       \* [Tasks -> Task]

vars == <<user, pending, link, mailbox, lapsed, drawn, task>>

Passwords == Registrations \cup Links \cup {Staff}
UserRow == [email : Emails \cup {None}, password : Passwords \cup {None}]
PendingRow == [id : Registrations \cup {None}, code : Codes \cup {None},
               attempts : Nat]
LinkRow == [user : Users \cup {None}, used : BOOLEAN]
Mail == [reg : Registrations \cup {None}, secret : Codes \cup Links]

NoUser == [email |-> None, password |-> None]
NoRow == [id |-> None, code |-> None, attempts |-> 0]
NoLink == [user |-> None, used |-> FALSE]

Label == {"idle", "clearRow", "insertRow", "registerMail", "dropRow",
          "countSave", "createUser", "resendSave", "resendMail",
          "linkInvalidate", "linkInsert", "linkMail", "setPassword", "linkSpend"}

(* older: the links of the user when the request for a new one came in. *)
Task == [pc : Label, email : Emails \cup {None}, row : PendingRow,
         user : Users \cup {None}, link : Links \cup {None}, older : SUBSET Links]

Idle == [pc |-> "idle", email |-> None, row |-> NoRow,
         user |-> None, link |-> None, older |-> {}]

TypeOK ==
  /\ user \in [Users -> UserRow]
  /\ pending \in [Emails -> PendingRow]
  /\ link \in [Links -> LinkRow]
  /\ mailbox \subseteq Mail
  /\ lapsed \subseteq Codes \cup Links
  /\ drawn \subseteq Registrations \cup Codes
  /\ task \in [Tasks -> Task]

Init ==
  /\ user = [u \in Users |-> NoUser]
  /\ pending = [e \in Emails |-> NoRow]
  /\ link = [l \in Links |-> NoLink]
  /\ mailbox = {} /\ lapsed = {} /\ drawn = {}
  /\ task = [t \in Tasks |-> Idle]
-----------------------------------------------------------------------------
Become(t, r) == task' = [task EXCEPT ![t] = r]
Goto(t, label) == Become(t, [task[t] EXCEPT !.pc = label])
Finish(t) == Become(t, Idle)

Registered(e) == \E u \in Users : user[u].email = e

(* The unique index on email lets a row in that has the id that is there, *)
(* or any row where there is none.                                        *)
Saveable(e, row) == pending[e].id \in {None, row.id}

(* requestRegistration: refuse a known address, delete the row of an earlier *)
(* request, insert the new one, mail its code.                               *)
Register(t, e, r) ==
  /\ task[t].pc = "idle"
  /\ ~Registered(e)
  /\ r \notin drawn
  /\ drawn' = drawn \cup {r}
  /\ Become(t, [Idle EXCEPT !.pc = "clearRow", !.email = e, !.row.id = r])
  /\ UNCHANGED <<user, pending, link, mailbox, lapsed>>

ClearRow(t) ==
  /\ task[t].pc = "clearRow"
  /\ pending' = [pending EXCEPT ![task[t].email] = NoRow]
  /\ Goto(t, "insertRow")
  /\ UNCHANGED <<user, link, mailbox, lapsed, drawn>>

InsertRow(t, c) ==
  LET e == task[t].email
      row == [task[t].row EXCEPT !.code = c] IN
  /\ task[t].pc = "insertRow"
  /\ c \notin drawn
  /\ drawn' = drawn \cup {c}
  /\ IF Saveable(e, row)
       THEN /\ pending' = [pending EXCEPT ![e] = row]
            /\ Become(t, [task[t] EXCEPT !.pc = "registerMail", !.row = row])
       ELSE /\ Finish(t)
            /\ UNCHANGED pending
  /\ UNCHANGED <<user, link, mailbox, lapsed>>

(* A mail that cannot be sent deletes the row; in resend it does not. *)
MailCode(t) ==
  /\ task[t].pc \in {"registerMail", "resendMail"}
  /\ \/ /\ mailbox' = mailbox \cup {[reg |-> task[t].row.id, secret |-> task[t].row.code]}
        /\ Finish(t)
     \/ /\ "mailError" \in Faults
        /\ IF task[t].pc = "registerMail" THEN Goto(t, "dropRow") ELSE Finish(t)
        /\ UNCHANGED mailbox
  /\ UNCHANGED <<user, pending, link, lapsed, drawn>>

(* Deletion by the id that was read. *)
DropRow(t) ==
  LET e == task[t].email IN
  /\ task[t].pc = "dropRow"
  /\ pending' = IF pending[e].id = task[t].row.id
                  THEN [pending EXCEPT ![e] = NoRow] ELSE pending
  /\ Finish(t)
  /\ UNCHANGED <<user, link, mailbox, lapsed, drawn>>
-----------------------------------------------------------------------------
Entries == {m.secret : m \in mailbox} \cup {None}

(* Slip: one wrong code too many is let through. *)
SlipOneAttemptMore(t, e, entry) ==
  LET row == pending[e] IN
  /\ task[t].pc = "idle"
  /\ row.id # None
  /\ \/ /\ row.code \in lapsed \/ row.attempts > MaxAttempts
        /\ Become(t, [Idle EXCEPT !.pc = "dropRow", !.email = e, !.row = row])
     \/ /\ row.code \notin lapsed /\ row.attempts <= MaxAttempts
        /\ IF entry = row.code
             THEN Become(t, [Idle EXCEPT !.pc = "createUser", !.email = e, !.row = row])
             ELSE Become(t, [Idle EXCEPT !.pc = "countSave", !.email = e,
                                         !.row = [row EXCEPT !.attempts = @ + 1]])
  /\ UNCHANGED <<user, pending, link, mailbox, lapsed, drawn>>

(* verifyRegistration: read the row and decide what becomes of it.  An entry *)
(* is a code out of some mail, or a wrong one.                               *)
Verify(t, e, entry) ==
  LET row == pending[e] IN
  /\ task[t].pc = "idle"
  /\ row.id # None
  /\ \/ /\ row.code \in lapsed \/ row.attempts >= MaxAttempts
        /\ Become(t, [Idle EXCEPT !.pc = "dropRow", !.email = e, !.row = row])
     \/ /\ row.code \notin lapsed /\ row.attempts < MaxAttempts
        /\ IF entry = row.code
             THEN Become(t, [Idle EXCEPT !.pc = "createUser", !.email = e, !.row = row])
             ELSE Become(t, [Idle EXCEPT !.pc = "countSave", !.email = e,
                                         !.row = [row EXCEPT !.attempts = @ + 1]])
  /\ UNCHANGED <<user, pending, link, mailbox, lapsed, drawn>>

CountSave(t) ==
  LET e == task[t].email IN
  /\ task[t].pc = "countSave"
  /\ pending' = IF Saveable(e, task[t].row)
                  THEN [pending EXCEPT ![e] = task[t].row] ELSE pending
  /\ Finish(t)
  /\ UNCHANGED <<user, link, mailbox, lapsed, drawn>>

(* Slip: codeHash is passed where passwordHash belongs. *)
SlipCodeAsPassword(t, u) ==
  LET e == task[t].email IN
  /\ task[t].pc = "createUser"
  /\ user[u] = NoUser
  /\ ~Registered(e)
  /\ user' = [user EXCEPT ![u] = [email |-> e, password |-> task[t].row.code]]
  /\ Goto(t, "dropRow")
  /\ UNCHANGED <<pending, link, mailbox, lapsed, drawn>>

(* createStudentWithPasswordHash; the unique email may refuse it.  Either *)
(* way the pending row is deleted next.                                   *)
CreateUser(t, u) ==
  LET e == task[t].email IN
  /\ task[t].pc = "createUser"
  /\ user[u] = NoUser
  /\ ~Registered(e)
  /\ user' = [user EXCEPT ![u] = [email |-> e, password |-> task[t].row.id]]
  /\ Goto(t, "dropRow")
  /\ UNCHANGED <<pending, link, mailbox, lapsed, drawn>>

CreateRefused(t) ==
  /\ task[t].pc = "createUser"
  /\ Registered(task[t].email)
  /\ Goto(t, "dropRow")
  /\ UNCHANGED <<user, pending, link, mailbox, lapsed, drawn>>

(* resendRegistrationCode: read, draw a code, save the whole row, mail it. *)
Resend(t, e, c) ==
  LET row == pending[e] IN
  /\ task[t].pc = "idle"
  /\ row.id # None
  /\ \/ /\ row.code \in lapsed
        /\ Become(t, [Idle EXCEPT !.pc = "dropRow", !.email = e, !.row = row])
        /\ UNCHANGED drawn
     \/ /\ row.code \notin lapsed
        /\ c \notin drawn
        /\ drawn' = drawn \cup {c}
        /\ Become(t, [Idle EXCEPT !.pc = "resendSave", !.email = e,
                        !.row = [row EXCEPT !.code = c, !.attempts = 0]])
  /\ UNCHANGED <<user, pending, link, mailbox, lapsed>>

(* Slip: UPDATE ... WHERE email = e, which hits whichever row is there. *)
SlipResendByEmail(t) ==
  LET e == task[t].email IN
  /\ task[t].pc = "resendSave"
  /\ pending[e].id # None
  /\ pending' = [pending EXCEPT ![e].code = task[t].row.code, ![e].attempts = 0]
  /\ Goto(t, "resendMail")
  /\ UNCHANGED <<user, link, mailbox, lapsed, drawn>>

ResendSave(t) ==
  LET e == task[t].email IN
  /\ task[t].pc = "resendSave"
  /\ IF Saveable(e, task[t].row)
       THEN /\ pending' = [pending EXCEPT ![e] = task[t].row]
            /\ Goto(t, "resendMail")
       ELSE /\ Finish(t)
            /\ UNCHANGED pending
  /\ UNCHANGED <<user, link, mailbox, lapsed, drawn>>
-----------------------------------------------------------------------------
LinksOf(u) == {l \in Links : link[l].user = u}

(* requestPasswordReset: mark every unused link of the user as used, insert *)
(* a new one, mail it.  A mail that fails changes nothing.                  *)
Forgot(t, u) ==
  /\ task[t].pc = "idle"
  /\ user[u] # NoUser
  /\ Become(t, [Idle EXCEPT !.pc = "linkInvalidate", !.user = u, !.older = LinksOf(u)])
  /\ UNCHANGED <<user, pending, link, mailbox, lapsed, drawn>>

(* Slip: the update that spends the older links is missing. *)
SlipKeepOlder(t) ==
  /\ task[t].pc = "linkInvalidate"
  /\ Goto(t, "linkInsert")
  /\ UNCHANGED <<user, pending, link, mailbox, lapsed, drawn>>

LinkInvalidate(t) ==
  /\ task[t].pc = "linkInvalidate"
  /\ link' = [l \in Links |-> IF l \in LinksOf(task[t].user)
                                THEN [link[l] EXCEPT !.used = TRUE] ELSE link[l]]
  /\ Goto(t, "linkInsert")
  /\ UNCHANGED <<user, pending, mailbox, lapsed, drawn>>

(* The foreign key refuses the link of a user who is gone. *)
LinkInsert(t, l) ==
  LET u == task[t].user IN
  /\ task[t].pc = "linkInsert"
  /\ link[l] = NoLink
  /\ IF user[u] # NoUser
       THEN /\ link' = [link EXCEPT ![l] = [user |-> u, used |-> FALSE]]
            /\ Become(t, [task[t] EXCEPT !.pc = "linkMail", !.link = l])
       ELSE /\ Finish(t)
            /\ UNCHANGED link
  /\ UNCHANGED <<user, pending, mailbox, lapsed, drawn>>

LinkMail(t) ==
  /\ task[t].pc = "linkMail"
  /\ \/ mailbox' = mailbox \cup {[reg |-> None, secret |-> task[t].link]}
     \/ "mailError" \in Faults /\ UNCHANGED mailbox
  /\ Finish(t)
  /\ UNCHANGED <<user, pending, link, lapsed, drawn>>

(* resetPassword: read the link, change the password, save the link as used. *)
Reset(t, l) ==
  /\ task[t].pc = "idle"
  /\ l \in Entries
  /\ ~link[l].used
  /\ l \notin lapsed
  /\ Become(t, [Idle EXCEPT !.pc = "setPassword", !.user = link[l].user, !.link = l])
  /\ UNCHANGED <<user, pending, link, mailbox, lapsed, drawn>>

SetPassword(t) ==
  /\ task[t].pc = "setPassword"
  /\ user' = [user EXCEPT ![task[t].user].password = task[t].link]
  /\ Goto(t, "linkSpend")
  /\ UNCHANGED <<pending, link, mailbox, lapsed, drawn>>

(* Slip: the link to spend is looked up by its user, not by its token. *)
SlipSpendOfUser(t) ==
  /\ task[t].pc = "linkSpend"
  /\ \E l \in LinksOf(task[t].user) : link' = [link EXCEPT ![l].used = TRUE]
  /\ Finish(t)
  /\ UNCHANGED <<user, pending, mailbox, lapsed, drawn>>

LinkSpend(t) ==
  /\ task[t].pc = "linkSpend"
  /\ link' = [link EXCEPT ![task[t].link].used = TRUE]
  /\ Finish(t)
  /\ UNCHANGED <<user, pending, mailbox, lapsed, drawn>>
-----------------------------------------------------------------------------
(* UsersService: create, update (address or password), remove; the foreign *)
(* key keeps a user who has links.                                         *)
CreateByStaff(u, e) ==
  /\ user[u] = NoUser
  /\ ~Registered(e)
  /\ user' = [user EXCEPT ![u] = [email |-> e, password |-> Staff]]
  /\ UNCHANGED <<pending, link, mailbox, lapsed, drawn, task>>

UpdateByStaff(u) ==
  /\ user[u] # NoUser
  /\ \/ user' = [user EXCEPT ![u].password = Staff]
     \/ \E e \in Emails : ~Registered(e) /\ user' = [user EXCEPT ![u].email = e]
  /\ UNCHANGED <<pending, link, mailbox, lapsed, drawn, task>>

RemoveUser(u) ==
  /\ user[u] # NoUser
  /\ LinksOf(u) = {}
  /\ user' = [user EXCEPT ![u] = NoUser]
  /\ UNCHANGED <<pending, link, mailbox, lapsed, drawn, task>>

(* Time passes for a code or a link that is in use. *)
Lapse(s) ==
  /\ s \notin lapsed
  /\ Cardinality(lapsed) < MaxLapses
  /\ s \in Codes => s \in drawn
  /\ s \in Links => link[s] # NoLink
  /\ lapsed' = lapsed \cup {s}
  /\ UNCHANGED <<user, pending, link, mailbox, drawn, task>>
-----------------------------------------------------------------------------
(* A request ends before its next await: a statement fails and the exception *)
(* leaves the service, which catches none but those above, or the process    *)
(* stops.                                                                    *)
Abort(t) ==
  /\ "abort" \in Faults
  /\ task[t].pc # "idle"
  /\ Finish(t)
  /\ UNCHANGED <<user, pending, link, mailbox, lapsed, drawn>>

RegistrationStep(t) ==
  \/ \E e \in Emails :
       \/ \E r \in Registrations : Register(t, e, r)
       \/ \E entry \in Entries : Verify(t, e, entry)
       \/ \E c \in Codes : Resend(t, e, c)
  \/ ClearRow(t) \/ MailCode(t) \/ DropRow(t) \/ CountSave(t) \/ ResendSave(t)
  \/ \E c \in Codes : InsertRow(t, c)
  \/ CreateRefused(t)
  \/ \E u \in Users : CreateUser(t, u)

ResetStep(t) ==
  \/ \E u \in Users : Forgot(t, u)
  \/ \E l \in Links : LinkInsert(t, l) \/ Reset(t, l)
  \/ LinkInvalidate(t) \/ LinkMail(t) \/ SetPassword(t) \/ LinkSpend(t)

StaffStep == \E u \in Users :
  \/ \E e \in Emails : CreateByStaff(u, e)
  \/ UpdateByStaff(u) \/ RemoveUser(u)

Next ==
  \/ \E t \in Tasks : RegistrationStep(t) \/ ResetStep(t) \/ Abort(t)
  \/ StaffStep
  \/ \E s \in Codes \cup Links : Lapse(s)

Spec == Init /\ [][Next]_vars
-----------------------------------------------------------------------------
(* An account that still has the password of its registration belongs to    *)
(* somebody who got the code of that very registration by mail: requests    *)
(* for the same address that replace, resend and restore each other's row   *)
(* never pair one registration's code with another one's password.          *)
AccountIsConfirmed ==
  \A u \in Users : user[u].password \in Registrations =>
    \E m \in mailbox : m.reg = user[u].password

(* The stored count of wrong codes stays within the limit, although it is   *)
(* read, checked and saved by requests that overlap.  (They may overwrite   *)
(* each other's count, so more codes than the limit can be compared.)       *)
AttemptsBounded == \A e \in Emails : pending[e].attempts <= MaxAttempts

(* "Invalider tous les tokens précédents": the links a user had when a new  *)
(* one was asked for no longer work once the new one exists.                *)
OlderLinksAreDead ==
  \A t \in Tasks : task[t].pc \in {"linkInsert", "linkMail"} =>
    \A l \in task[t].older : link[l].used

(* A link that has set the password of an account and would do it again:    *)
(* no request is left that is going to spend it.                            *)
Reusable(l) ==
  /\ ~link[l].used
  /\ \E u \in Users : user[u].password = l
  /\ \A t \in Tasks : ~(task[t].pc = "linkSpend" /\ task[t].link = l)

(* "Ce lien de réinitialisation a déjà été utilisé": a link that set a      *)
(* password is dead afterwards, although it is spent by a statement of its  *)
(* own and other requests read, invalidate and insert links in between; it  *)
(* survives only when the request that used it ends before that statement.  *)
ReusableByCutReset ==
  [][\A l \in Links : ~Reusable(l) /\ Reusable(l)' =>
       \E t \in Tasks : task[t].pc = "linkSpend" /\ task[t].link = l /\ Abort(t)]_vars
-----------------------------------------------------------------------------
(* What the requests in flight know.  A code belongs to one registration, in *)
(* whichever row, request or mail the two occur together.                    *)
Pair(row) == [reg |-> row.id, secret |-> row.code]

Pairs == {p \in mailbox \cup {Pair(pending[e]) : e \in Emails}
                        \cup {Pair(task[t].row) : t \in Tasks} : p.secret \in Codes}

CodesBelong ==
  /\ \A p \in Pairs : p.secret \in drawn
  /\ \A p, q \in Pairs : p.secret = q.secret => p.reg = q.reg

Confirmed(r) == \E m \in mailbox : m.reg = r

HoldingCode == {"registerMail", "dropRow", "countSave", "createUser", "resendSave", "resendMail"}
ReplacingLink == {"linkInvalidate", "linkInsert", "linkMail"}
HoldingLink == {"linkMail", "setPassword", "linkSpend"}

(* A request has a whole row in hand, with a count within the limit; one     *)
(* that creates a user has had its registration confirmed; the links that    *)
(* were there before are the user's own, and dead once they are invalidated. *)
Sound(r) ==
  /\ r.row.attempts <= MaxAttempts
  /\ r.pc \in HoldingCode \cup {"clearRow", "insertRow"} =>
       r.email \in Emails /\ r.row.id \in Registrations
  /\ r.pc \in HoldingCode => r.row.code \in Codes
  /\ r.pc = "createUser" => Confirmed(r.row.id)
  /\ r.pc \in ReplacingLink =>
       r.user \in Users /\ \A l \in r.older : link[l].user = r.user
  /\ r.pc \in {"linkInsert", "linkMail"} => \A l \in r.older : link[l].used
  /\ r.pc \in HoldingLink => r.link \in Links /\ r.user \in Users /\ link[r.link].user = r.user

TasksSound == \A t \in Tasks : Sound(task[t])

RowsSound == \A e \in Emails : pending[e].id # None => pending[e].code \in Codes

(* A link that was mailed or has set a password is there, and for good. *)
LinksSound == \A l \in Links :
  (\E m \in mailbox : m.secret = l) \/ (\E u \in Users : user[u].password = l) =>
    link[l].user \in Users

(* No request can write back a row whose code was mailed for another        *)
(* registration, nor a count past the limit, nor leave the older links of   *)
(* its user alive, however many others have saved the same rows meanwhile.  *)
AccountsInv ==
  /\ TypeOK /\ CodesBelong /\ TasksSound /\ RowsSound /\ LinksSound
  /\ AccountIsConfirmed /\ AttemptsBounded
=============================================================================
