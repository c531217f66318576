------------------------------- MODULE Mailbox -------------------------------
(* The kwamis' mail (email_service.py, sendgrid_service.py, routes/email.py, *)
(* routes/webhooks.py, idempotency.py, migration 007): an address is taken   *)
(* and given up, mail that comes is stored with the account that holds its   *)
(* address, mail that is sent is recorded.  Each call is a step of its own.  *)
(* External: SendGrid, which redelivers what was not answered with 2xx.      *)
EXTENDS Naturals, FiniteSets, Sequences

CONSTANTS MailJobs,      \* requests and mails, 1..n, in the order they arrive
          MailMenu,      \* what each may be: [op, kwami, name, to, id]
          MailCopies,    \* deliveries of one mail that may run at once, 1..n
          MaxMailFaults  \* calls that fail, deliveries too many
ASSUME MailAssumption ==
    /\ MailJobs \subseteq Nat \ {0} /\ 1 \in MailCopies /\ MaxMailFaults \in Nat
    /\ \A m \in MailMenu : /\ m.op \in {"activate", "deactivate", "send", "mail"} /\ m.id \in BOOLEAN
                          /\ Len(m.to) \in Nat /\ DOMAIN m.to = 1..Len(m.to)

VARIABLES
  accounts,  \* kwami_email_accounts: [id, kwami, name]
  mails,     \* kwami_email_messages: [job, copy, id, account, kwami, way, read]
  post,      \* the requests and mails: what they are, and their answer
  clerk,     \* who handles them: <<job, copy>>
  mailFaults

mailVars == <<accounts, mails, post, clerk, mailFaults>>

Clerks == MailJobs \X MailCopies
Unasked == [op |-> "", kwami |-> "", name |-> "", to |-> <<>>, id |-> FALSE,
            answer |-> "", sent |-> FALSE]
Off == [at |-> "off", account |-> 0, kwami |-> "", next |-> 1]

Asks(h) == post[h[1]]
Does(h, pc) == clerk[h].at = pc
Moves(h, pc) == clerk' = [clerk EXCEPT ![h].at = pc]
MailFault == mailFaults < MaxMailFaults /\ mailFaults' = mailFaults + 1
Done(h, why) ==
    /\ clerk' = [clerk EXCEPT ![h] = Off]
    /\ post' = [post EXCEPT ![h[1]].answer = why]
\* 5xx: SendGrid comes again, a user is told.
Fails(h) ==
    /\ clerk' = [clerk EXCEPT ![h] = Off]
    /\ post' = [post EXCEPT ![h[1]].answer = IF Asks(h).op = "mail" THEN @ ELSE "error"]

MailInit ==
    /\ accounts = {} /\ mails = {} /\ post = [j \in MailJobs |-> Unasked]
    /\ clerk = [h \in Clerks |-> Off] /\ mailFaults = 0

Ask(j) ==
    /\ post[j].op = "" /\ \A i \in MailJobs : i < j => post[i].op # ""
    /\ \E m \in MailMenu :
         post' = [post EXCEPT ![j] = [Unasked EXCEPT !.op = m.op, !.kwami = m.kwami, !.name = m.name,
                                                     !.to = m.to, !.id = m.id]]
    /\ UNCHANGED <<accounts, mails, clerk, mailFaults>>

FirstStep(h) == IF Asks(h).op = "mail" THEN "address" ELSE "account"

\* SendGrid delivers a mail until it is answered; a user asks once.
Begin(h) ==
    /\ Asks(h).op # "" /\ Asks(h).answer = "" /\ h[2] = 1
    /\ \A c \in MailCopies : Does(<<h[1], c>>, "off")
    /\ Moves(h, FirstStep(h))
    /\ UNCHANGED <<accounts, mails, post, mailFaults>>

BeginAgain(h) ==
    /\ Asks(h).op = "mail" /\ Does(h, "off")
    /\ Asks(h).answer # "" \/ \E c \in MailCopies : ~Does(<<h[1], c>>, "off")
    /\ MailFault /\ Moves(h, FirstStep(h))
    /\ UNCHANGED <<accounts, mails, post>>

---------------------------------------------------------------------------
\* get_account, which activate_account, deactivate_account and a sending start with.
GetAccount(h) ==
    /\ Does(h, "account")
    /\ LET mine == {a \in accounts : a.kwami = Asks(h).kwami} IN
       \/ /\ Asks(h).op = "activate"
          /\ IF mine # {} THEN Done(h, "ok") ELSE Moves(h, "name") /\ UNCHANGED post
       \/ /\ Asks(h).op # "activate"
          /\ IF mine = {} THEN Done(h, "no account")
             ELSE /\ \E a \in mine : clerk' = [clerk EXCEPT ![h].account = a.id, ![h].kwami = a.kwami,
                         ![h].at = IF Asks(h).op = "send" THEN "send" ELSE "delete mails"]
                  /\ UNCHANGED post
    /\ UNCHANGED <<accounts, mails, mailFaults>>

\* check_username_available
CheckUsernameAvailable(h) ==
    /\ Does(h, "name")
    /\ IF \E a \in accounts : a.name = Asks(h).name THEN Done(h, "taken")
       ELSE Moves(h, "insert") /\ UNCHANGED post
    /\ UNCHANGED <<accounts, mails, mailFaults>>

\* activate_account: a name has one account and a kwami has one (migration 007).  A
\* request makes one account at most, which has its number.
InsertAccount(h) ==
    /\ Does(h, "insert")
    /\ LET clash == \E a \in accounts : a.name = Asks(h).name \/ a.kwami = Asks(h).kwami IN
       \/ /\ ~clash /\ Done(h, "ok") /\ UNCHANGED mailFaults
          /\ accounts' = accounts \cup {[id |-> h[1], kwami |-> Asks(h).kwami, name |-> Asks(h).name]}
       \/ clash /\ Fails(h) /\ UNCHANGED <<accounts, mailFaults>>
       \/ MailFault /\ Fails(h) /\ UNCHANGED accounts
    /\ UNCHANGED mails

\* deactivate_account: the messages, then the account ...
DeleteMails(h) ==
    /\ Does(h, "delete mails")
    /\ \/ mails' = {m \in mails : m.account # clerk[h].account} /\ Moves(h, "delete account")
          /\ UNCHANGED <<post, mailFaults>>
       \/ MailFault /\ Fails(h) /\ UNCHANGED mails
    /\ UNCHANGED accounts

\* mutant: the messages were deleted before.
LeftAfterAll(m, id) == TRUE
\* ... which takes with it what came in between (ON DELETE CASCADE).
LeftAfter(m, id) == m.account # id

DeleteAccount(h) ==
    /\ Does(h, "delete account")
    /\ \/ /\ accounts' = {a \in accounts : a.id # clerk[h].account}
          /\ mails' = {m \in mails : LeftAfter(m, clerk[h].account)}
          /\ Done(h, "ok") /\ UNCHANGED mailFaults
       \/ MailFault /\ Fails(h) /\ UNCHANGED <<accounts, mails>>

---------------------------------------------------------------------------
\* process_inbound_email: the first address that is somebody's; mail for nobody is
\* answered, and does not come again.
FindAccountByAddress(h) ==
    /\ Does(h, "address")
    /\ LET i == clerk[h].next
           held == {a \in accounts : a.name = Asks(h).to[i]}
       IN IF i > Len(Asks(h).to) THEN Done(h, "dropped")
          ELSE /\ \/ held = {} /\ clerk' = [clerk EXCEPT ![h].next = i + 1]
                  \/ \E a \in held : clerk' = [clerk EXCEPT ![h].at = "store", ![h].account = a.id,
                                                            ![h].kwami = a.kwami]
               /\ UNCHANGED post
    /\ UNCHANGED <<accounts, mails, mailFaults>>

MailRow(h, way, id) ==
    [job |-> h[1], copy |-> IF id THEN 0 ELSE h[2], id |-> id, account |-> clerk[h].account,
     kwami |-> clerk[h].kwami, way |-> way, read |-> way = "out"]
Kept(h) == \E m \in mails : m.job = h[1] /\ m.id
HasAccount(h) == \E a \in accounts : a.id = clerk[h].account

\* insert_or_existing: a second row of one id is refused, and the account must be there.
StoreMail(h) ==
    /\ Does(h, "store")
    /\ \/ Asks(h).id /\ Kept(h) /\ Moves(h, "existing") /\ UNCHANGED <<mails, post, mailFaults>>
       \/ /\ ~(Asks(h).id /\ Kept(h)) /\ HasAccount(h)
          /\ mails' = mails \cup {MailRow(h, "in", Asks(h).id)} /\ Done(h, "ok") /\ UNCHANGED mailFaults
       \/ ~(Asks(h).id /\ Kept(h)) /\ ~HasAccount(h) /\ Fails(h) /\ UNCHANGED <<mails, mailFaults>>
       \/ MailFault /\ Fails(h) /\ UNCHANGED mails
       \/ /\ MailFault /\ Fails(h) /\ HasAccount(h) /\ ~Kept(h)     \* stored, but the call failed
          /\ mails' = mails \cup {MailRow(h, "in", Asks(h).id)}
    /\ UNCHANGED accounts

\* A row that is gone again is as good as a mail for nobody.
ExistingMail(h) ==
    /\ Does(h, "existing")
    /\ \/ Done(h, IF Kept(h) THEN "ok" ELSE "dropped") /\ UNCHANGED mailFaults
       \/ MailFault /\ Fails(h)
    /\ UNCHANGED <<accounts, mails>>

---------------------------------------------------------------------------
\* send_email: SendGrid takes the mail, refuses it, or cannot be asked.
SendMail(h) ==
    /\ Does(h, "send")
    /\ \/ post' = [post EXCEPT ![h[1]].sent = TRUE] /\ Moves(h, "record") /\ UNCHANGED mailFaults
       \/ MailFault /\ Moves(h, "record") /\ UNCHANGED post
       \/ MailFault /\ Fails(h)
    /\ UNCHANGED <<accounts, mails>>

\* store_outbound_email, for a mail that was refused as well.
RecordMail(h) ==
    /\ Does(h, "record")
    /\ \/ /\ HasAccount(h) /\ mails' = mails \cup {MailRow(h, "out", Asks(h).sent)}
          /\ Done(h, "ok") /\ UNCHANGED mailFaults
       \/ ~HasAccount(h) /\ Fails(h) /\ UNCHANGED <<mails, mailFaults>>
       \/ MailFault /\ Fails(h) /\ UNCHANGED mails
    /\ UNCHANGED accounts

\* update_message
MarkRead(m) ==
    /\ mails' = (mails \ {m}) \cup {[m EXCEPT !.read = ~@]}
    /\ UNCHANGED <<accounts, post, clerk, mailFaults>>

ClerkStep(h) ==
    \/ GetAccount(h) \/ CheckUsernameAvailable(h) \/ InsertAccount(h) \/ DeleteMails(h)
    \/ DeleteAccount(h) \/ FindAccountByAddress(h) \/ StoreMail(h) \/ ExistingMail(h)
    \/ SendMail(h) \/ RecordMail(h)
ClerkNext == \E h \in Clerks : Begin(h) \/ ClerkStep(h)
MailNext ==
    \/ ClerkNext \/ \E h \in Clerks : BeginAgain(h)
    \/ \E j \in MailJobs : Ask(j)
    \/ \E m \in mails : MarkRead(m)
MailSpec == MailInit /\ [][MailNext]_mailVars /\ WF_mailVars(ClerkNext)

---------------------------------------------------------------------------
(* Properties *)

\* The unique indexes of migration 007.
MailTypeOK ==
    /\ \A a, b \in accounts : a.name = b.name \/ a.kwami = b.kwami \/ a.id = b.id => a = b
    /\ \A m, n \in mails : m.job = n.job /\ m.id /\ n.id => m = n
    /\ \A h \in Clerks : clerk[h].next \in 1..(Len(Asks(h).to) + 1)

Addressed(j, name) == \E i \in DOMAIN post[j].to : post[j].to[i] = name

\* No mail outlives the account it came to, whatever arrives while the account is given
\* up: the inbox is read by kwami, and the next account of the kwami, or the next holder
\* of the name, never finds it there.
InboxIsOfAccount ==
    \A m \in mails : \E a \in accounts :
        /\ a.id = m.account /\ a.kwami = m.kwami
        /\ m.way = "in" => Addressed(m.job, a.name)

\* The request gives up an account that the mail was addressed to.
GivesUp(i, j) ==
    /\ post[i].op = "deactivate"
    /\ \E k \in MailJobs : /\ post[k].op = "activate" /\ post[k].kwami = post[i].kwami
                          /\ Addressed(j, post[k].name)

\* A mail SendGrid was thanked for, and which was for somebody, is in a mailbox until a
\* kwami it was addressed to asks to give its account up, whatever fails, comes twice, or
\* comes while accounts change hands.
ThankedIsStored ==
    \A j \in MailJobs : post[j].op = "mail" /\ post[j].answer = "ok"
        => (\E m \in mails : m.job = j) \/ \E i \in MailJobs : GivesUp(i, j)

\* Who is told to have an address has one: of two kwamis that ask for a name at once,
\* or of two requests of one kwami, the one refused by the index is not told so.
ToldIsHeld ==
    [][\A j \in MailJobs : post[j].op = "activate" /\ post[j].answer = "" /\ post'[j].answer = "ok"
         => \E a \in accounts' : a.kwami = post[j].kwami]_mailVars

\* Whatever fails or comes twice, time and again no mail waits for its answer.
EveryMailIsAnswered ==
    []<>(\A j \in MailJobs : post[j].op = "mail" => post[j].answer # "")
=============================================================================
