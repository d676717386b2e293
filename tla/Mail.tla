---------------------------------- MODULE Mail ----------------------------------
(***************************************************************************)
(* Transactional mail. A request commits its row (an order, a contact      *)
(* message, an account) and awaits the first mail about it; the second one *)
(* is a task of its own. Each mail has a row of email_logs, written by     *)
(* transactions of their own around every call of the provider.            *)
(*                                                                         *)
(* A call may be refused, accepted and answered, or fail after or before   *)
(* the provider took the mail: httpx gives up after ten seconds. Commits   *)
(* may fail, which leaves the session useless, and the process may die.    *)
(***************************************************************************)
EXTENDS Integers, FiniteSetsExt

CONSTANTS
  Occasions,    \* requests that send mail
  MaxAttempts   \* email_max_retries

ASSUME MailAssumption == MaxAttempts \in 1..5   \* settings.py:264

VARIABLES
  about,        \* what each occasion is
  ready,        \* the provider is configured
  saved,        \* occasions whose row is committed
  task,         \* where the sending of each mail is
  log,          \* the row of email_logs of each mail
  calls,        \* calls of the provider per mail: taken by it, and those of
                \* which the caller knows
  told          \* what the client of each occasion was answered

mailVars == <<about, ready, saved, task, log, calls, told>>

Firsts == [order |-> "confirmation", contact |-> "inbox", account |-> "welcome"]
Mails == Occasions \X {"first", "second"}

MailAt(pc, attempt) == [pc |-> pc, attempt |-> attempt]
Log(status, retries) == [status |-> status, retries |-> retries]

MailInit ==
  /\ about \in [Occasions -> DOMAIN Firsts]
  /\ ready \in BOOLEAN
  /\ saved = {}
  /\ task = [m \in Mails |-> MailAt("none", 0)]
  /\ log = [m \in Mails |-> Log("none", 0)]
  /\ calls = [m \in Mails |-> [taken |-> 0, unsure |-> 0]]
  /\ told = [o \in Occasions |-> "nothing"]

First(o) == <<o, "first">>
Second(o) == <<o, "second">>

Goto(m, pc) == task' = [task EXCEPT ![m].pc = pc]

(* Two mails are sent about an order and about a message, one about an     *)
(* account.                                                                *)
Follows(o) == about[o] # "account"

(* The request's own transaction, before any mail. *)
Save(o) ==
  /\ task[First(o)].pc = "none" /\ told[o] = "nothing"
  /\ \/ /\ saved' = saved \cup {o}
        /\ Goto(First(o), IF ready THEN "queue" ELSE "refuse")
        /\ UNCHANGED told
     \/ /\ told' = [told EXCEPT ![o] = "error"]
        /\ UNCHANGED <<saved, task>>
  /\ UNCHANGED <<about, ready, log, calls>>

(* What comes of a mail that was sent, or not: m's sending ends, the client *)
(* of an awaited one is answered, and the second mail is scheduled if the  *)
(* first was sent. A failure is the client's only when it is of a message. *)
Sent(m) ==
  /\ task' = [n \in Mails |->
       IF n = m THEN MailAt("done", task[m].attempt)
       ELSE IF m = First(n[1]) /\ Follows(m[1])
         THEN MailAt(IF ready THEN "queue" ELSE "refuse", 0)
         ELSE task[n]]
  /\ told' = IF m[2] = "second" THEN told ELSE [told EXCEPT ![m[1]] = "ok"]

(* Mutant: the second mail does not ask what became of the first. *)
FailedAndOn(m) ==
  /\ task' = [n \in Mails |->
       IF n = m THEN MailAt("done", task[m].attempt)
       ELSE IF m = First(n[1]) /\ Follows(m[1]) THEN MailAt("queue", 0) ELSE task[n]]
  /\ told' = IF m[2] = "second" THEN told
             ELSE [told EXCEPT ![m[1]] = IF about[m[1]] = "contact" THEN "error" ELSE "ok"]

(* Mutant: the failure of a contact message's mail is swallowed, too. *)
FailedQuietly(m) ==
  /\ Goto(m, "done")
  /\ told' = IF m[2] = "second" THEN told ELSE [told EXCEPT ![m[1]] = "ok"]

Failed(m) ==
  /\ Goto(m, "done")
  /\ told' = IF m[2] = "second" THEN told
             ELSE [told EXCEPT ![m[1]] = IF about[m[1]] = "contact" THEN "error" ELSE "ok"]

(* Without a configured provider: a row that says so, if it can be written. *)
Refuse(m) ==
  /\ task[m].pc = "refuse"
  /\ log' \in {log, [log EXCEPT ![m] = Log("failed", 0)]}
  /\ Failed(m)
  /\ UNCHANGED <<about, ready, saved, calls>>

(* Mutant: attempts are not counted. *)
RetryForever(m) == Goto(m, "mark")

(* Mutant: one more attempt than is configured. *)
RetryOnce(m) ==
  task' = [task EXCEPT ![m] = IF @.attempt <= MaxAttempts THEN MailAt("mark", @.attempt + 1)
                                                           ELSE MailAt("giveUp", @.attempt)]

(* After a failed call: sleep and try again, or give up. *)
Retry(m) ==
  task' = [task EXCEPT ![m] = IF @.attempt < MaxAttempts THEN MailAt("mark", @.attempt + 1)
                                                          ELSE MailAt("giveUp", @.attempt)]

(* Mutant: the session is rolled back after a failed commit, and the loop  *)
(* goes on.                                                                *)
LogFailsAndOn(m) ==
  /\ task[m].pc \in {"queue", "mark", "record", "giveUp"}
  /\ IF task[m].pc = "record" THEN Retry(m) /\ UNCHANGED told ELSE Failed(m)
  /\ UNCHANGED <<about, ready, saved, log, calls>>

(* A commit of a log row fails: the exception ends the sending. In the      *)
(* loop it is caught, but whatever the handler does next with the session  *)
(* raises, until it leaves the loop.                                       *)
LogFails(m) ==
  /\ task[m].pc \in {"queue", "mark", "record", "giveUp"}
  /\ Failed(m)
  /\ UNCHANGED <<about, ready, saved, log, calls>>

Queue(m) ==
  /\ task[m].pc = "queue"
  /\ log' = [log EXCEPT ![m] = Log("queued", 0)]
  /\ task' = [task EXCEPT ![m] = MailAt("mark", 1)]
  /\ UNCHANGED <<about, ready, saved, calls, told>>

Mark(m) ==
  /\ task[m].pc = "mark"
  /\ log' = [log EXCEPT ![m] = Log("sending", task[m].attempt - 1)]
  /\ Goto(m, "call")
  /\ UNCHANGED <<about, ready, saved, calls, told>>

(* Mutant: an accepted mail whose answer is not JSON counts as refused. *)
CallStrictly(m) ==
  /\ task[m].pc = "call"
  /\ \/ /\ calls' = [calls EXCEPT ![m].taken = @ + 1]
        /\ Goto(m, "record") \/ Retry(m)
     \/ UNCHANGED calls /\ Retry(m)
  /\ UNCHANGED <<about, ready, saved, log, told>>

Call(m) ==
  /\ task[m].pc = "call"
  /\ \/ /\ calls' = [calls EXCEPT ![m].taken = @ + 1]
        /\ Goto(m, "record")
     \/ /\ calls' = [calls EXCEPT ![m] = [taken |-> @.taken + 1, unsure |-> @.unsure + 1]]
        /\ Retry(m)
     \/ UNCHANGED calls /\ Retry(m)
  /\ UNCHANGED <<about, ready, saved, log, told>>

Record(m) ==
  /\ task[m].pc = "record"
  /\ log' = [log EXCEPT ![m] = Log("sent", task[m].attempt - 1)]
  /\ Sent(m)
  /\ UNCHANGED <<about, ready, saved, calls>>

GiveUp(m) ==
  /\ task[m].pc = "giveUp"
  /\ log' = [log EXCEPT ![m] = Log("failed", MaxAttempts)]
  /\ Failed(m)
  /\ UNCHANGED <<about, ready, saved, calls>>

(* The process dies with every task it runs; nothing resumes them. *)
Die ==
  /\ \E m \in Mails : task[m].pc \notin {"none", "done", "dead"}
  /\ task' = [m \in Mails |-> IF task[m].pc \in {"none", "done"} THEN task[m]
                                                                 ELSE MailAt("dead", 0)]
  /\ UNCHANGED <<about, ready, saved, log, calls, told>>

Sending(m) ==
  Refuse(m) \/ LogFails(m) \/ Queue(m) \/ Mark(m) \/ Call(m) \/ Record(m) \/ GiveUp(m)

MailNext ==
  \/ \E o \in Occasions : Save(o)
  \/ \E m \in Mails : Sending(m)
  \/ Die

MailSpec == MailInit /\ [][MailNext]_mailVars

(* The event loop runs every task, and httpx bounds every call. *)
MailFairness == \A m \in Mails : WF_mailVars(Sending(m))

-----------------------------------------------------------------------------
MailTypeOK ==
  /\ saved \subseteq Occasions
  /\ \A m \in Mails :
       /\ task[m].pc \in {"none", "refuse", "queue", "mark", "call", "record",
                          "giveUp", "done", "dead"}
       /\ task[m].attempt \in 0..MaxAttempts
       /\ log[m].status \in {"none", "queued", "sending", "sent", "failed"}
       /\ log[m].retries \in 0..MaxAttempts
  /\ told \in [Occasions -> {"nothing", "ok", "error"}]

(* A mail is sent twice only if the provider took it and the answer was    *)
(* lost: a failure to record what was sent never sends it again.           *)
CopiesWereUnsure == \A m \in Mails : calls[m].taken <= 1 + calls[m].unsure

(* The log row tells the truth: one that says sent was taken and answered; *)
(* one that says failed was never answered.                                *)
LogIsHonest ==
  \A m \in Mails :
    /\ log[m].status = "sent" => calls[m].taken > calls[m].unsure
    /\ log[m].status = "failed" => calls[m].taken = calls[m].unsure

(* The chef is told of an order, and the customer that a message arrived,  *)
(* only after the mail that comes first is known to be sent.               *)
SecondAfterFirst ==
  \A o \in Occasions :
    task[Second(o)].pc # "none" => log[First(o)].status = "sent"

(* As far as mail decides it: a visitor is thanked for a message only if   *)
(* the provider took the restaurant's mail and the message is saved, and   *)
(* the client of an order or account that is saved is not told of an error. *)
ThanksAreDeserved ==
  \A o \in Occasions :
    /\ told[o] = "ok" => o \in saved
    /\ told[o] = "ok" /\ about[o] = "contact" => calls[First(o)].taken > 0
    /\ told[o] = "error" /\ o \in saved => about[o] = "contact"

(* Every client is answered, whatever the provider does, unless the        *)
(* process dies first.                                                     *)
ClientsAnswered ==
  \A o \in Occasions :
    o \in saved ~> (told[o] # "nothing" \/ task[First(o)].pc = "dead")

(* All that is promised of mail at every step: a copy more only for an     *)
(* answer that was lost, an honest log, mails in their order, and thanks   *)
(* for what was received.                                                  *)
MailCorrect ==
  /\ MailTypeOK
  /\ CopiesWereUnsure
  /\ LogIsHonest
  /\ SecondAfterFirst
  /\ ThanksAreDeserved

=============================================================================
