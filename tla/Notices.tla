------------------------------- MODULE Notices --------------------------------
(***************************************************************************)
(* What a tenant and its customer hear of a verdict of the DIAN: the tail  *)
(* of the status job, which adds one job to the queue "mailer" and one to  *)
(* "webhooks", and the processors of those two, beside an administrator    *)
(* who adds and deletes endpoints.                                         *)
(*                                                                         *)
(* The status job has attempts, the two it adds have one and no jobId: a   *)
(* run of the status job that comes again adds both again.  One run of it  *)
(* is a member of Runs, and names the jobs that run adds.                  *)
(***************************************************************************)
EXTENDS BullJob, FiniteSets

CONSTANTS
  Endpoints,      \* rows webhook_endpoints may have
  Registered,     \* those there at the start
  Removable,      \* those a DELETE may name
  Subscribed,     \* subscribedEvents of each; {}: all, as null
  Verdicts,       \* what the DIAN may have decided of the document
  Email,          \* TRUE when the customer has one
  StatusAttempts, \* attempts of the status job
  MaxStalled,     \* maxStalledCount of the workers
  Workers,        \* processes with a worker of each queue
  MaxFaults,      \* bound: failing statements and dying workers
  None

Runs == 1..(StatusAttempts + MaxStalled)

ASSUME NoticesAssumption ==
  /\ Registered \subseteq Endpoints /\ Removable \subseteq Endpoints
  /\ DOMAIN Subscribed = Endpoints
  /\ Verdicts \subseteq {"accepted", "xmlRejected", "rejected"}
  /\ Email \in BOOLEAN
  /\ StatusAttempts \in Nat \ {0} /\ MaxStalled \in Nat
  /\ Workers \in Nat \ {0} /\ MaxFaults \in Nat
  /\ None \notin Endpoints

VARIABLES
  verdict,    \* accepted, accepted with an ApplicationResponse that rejects, rejected
  reply,      \* statusResponse of the status job's run: the verdict, or "bare":
              \* accepted, without XmlBytes
  path,       \* TRUE once dianResponsePath is set
  status,     \* the status job
  mail, hook, \* the jobs its runs added
  endpoint,   \* rows of webhook_endpoints: "absent", "active", "deleted"
  listed,     \* the endpoints a run of the processor read
  todo, at,   \* its loop: those left, and the one it is at
  delivery,   \* rows of webhook_deliveries
  faults

loop == <<listed, todo, at>>
hooks == <<hook, loop, delivery>>
vars == <<verdict, reply, path, status, mail, endpoint, hooks, faults>>

Init ==
  /\ verdict \in Verdicts
  /\ reply = "none"
  /\ path = FALSE
  /\ status = NewJob(0)
  /\ mail = [k \in Runs |-> NoJob]
  /\ hook = [k \in Runs |-> NoJob]
  /\ endpoint = [e \in Endpoints |-> IF e \in Registered THEN "active" ELSE "absent"]
  /\ listed = [k \in Runs |-> {}]
  /\ todo = [k \in Runs |-> {}]
  /\ at = [k \in Runs |-> None]
  /\ delivery = {}
  /\ faults = 0

Fault == faults < MaxFaults /\ faults' = faults + 1

\* A worker of each process takes one job at a time.
Free(queue) == Cardinality({k \in Runs : queue[k].state = "active"}) < Workers

-------------------------------------------------------------------------------
(* the status job, from the verdict on *)

Run == status.made + status.stalls + 1

\* An acceptance without XmlBytes leaves the rest of the branch out: no path,
\* no mail, no webhook.
StatusTake ==
  /\ status.state = "waiting"
  /\ reply' \in {verdict} \cup (IF verdict # "rejected" THEN {"bare"} ELSE {})
  /\ status' = Taken(status, CASE reply' = "rejected" -> "hook"
                              [] reply' = "bare" -> "end"
                              [] OTHER -> "xml")
  /\ UNCHANGED <<verdict, path, mail, endpoint, hooks, faults>>

\* An ApplicationResponse that rejects ends the run, without a webhook.
StatusParse ==
  /\ status.pc = "xml"
  /\ status' = At(status, IF reply = "xmlRejected" THEN "end" ELSE "save")
  /\ UNCHANGED <<verdict, reply, path, mail, endpoint, hooks, faults>>

SavePath ==
  /\ status.pc = "save"
  /\ path' = TRUE
  /\ status' = At(status, "mail")
  /\ UNCHANGED <<verdict, reply, mail, endpoint, hooks, faults>>

AddMail ==
  /\ status.pc = "mail"
  /\ mail' = [mail EXCEPT ![Run] = NewJob(0)]
  /\ status' = At(status, "hook")
  /\ UNCHANGED <<verdict, reply, path, endpoint, hooks, faults>>

AddHook ==
  /\ status.pc = "hook"
  /\ hook' = [hook EXCEPT ![Run] = NewJob(0)]
  /\ status' = At(status, "end")
  /\ UNCHANGED <<verdict, reply, path, mail, endpoint, loop, delivery, faults>>

StatusEnds ==
  /\ status.pc = "end"
  /\ status' = Completed(status)
  /\ UNCHANGED <<verdict, reply, path, mail, endpoint, hooks, faults>>

\* A call to the database or to Redis fails, or its answer is lost.
StatusThrows ==
  /\ status.state = "active"
  /\ Fault
  /\ status' = Thrown(status, StatusAttempts, "idle")
  /\ reply' = "none"
  /\ UNCHANGED <<verdict, path, mail, endpoint, hooks>>

StatusDies ==
  /\ status.state = "active"
  /\ Fault
  /\ status' \in Stalled(status, StatusAttempts, MaxStalled, "idle")
  /\ reply' = "none"
  /\ UNCHANGED <<verdict, path, mail, endpoint, hooks>>

-------------------------------------------------------------------------------
(* MailerProcessor.process *)

MailGoes(k, to) == mail' = [mail EXCEPT ![k] = to]
MailOnly == UNCHANGED <<verdict, reply, path, status, endpoint, hooks>>

MailTake(k) ==
  /\ mail[k].state = "waiting" /\ Free(mail)
  /\ MailGoes(k, CASE ~Email         -> Completed(mail[k])
                   [] Email /\ ~path -> Thrown(mail[k], 1, "idle")
                   [] OTHER          -> Taken(mail[k], "build"))
  /\ UNCHANGED faults /\ MailOnly

\* issueDate is a column of type date, which TypeORM reads as a string: its
\* toISOString is no function, and the job has no attempt left.
MailBuild(k) ==
  /\ mail[k].pc = "build"
  /\ MailGoes(k, Thrown(mail[k], 1, "idle"))
  /\ UNCHANGED faults /\ MailOnly

MailDies(k) ==
  /\ mail[k].state = "active"
  /\ Fault
  /\ \E to \in Stalled(mail[k], 1, MaxStalled, "idle") : MailGoes(k, to)
  /\ MailOnly

-------------------------------------------------------------------------------
(* WebhooksProcessor.process *)

HookGoes(k, to) == hook' = [hook EXCEPT ![k] = to]
HookOnly == UNCHANGED <<verdict, reply, path, status, mail, endpoint>>

\* A run that ends early takes its variables along.
Left(k) ==
  /\ listed' = [listed EXCEPT ![k] = {}]
  /\ todo' = [todo EXCEPT ![k] = {}]
  /\ at' = [at EXCEPT ![k] = None]

\* The event a webhook job carries.
Event == IF verdict = "accepted" THEN "invoice.accepted" ELSE "invoice.rejected"

Wants(e) ==
  \/ Subscribed[e] = {}
  \/ Event \in Subscribed[e]
  \/ "*" \in Subscribed[e]

HookTake(k) ==
  /\ hook[k].state = "waiting" /\ Free(hook)
  /\ listed' = [listed EXCEPT ![k] = {e \in Endpoints : endpoint[e] = "active"}]
  /\ todo' = [todo EXCEPT ![k] = {e \in listed'[k] : Wants(e)}]
  /\ at' = [at EXCEPT ![k] = None]
  /\ HookGoes(k, Taken(hook[k], "loop"))
  /\ UNCHANGED <<delivery, faults>> /\ HookOnly

Row(k, e, run, what) == [job |-> k, endpoint |-> e, run |-> run, status |-> what]
RowOf(k, what) == Row(k, at[k], hook[k].stalls, what)

\* Faulty variant: the table without its foreign key.
InsertUnchecked(k, e) ==
  /\ hook[k].pc = "loop" /\ e \in todo[k]
  /\ at' = [at EXCEPT ![k] = e]
  /\ todo' = [todo EXCEPT ![k] = @ \ {e}]
  /\ delivery' = delivery \cup {Row(k, e, hook[k].stalls, "pending")}
  /\ HookGoes(k, At(hook[k], "post"))
  /\ UNCHANGED <<listed, faults>> /\ HookOnly

\* The foreign key refuses a row for an endpoint deleted meanwhile.
Insert(k, e) ==
  /\ hook[k].pc = "loop" /\ e \in todo[k]
  /\ endpoint[e] = "active"
  /\ at' = [at EXCEPT ![k] = e]
  /\ todo' = [todo EXCEPT ![k] = @ \ {e}]
  /\ delivery' = delivery \cup {Row(k, e, hook[k].stalls, "pending")}
  /\ HookGoes(k, At(hook[k], "post"))
  /\ UNCHANGED <<listed, faults>> /\ HookOnly

InsertRefused(k, e) ==
  /\ hook[k].pc = "loop" /\ e \in todo[k]
  /\ endpoint[e] = "deleted"
  /\ HookGoes(k, Thrown(hook[k], 1, "idle")) /\ Left(k)
  /\ UNCHANGED <<delivery, faults>> /\ HookOnly

\* Faulty variant: axios.post without its timeout.
PostUntimed(k) ==
  /\ hook[k].pc = "post"
  /\ \E next \in {"ok", "bad", "hang"} : HookGoes(k, At(hook[k], next))
  /\ UNCHANGED <<loop, delivery, faults>> /\ HookOnly

\* Within ten seconds the endpoint answers well or badly, or not at all.
Post(k) ==
  /\ hook[k].pc = "post"
  /\ \E next \in {"ok", "bad"} : HookGoes(k, At(hook[k], next))
  /\ UNCHANGED <<loop, delivery, faults>> /\ HookOnly

\* An UPDATE by id, which finds no row once the endpoint took it along.
Mark(k, what) ==
  delivery' = {IF d = RowOf(k, "pending") THEN RowOf(k, what) ELSE d : d \in delivery}

MarkSuccess(k) ==
  /\ hook[k].pc = "ok"
  /\ Mark(k, "success")
  /\ at' = [at EXCEPT ![k] = None]
  /\ HookGoes(k, At(hook[k], "loop"))
  /\ UNCHANGED <<listed, todo, faults>> /\ HookOnly

\* The try covers this UPDATE too: a call that was answered is marked failed.
MarkSuccessFails(k) ==
  /\ hook[k].pc = "ok"
  /\ Fault
  /\ HookGoes(k, At(hook[k], "bad"))
  /\ UNCHANGED <<loop, delivery>> /\ HookOnly

\* Faulty variant: an endpoint that fails ends the loop.
MarkFailedLeaves(k) ==
  /\ hook[k].pc = "bad"
  /\ Mark(k, "failed")
  /\ at' = [at EXCEPT ![k] = None]
  /\ todo' = [todo EXCEPT ![k] = {}]
  /\ HookGoes(k, At(hook[k], "loop"))
  /\ UNCHANGED <<listed, faults>> /\ HookOnly

MarkFailed(k) ==
  /\ hook[k].pc = "bad"
  /\ Mark(k, "failed")
  /\ at' = [at EXCEPT ![k] = None]
  /\ HookGoes(k, At(hook[k], "loop"))
  /\ UNCHANGED <<listed, todo, faults>> /\ HookOnly

HookEnds(k) ==
  /\ hook[k].pc = "loop" /\ todo[k] = {}
  /\ HookGoes(k, Completed(hook[k]))
  /\ UNCHANGED <<loop, delivery, faults>> /\ HookOnly

\* A statement outside the try, or in its catch, fails.
HookThrows(k) ==
  /\ hook[k].pc \in {"loop", "bad"}
  /\ Fault
  /\ HookGoes(k, Thrown(hook[k], 1, "idle")) /\ Left(k)
  /\ UNCHANGED delivery /\ HookOnly

HookDies(k) ==
  /\ hook[k].state = "active"
  /\ Fault
  /\ \E to \in Stalled(hook[k], 1, MaxStalled, "idle") : HookGoes(k, to)
  /\ Left(k)
  /\ UNCHANGED delivery /\ HookOnly

-------------------------------------------------------------------------------
(* WebhooksService *)

Create(e) ==
  /\ endpoint[e] = "absent"
  /\ endpoint' = [endpoint EXCEPT ![e] = "active"]
  /\ UNCHANGED <<verdict, reply, path, status, mail, hooks, faults>>

\* ON DELETE CASCADE takes the deliveries along.
Delete(e) ==
  /\ endpoint[e] = "active"
  /\ endpoint' = [endpoint EXCEPT ![e] = "deleted"]
  /\ delivery' = {d \in delivery : d.endpoint # e}
  /\ UNCHANGED <<verdict, reply, path, status, mail, hook, loop, faults>>

-------------------------------------------------------------------------------

StatusStep == StatusTake \/ StatusParse \/ SavePath \/ AddMail \/ AddHook \/ StatusEnds
MailStep(k) == MailTake(k) \/ MailBuild(k)
HookStep(k) ==
  \/ HookTake(k) \/ Post(k) \/ MarkSuccess(k) \/ MarkFailed(k) \/ HookEnds(k)
  \/ \E e \in Endpoints : Insert(k, e) \/ InsertRefused(k, e)

Next ==
  \/ StatusStep \/ StatusThrows \/ StatusDies
  \/ \E k \in Runs :
       \/ MailStep(k) \/ MailDies(k)
       \/ HookStep(k) \/ MarkSuccessFails(k) \/ HookThrows(k) \/ HookDies(k)
  \/ \E e \in Endpoints : Create(e)
  \/ \E e \in Removable : Delete(e)

Spec == Init /\ [][Next]_vars

\* Some process keeps a worker of each queue: a waiting job is taken, an active
\* one goes on.
FairSpec ==
  /\ Spec
  /\ WF_vars(StatusStep)
  /\ WF_vars(\E k \in Runs : MailStep(k))
  /\ WF_vars(\E k \in Runs : HookStep(k))

-------------------------------------------------------------------------------

\* The types; a worker that is calling somebody has inserted the row before.
TypeOK ==
  /\ verdict \in Verdicts /\ path \in BOOLEAN
  /\ reply \in {"none", "accepted", "bare", "xmlRejected", "rejected"}
  /\ status \in JobRecords({"xml", "save", "mail", "hook", "end"}, StatusAttempts, MaxStalled, {}, {})
  /\ mail \in [Runs -> JobRecords({"build"}, 1, MaxStalled, {}, {})]
  /\ hook \in [Runs -> JobRecords({"loop", "post", "ok", "bad"}, 1, MaxStalled, {}, {})]
  /\ endpoint \in [Endpoints -> {"absent", "active", "deleted"}]
  /\ listed \in [Runs -> SUBSET Endpoints] /\ todo \in [Runs -> SUBSET Endpoints]
  /\ at \in [Runs -> Endpoints \cup {None}]
  /\ delivery \subseteq
       [job : Runs, endpoint : Endpoints, run : 0..MaxStalled, status : {"pending", "success", "failed"}]
  /\ faults \in 0..MaxFaults

\* An endpoint that fails keeps nothing from the others: when a job completes,
\* each endpoint its last run read, and that is still there and subscribed, has
\* a delivery of that run with an outcome.
CompletedServesAll ==
  \A k \in Runs : hook[k].state = "completed" =>
    \A e \in listed[k] : endpoint[e] = "active" /\ Wants(e) =>
      \E d \in delivery :
        /\ d.job = k /\ d.endpoint = e /\ d.run = hook[k].stalls
        /\ d.status # "pending"

\* Whoever was not being called when an endpoint was deleted does not call it
\* later, also with a list read before.
DeletedHearsNoMore ==
  [][\A k \in Runs, e \in Endpoints :
       endpoint[e] = "deleted" /\ at[k] # e => at'[k] # e]_vars

\* Whatever fails, the status job and all it added come to an end.  If the
\* status job completed, what its last run was told was announced: a webhook job
\* of that run has ended after a plain rejection, and after an acceptance whose
\* ApplicationResponse accepts also one for the mail.  An acceptance without
\* XmlBytes (dian-status.processor.ts:65) and an ApplicationResponse that rejects
\* (78-87) announce nothing.
Ended(j) == j.state = "absent" \/ Finished(j)
Announced ==
  /\ reply \in {"accepted", "rejected"} => Finished(hook[Run])
  /\ reply = "accepted" => Finished(mail[Run])
AllSettled ==
  <>(Finished(status) /\ Announced /\ \A k \in Runs : Ended(mail[k]) /\ Ended(hook[k]))
===============================================================================
