---------------------------- MODULE EmissionProofs ----------------------------
(***************************************************************************)
(* The emission pipeline for every set of invoices, relays and callers,    *)
(* any number of attempts, stalls and crashes: IInv is inductive, and what *)
(* it implies.  One lemma for each way a step can move a part of the       *)
(* state, then one lemma per actor with a step per action.                 *)
(***************************************************************************)
EXTENDS Emission, TLAPS, FiniteSetTheorems

\* What BullMQ makes of a job is a job: the operators of BullJob keep to
\* JobRecords while an attempt is left.
LEMMA JobKinds ==
  ASSUME NEW j, NEW P, NEW a \in Nat, NEW m \in Nat, NEW T, NEW E,
         j \in JobRecords(P, a, m, T, E), NEW pc \in P \cup {"idle"}
  PROVE  /\ At(j, pc) \in JobRecords(P, a, m, T, E)
         /\ Taken(j, pc) \in JobRecords(P, a, m, T, E)
         /\ Completed(j) \in JobRecords(P, a, m, T, E)
         /\ NoJob \in JobRecords(P, a, m, T, E)
         /\ RemovedJob \in JobRecords(P, a, m, T, E)
         /\ \A e \in E \cup {0} : NewJob(e) \in JobRecords(P, a, m, T, E)
         /\ j.made < a => Thrown(j, a, pc) \in JobRecords(P, a, m, T, E)
         /\ j.made < a => Stalled(j, a, m, pc) \subseteq JobRecords(P, a, m, T, E)
<1> USE DEF JobRecords, JobStates
<1>1. At(j, pc) \in JobRecords(P, a, m, T, E)
  BY DEF At
<1>2. Taken(j, pc) \in JobRecords(P, a, m, T, E)
  BY DEF Taken
<1>3. Completed(j) \in JobRecords(P, a, m, T, E)
  BY DEF Completed
<1>4. NoJob \in JobRecords(P, a, m, T, E)
  BY DEF NoJob
<1>5. RemovedJob \in JobRecords(P, a, m, T, E)
  BY DEF NoJob, RemovedJob
<1>6. \A e \in E \cup {0} : NewJob(e) \in JobRecords(P, a, m, T, E)
  <2> SUFFICES ASSUME NEW e \in E \cup {0} PROVE NewJob(e) \in JobRecords(P, a, m, T, E)
    OBVIOUS
  <2> QED BY DEF NewJob
<1>7. ASSUME j.made < a PROVE Thrown(j, a, pc) \in JobRecords(P, a, m, T, E)
  <2>1. j.made + 1 \in 0..a
    BY <1>7
  <2> QED BY <2>1 DEF Thrown
<1>8. ASSUME j.made < a PROVE Stalled(j, a, m, pc) \subseteq JobRecords(P, a, m, T, E)
  <2>1. j.made + 1 \in 0..a /\ j.made \in 0..a /\ (j.stalls < m => j.stalls + 1 \in 0..m)
    BY <1>8
  <2>2. CASE j.stalls < m
    BY <2>1, <2>2 DEF Stalled
  <2>3. CASE ~(j.stalls < m)
    <3>1. \A n \in {j.made, j.made + 1} :
            [j EXCEPT !.state = "failed", !.pc = pc, !.made = n, !.track = 0]
              \in JobRecords(P, a, m, T, E)
      BY <2>1
    <3> QED BY <2>3, <3>1 DEF Stalled
  <2> QED BY <2>2, <2>3
<1> QED BY <1>1, <1>2, <1>3, <1>4, <1>5, <1>6, <1>7, <1>8

\* The jobs of the two queues.
Jobs == JobRecords(SubPcs, Attempts, MaxStalled, TrackIds, EventIds)
StatusJobs == JobRecords(StatusPcs, StatusAttempts, MaxStalled, {}, {})

\* A step that writes at most statuses into dian_submissions.
SameRows ==
  /\ sub' \in [SubIds -> [attempt: 0..MaxSubs, status: SubStatuses]]
  /\ \A s \in SubIds : /\ sub'[s].attempt = sub[s].attempt
                       /\ SubExists(s) <=> (sub'[s].status # "absent")

\* A step that writes at most statuses into outbox_events.
SameEvents ==
  /\ event' \in [EventIds -> [inv: Invoices \cup {NoInvoice}, type: EventTypes,
                              status: EventStatuses]]
  /\ \A e \in EventIds :
       /\ event'[e].inv = event[e].inv /\ event'[e].type = event[e].type
       /\ event[e].status # "absent" <=> event'[e].status # "absent"
       /\ event'[e].type = "INVOICE_CREATED" /\ event'[e].status \in {"processed", "failed"}
            => Dispatched(e)

\* The rows of dian_dlq; one that can be retried names an invoice.
DeadLetters ==
  /\ dlq \in [DlqIds -> [inv: Invoices \cup {NoInvoice},
                         status: {"absent", "pending", "resolved"}]]
  /\ \A d \in DlqIds : dlq[d].status = "pending" => dlq[d].inv \in Invoices

\* A step that gives an invoice at most a status DIAN answered with.
BackedInvoices ==
  /\ invoice' \in [Invoices -> InvoiceStatuses]
  /\ StatusBacked'

\* A step in which DIAN at most receives a request of a submission.
RequestsGrow ==
  /\ dian' \in [TrackIds -> [sub: SubIds \cup {NoSend.sub}, verdict: Verdicts]]
  /\ \A t \in TrackIds :
       /\ dian[t].verdict # "none" => dian'[t] = dian[t]
       /\ dian'[t].verdict # "none" =>
            dian'[t].sub \in SubIds /\ SubExists(dian'[t].sub)

\* A step that at most adds the status job of a request.
StatusJobsGrow ==
  /\ statusJob' \in [TrackIds -> StatusJobs]
  /\ \A t \in TrackIds :
       /\ HasAttempts(statusJob'[t], StatusAttempts)
       /\ \/ statusJob'[t] = statusJob[t]
          \/ statusJob'[t].pc = "idle" /\ Given(t)

\* The submission job s, already in Redis, becomes j.
JobBecomes(s, j) ==
  /\ j \in Jobs /\ job' = [job EXCEPT ![s] = j]
  /\ job[s].state # "absent" /\ j.state # "absent" /\ HasAttempts(j, Attempts)
  /\ j.track # 0 => dian'[j.track].verdict \notin {"none", "refused"}
  /\ j.event \in {0, job[s].event}
  /\ j.pc \in {"refused", "refusedInvoice"} =>
       \E t \in TrackIds : dian'[t].sub = s /\ dian'[t].verdict = "refused"

\* The part of TypeOK that bounds crashes and evictions.
Bounded == crashes \in 0..MaxCrashes /\ evictions \in 0..MaxEvictions

\* Writing statuses into dian_submissions disturbs neither the numbering of its
\* rows nor what a running retry request relies on.
LEMMA RowsKept ==
  ASSUME IInv, SameRows, DeadLetters', RequestsGrow, UNCHANGED caller,
         \A u \in SubIds : job'[u].state = "absent" <=> job[u].state = "absent"
  PROVE  Rows' /\ Retries'
<1>1. \A u \in SubIds : SubExists(u)' <=> SubExists(u)
  BY DEF SameRows, SubExists
<1>2. ASSUME NEW i \in Invoices, NEW k \in 1..MaxSubs, SubExists(<<i, k>>)'
      PROVE  Attempted(i, k)'
  <2>1. \A m \in 1..k : <<i, m>> \in SubIds
    BY EmissionAssumption DEF SubIds
  <2>2. Attempted(i, k) /\ k \in 1..k
    BY <1>2, <2>1 DEF IInv, Rows, SameRows, SubExists
  <2> QED BY <2>1, <2>2 DEF Attempted, SameRows, SubExists
<1>3. Rows'
  BY <1>1, <1>2 DEF IInv, Rows, RequestsGrow
<1>4. ASSUME NEW c \in Callers PROVE Counts(c)' /\ Owns(c)' /\ \A d \in Callers : Alone(c, d)'
  <2>1. Counts(c) /\ Owns(c) /\ \A d \in Callers : Alone(c, d)
    BY DEF IInv, Retries
  <2>2. caller[c].pc # "idle" => \A m \in 1..MaxSubs : <<caller[c].inv, m>> \in SubIds
    BY DEF IInv, Retries, SubIds
  <2>3. Counts(c)'
    BY <1>1, <2>1, <2>2 DEF Counts
  <2>4. Owns(c)'
    BY <1>1, <2>1 DEF Owns, OwnRow, HasInserted
  <2>5. \A d \in Callers : Alone(c, d)'
    BY <2>1 DEF Alone, OwnRow, HasInserted
  <2> QED BY <2>3, <2>4, <2>5
<1>5. Retries'
  BY <1>4 DEF IInv, Retries, DeadLetters
<1> QED BY <1>3, <1>5

\* A submission job moves on, and the tables change as far as named: IInv is kept.
LEMMA JobMove ==
  ASSUME IInv, NEW s \in SubIds, NEW j, JobBecomes(s, j),
         SameRows, SameEvents, BackedInvoices, DeadLetters', RequestsGrow, StatusJobsGrow,
         Bounded', UNCHANGED <<responsePath, notified, relay, caller>>
  PROVE  IInv'
<1> USE DEF JobBecomes, Given
<1>0. job \in [SubIds -> Jobs]
  BY DEF IInv, TypeOK, Jobs
<1>1. TypeOK'
  BY <1>0 DEF IInv, TypeOK, Jobs, SameRows, SameEvents, DeadLetters, BackedInvoices,
              RequestsGrow, StatusJobs, StatusJobsGrow, Bounded
<1>2. Budgeted'
  BY <1>0 DEF IInv, Budgeted, HasAttempts, StatusJobsGrow
<1>3. Tracked'
  <2>1. \A u \in SubIds : job[u].track # 0 => job[u].track \in TrackIds
    BY <1>0 DEF Jobs, JobRecords
  <2> QED BY <1>0, <2>1 DEF IInv, Tracked, RequestsGrow, StatusJobsGrow
<1>4. Rows' /\ Retries'
  BY <1>0, RowsKept
<1>6. Outbox'
  <2>1. \A u \in SubIds : job[u].state # "absent" => job'[u].state # "absent"
    BY <1>0
  <2>2. \A i \in Invoices : <<i, 1>> \in SubIds
    BY EmissionAssumption DEF SubIds
  <2>3. \A e \in EventIds :
          event[e].status # "absent" /\ Dispatched(e) => Dispatched(e)'
    BY <2>1, <2>2 DEF IInv, Outbox, Dispatched, SameEvents
  <2>4. OutboxNeverLoses'
    BY <2>3 DEF SameEvents, OutboxNeverLoses, Dispatched
  <2>5. \A u \in SubIds : job'[u].event # 0 =>
          /\ job'[u].event = job[u].event /\ job'[u].event \in EventIds
    BY <1>0 DEF Jobs, JobRecords
  <2>6. \A r \in Relays : relay[r].todo \subseteq EventIds
    BY DEF IInv, TypeOK
  <2> QED
    BY <2>1, <2>3, <2>4, <2>5, <2>6 DEF IInv, Outbox, SameEvents, IsHead
<1>7. Backed'
  <2>1. \A t \in TrackIds : Knows(t)'
    BY DEF IInv, Backed, Knows, InvoiceOf, Tracked, RequestsGrow, StatusJobsGrow, NoJob
  <2>2. \A u \in SubIds : job'[u].pc \in {"refused", "refusedInvoice"} =>
          \E t \in TrackIds : dian'[t].sub = u /\ dian'[t].verdict = "refused"
    BY <1>0 DEF IInv, Backed, RequestsGrow
  <2>3. NotifiedOnlyIfAccepted'
    BY DEF IInv, Backed, NotifiedOnlyIfAccepted, RequestsOf, RequestsGrow
  <2> QED BY <2>1, <2>2, <2>3 DEF Backed, BackedInvoices
<1> QED BY <1>1, <1>2, <1>3, <1>4, <1>6, <1>7 DEF IInv

\* A step that writes no table.
LEMMA NoRowWritten ==
  ASSUME IInv, UNCHANGED db
  PROVE  SameRows /\ SameEvents /\ DeadLetters'
  BY DEF IInv, TypeOK, Retries, Outbox, OutboxNeverLoses, Dispatched, db,
         SameRows, SameEvents, DeadLetters, SubExists

\* A step that writes no dead letter.
LEMMA NoDeadLetter ==
  ASSUME IInv, UNCHANGED dlq
  PROVE  DeadLetters'
  BY DEF IInv, TypeOK, Retries, DeadLetters

\* A step in which DIAN receives nothing.
LEMMA NoRequest ==
  ASSUME IInv, UNCHANGED dian
  PROVE  RequestsGrow
  BY DEF IInv, TypeOK, Tracked, Rows, RequestsGrow

\* A step that leaves the queue dian-status alone.
LEMMA NoStatusJob ==
  ASSUME IInv, UNCHANGED statusJob
  PROVE  StatusJobsGrow
  BY DEF IInv, TypeOK, Budgeted, StatusJobs, StatusJobsGrow

\* A step that leaves invoices.status alone keeps every final status backed.
LEMMA NoVerdict ==
  ASSUME IInv, RequestsGrow, UNCHANGED invoice
  PROVE  BackedInvoices
<1>1. ASSUME NEW i \in Invoices, NEW t \in RequestsOf(i), dian[t].verdict # "none"
      PROVE  t \in RequestsOf(i)' /\ dian'[t] = dian[t]
  BY <1>1 DEF RequestsOf, RequestsGrow
<1>2. StatusBacked /\ invoice \in [Invoices -> InvoiceStatuses]
  BY DEF IInv, TypeOK, Backed
<1>3. StatusBacked'
  BY <1>1, <1>2 DEF StatusBacked
<1> QED BY <1>2, <1>3 DEF BackedInvoices

\* UPDATE dian_submissions SET status of a row that exists.
LEMMA StatusWritten ==
  ASSUME IInv, NEW s \in SubIds, SubExists(s), NEW status \in SubStatuses \ {"absent"},
         SetSub(s, status)
  PROVE  SameRows
  BY DEF IInv, TypeOK, SetSub, SameRows, SubExists

\* Every step of DianSubmissionProcessor, its crash and the retention keep IInv.
LEMMA SubmissionSteps ==
  ASSUME IInv, NEW s \in SubIds, SubmissionStep(s) \/ SubmissionCrash(s) \/ Evict(s)
  PROVE  IInv'
<1> USE DEF Given
<1>1. /\ job[s] \in Jobs /\ job \in [SubIds -> Jobs]
      /\ Bounded
  BY DEF IInv, TypeOK, Jobs, Bounded
<1>2. /\ job[s].state # "absent" => SubExists(s)
      /\ HasAttempts(job[s], Attempts)
      /\ job[s].track # 0 => Given(job[s].track)
      /\ job[s].pc \in {"refused", "refusedInvoice"} =>
           \E t \in TrackIds : dian[t].sub = s /\ dian[t].verdict = "refused"
  BY DEF IInv, Rows, Budgeted, Tracked, Backed
<1>3. \A pc \in SubPcs \cup {"idle"} :
        /\ At(job[s], pc) \in Jobs /\ Taken(job[s], pc) \in Jobs
        /\ Completed(job[s]) \in Jobs /\ RemovedJob \in Jobs
        /\ job[s].made < Attempts =>
             /\ Thrown(job[s], Attempts, pc) \in Jobs
             /\ Stalled(job[s], Attempts, MaxStalled, pc) \subseteq Jobs
  BY <1>1, JobKinds, EmissionAssumption DEF Jobs
\* A step that changes the job alone.
<1>4. ASSUME NEW j, job[s].state # "absent" /\ JobBecomes(s, j),
             UNCHANGED <<db, statusJob, notified, dian, processes>>, Bounded'
      PROVE  IInv'
  <2>1. SameRows /\ SameEvents /\ DeadLetters' /\ RequestsGrow /\ BackedInvoices
    BY <1>4, NoRowWritten, NoRequest, NoVerdict DEF db
  <2>2. StatusJobsGrow
    BY <1>4, NoStatusJob
  <2> QED BY <1>4, <2>1, <2>2, JobMove DEF db, processes
\* A step of the processor from one awaited call to the next.
<1>5. ASSUME NEW pc \in SubPcs \cup {"idle"}, Goto(s, pc), job[s].state # "absent",
             pc \in {"refused", "refusedInvoice"} =>
               \E t \in TrackIds : dian'[t].sub = s /\ dian'[t].verdict = "refused",
             RequestsGrow
      PROVE  JobBecomes(s, At(job[s], pc))
  <2>1. /\ At(job[s], pc) \in Jobs /\ At(job[s], pc).pc = pc
        /\ At(job[s], pc).state = job[s].state /\ At(job[s], pc).track = job[s].track
        /\ At(job[s], pc).event = job[s].event
        /\ HasAttempts(At(job[s], pc), Attempts)
    BY <1>1, <1>2, <1>3 DEF At, Jobs, JobRecords, HasAttempts
  <2>2. job[s].track # 0 => dian'[job[s].track].verdict \notin {"none", "refused"}
    BY <1>1, <1>2, <1>5 DEF Jobs, JobRecords, RequestsGrow
  <2> QED BY <1>2, <1>5, <2>1, <2>2 DEF Goto, JobBecomes
<1>6. ASSUME NEW pc \in (SubPcs \cup {"idle"}) \ {"refused", "refusedInvoice"},
             Goto(s, pc), job[s].state # "absent",
             UNCHANGED <<db, statusJob, notified, dian, processes>>, Bounded'
      PROVE  IInv'
  BY <1>4, <1>5, <1>6, NoRequest
\* A step that writes a status of the submission, too.
<1>7. ASSUME NEW pc \in SubPcs \cup {"idle"}, Goto(s, pc), job[s].state # "absent",
             NEW status \in SubStatuses \ {"absent"}, SetSub(s, status),
             pc \in {"refused", "refusedInvoice"} => job[s].pc \in {"refused", "refusedInvoice"},
             UNCHANGED <<invoice, responsePath, event, dlq, statusJob, notified, dian,
                         processes, budget>>
      PROVE  IInv'
  <2>1. SameRows
    BY <1>2, <1>7, StatusWritten
  <2>2. SameEvents /\ DeadLetters'
    BY <1>7 DEF IInv, TypeOK, Retries, Outbox, OutboxNeverLoses, Dispatched,
                SameEvents, DeadLetters
  <2>3. RequestsGrow /\ BackedInvoices /\ StatusJobsGrow
    BY <1>7, NoRequest, NoVerdict, NoStatusJob
  <2>5. JobBecomes(s, At(job[s], pc))
    BY <1>2, <1>5, <1>7, <2>3
  <2>4. Bounded' /\ UNCHANGED <<relay, caller>>
    BY <1>1, <1>7 DEF Bounded, budget, processes
  <2> QED
    BY <1>7, <2>1, <2>2, <2>3, <2>4, <2>5, JobMove
<1>8. CASE TakeJob(s)
  <2>1. /\ Taken(job[s], "submitting").state = "active"
        /\ Taken(job[s], "submitting").pc = "submitting"
        /\ Taken(job[s], "submitting").track = job[s].track
        /\ Taken(job[s], "submitting").event = job[s].event
        /\ Taken(job[s], "submitting").made = job[s].made
    BY <1>1 DEF Taken, Jobs, JobRecords
  <2>2. JobBecomes(s, Taken(job[s], "submitting"))
    BY <1>2, <1>3, <1>8, <2>1 DEF TakeJob, JobBecomes, HasAttempts, SubPcs
  <2> QED BY <1>1, <1>4, <1>8, <2>2 DEF TakeJob, Bounded, budget
<1>9. CASE MarkSubmitting(s)
  BY <1>7, <1>9 DEF MarkSubmitting, AtPc, SubPcs, SubStatuses
<1>10. CASE MarkSubmitted(s)
  BY <1>7, <1>10 DEF MarkSubmitted, AtPc, SubPcs, SubStatuses
<1>11. CASE CatchSub(s)
  BY <1>7, <1>11 DEF CatchSub, AtPc, SubPcs, SubStatuses
<1>12. CASE RefuseSub(s)
  BY <1>7, <1>12 DEF RefuseSub, AtPc, SubPcs, SubStatuses
<1>13. CASE RefuseInvoice(s)
  <2>1. SameRows /\ SameEvents /\ DeadLetters' /\ RequestsGrow /\ StatusJobsGrow
    BY <1>13, NoRequest, NoStatusJob
       DEF IInv, TypeOK, Retries, Outbox, OutboxNeverLoses, Dispatched, SubExists,
           SameRows, SameEvents, DeadLetters, RefuseInvoice
  <2>2. PICK t \in TrackIds : dian[t].sub = s /\ dian[t].verdict = "refused"
    BY <1>2, <1>13 DEF RefuseInvoice, AtPc
  <2>3. BackedInvoices
    <3>1. /\ s[1] \in Invoices /\ t \in RequestsOf(s[1])
          /\ invoice \in [Invoices -> InvoiceStatuses] /\ StatusBacked
      BY <2>2 DEF SubIds, RequestsOf, IInv, TypeOK, Backed
    <3>2. invoice' = [invoice EXCEPT ![s[1]] = "rejected"] /\ UNCHANGED dian
      BY <1>13 DEF RefuseInvoice, SetInvoice
    <3>3. invoice' \in [Invoices -> InvoiceStatuses]
      BY <3>1, <3>2 DEF InvoiceStatuses
    <3>4. StatusBacked'
      BY <2>2, <3>1, <3>2 DEF StatusBacked, RequestsOf
    <3> QED BY <3>3, <3>4 DEF BackedInvoices
  <2>4. Goto(s, "catch") /\ job[s].state # "absent" /\ UNCHANGED dian
    BY <1>13 DEF RefuseInvoice, AtPc
  <2>5. JobBecomes(s, At(job[s], "catch"))
    BY <1>5, <2>1, <2>4 DEF SubPcs
  <2>6. Bounded' /\ UNCHANGED <<responsePath, notified, relay, caller>>
    BY <1>1, <1>13 DEF RefuseInvoice, processes, budget, Bounded
  <2> QED
    BY <2>1, <2>3, <2>5, <2>6, JobMove
\* DIAN receives a request.
<1>14. ASSUME NEW t \in TrackIds, FreshSend(t), NEW verdict \in {"undecided", "refused"},
              dian' = [dian EXCEPT ![t] = [sub |-> s, verdict |-> verdict]],
              job[s].state = "active"
       PROVE  RequestsGrow /\ dian'[t].sub = s /\ dian'[t].verdict = verdict
  <2>1. dian \in [TrackIds -> [sub: SubIds \cup {NoSend.sub}, verdict: Verdicts]]
    BY DEF IInv, TypeOK
  <2>2. SubExists(s) /\ dian[t].verdict = "none" /\ verdict \in Verdicts
    BY <1>2, <1>14 DEF FreshSend, Verdicts
  <2>3. \A u \in TrackIds : dian[u].verdict # "none" =>
          dian[u].sub \in SubIds /\ SubExists(dian[u].sub)
    BY DEF IInv, Tracked, Rows
  <2> QED BY <1>14, <2>1, <2>2, <2>3 DEF RequestsGrow
<1>15. ASSUME RequestsGrow, NEW j, JobBecomes(s, j),
              UNCHANGED <<db, statusJob, notified, processes, budget>>
       PROVE  IInv'
  <2>1. SameRows /\ SameEvents /\ DeadLetters' /\ BackedInvoices /\ StatusJobsGrow
    BY <1>15, NoRowWritten, NoVerdict, NoStatusJob DEF db
  <2>2. Bounded' /\ UNCHANGED <<responsePath, notified, relay, caller>>
    BY <1>1, <1>15 DEF processes, budget, db, Bounded
  <2> QED BY <1>15, <2>1, <2>2, JobMove
<1>16. CASE SendReceived(s)
  <2>1. PICK t \in TrackIds :
          /\ FreshSend(t)
          /\ dian' = [dian EXCEPT ![t] = [sub |-> s, verdict |-> "undecided"]]
          /\ \/ job' = [job EXCEPT ![s] = [At(job[s], "submitted") EXCEPT !.track = t]]
             \/ Goto(s, "catch")
    BY <1>16 DEF SendReceived, Received, Goto
  <2>2. job[s].state = "active"
    BY <1>16 DEF SendReceived, AtPc
  <2>3. RequestsGrow /\ dian'[t].verdict = "undecided"
    BY <1>14, <2>1, <2>2
  <2>4. CASE job' = [job EXCEPT ![s] = [At(job[s], "submitted") EXCEPT !.track = t]]
    <3>1. JobBecomes(s, [At(job[s], "submitted") EXCEPT !.track = t])
      BY <1>1, <1>2, <2>2, <2>3, <2>4 DEF At, Jobs, JobRecords, JobBecomes, HasAttempts, SubPcs
    <3> QED BY <1>15, <1>16, <2>3, <3>1 DEF SendReceived
  <2>5. CASE Goto(s, "catch")
    BY <1>5, <1>15, <1>16, <2>2, <2>3, <2>5 DEF SendReceived, SubPcs
  <2> QED BY <2>1, <2>4, <2>5
<1>17. CASE SendRefused(s)
  <2>1. PICK t \in TrackIds :
          /\ FreshSend(t)
          /\ dian' = [dian EXCEPT ![t] = [sub |-> s, verdict |-> "refused"]]
          /\ Goto(s, "refused")
    BY <1>17 DEF SendRefused, Received, Goto
  <2>2. job[s].state = "active"
    BY <1>17 DEF SendRefused, AtPc
  <2>3. RequestsGrow /\ dian'[t].sub = s /\ dian'[t].verdict = "refused"
    BY <1>14, <2>1, <2>2
  <2> QED BY <1>5, <1>15, <1>17, <2>1, <2>2, <2>3 DEF SendRefused, SubPcs
<1>18. CASE SendFails(s)
  BY <1>1, <1>6, <1>18 DEF SendFails, AtPc, SubPcs, Bounded, budget
<1>19. CASE EnqueueStatus(s)
  <2>1. job[s].state = "active" /\ Goto(s, "done")
        /\ UNCHANGED <<db, notified, dian, processes, budget>>
        /\ statusJob' = [statusJob EXCEPT ![job[s].track] = NewJob(0)]
    BY <1>19 DEF EnqueueStatus, AtPc
  <2>2. NewJob(0) \in StatusJobs /\ HasAttempts(NewJob(0), StatusAttempts)
        /\ NewJob(0).pc = "idle"
    BY EmissionAssumption DEF NewJob, StatusJobs, JobRecords, JobStates, HasAttempts
  <2>3. /\ statusJob \in [TrackIds -> StatusJobs]
        /\ \A t \in TrackIds : HasAttempts(statusJob[t], StatusAttempts)
        /\ job[s].track \in TrackIds \cup {0}
    BY <1>1 DEF IInv, TypeOK, Budgeted, StatusJobs, Jobs, JobRecords
  <2>4. StatusJobsGrow
    <3>1. statusJob' \in [TrackIds -> StatusJobs]
      BY <2>1, <2>2, <2>3
    <3>2. ASSUME NEW t \in TrackIds
          PROVE  statusJob'[t] = IF t = job[s].track THEN NewJob(0) ELSE statusJob[t]
      BY <2>1, <2>3
    <3>3. \A t \in TrackIds : t = job[s].track => Given(t)
      BY <1>2 DEF TrackIds
    <3> QED BY <2>2, <2>3, <3>1, <3>2, <3>3 DEF StatusJobsGrow
  <2>5. SameRows /\ SameEvents /\ DeadLetters' /\ RequestsGrow /\ BackedInvoices
    BY <2>1, NoRowWritten, NoRequest, NoVerdict DEF db
  <2>6. Bounded' /\ UNCHANGED <<responsePath, notified, relay, caller>>
    BY <1>1, <2>1 DEF processes, budget, db, Bounded
  <2>7. JobBecomes(s, At(job[s], "done"))
    BY <1>5, <2>1, <2>5 DEF SubPcs
  <2> QED BY <2>4, <2>5, <2>6, <2>7, JobMove
<1>20. CASE CompleteJob(s)
  <2>1. JobBecomes(s, Completed(job[s]))
    BY <1>1, <1>2, <1>3, <1>20
       DEF CompleteJob, AtPc, Completed, Jobs, JobRecords, JobBecomes, HasAttempts
  <2> QED BY <1>1, <1>4, <1>20, <2>1 DEF CompleteJob, AtPc, budget, Bounded
<1>21. CASE SubmissionFault(s)
  BY <1>1, <1>6, <1>21 DEF SubmissionFault, AtPc, SubPcs, Bounded, budget
<1>22. CASE FailJob(s)
  <2>1. job[s].made < Attempts /\ job[s].made \in Nat /\ job[s].state # "absent"
    BY <1>1, <1>2, <1>22 DEF FailJob, AtPc, HasAttempts, Jobs, JobRecords
  <2>2. LET j == Thrown(job[s], Attempts, "onFailed")
        IN  /\ j \in Jobs /\ j.state # "absent" /\ HasAttempts(j, Attempts)
            /\ j.track = 0 /\ j.event = job[s].event /\ j.pc \in {"idle", "onFailed"}
    BY <1>1, <1>3, <2>1 DEF Thrown, Jobs, JobRecords, HasAttempts, SubPcs
  <2>3. JobBecomes(s, Thrown(job[s], Attempts, "onFailed"))
    BY <1>22, <2>1, <2>2 DEF FailJob, JobBecomes
  <2> QED BY <1>1, <1>4, <1>22, <2>1, <2>3 DEF FailJob, budget, Bounded
<1>23. CASE OnFailedIgnored(s)
  BY <1>1, <1>6, <1>23 DEF OnFailedIgnored, SubPcs, Bounded, budget
<1>24. CASE OnFailedFault(s)
  BY <1>1, <1>6, <1>24 DEF OnFailedFault, SubPcs, Bounded, budget
<1>25. CASE OnFailedEvent(s)
  <2>1. /\ job[s].state = "failed" /\ Goto(s, "onFailedDlq")
        /\ event' = IF job[s].event = 0 THEN event
                    ELSE [event EXCEPT ![job[s].event].status = "failed"]
        /\ UNCHANGED <<invoice, responsePath, sub, dlq, statusJob, notified, dian,
                       processes, budget>>
    BY <1>25 DEF OnFailedEvent
  <2>2. job[s].event # 0 =>
          /\ job[s].event \in EventIds /\ s = <<event[job[s].event].inv, 1>>
          /\ event[job[s].event].status # "absent"
    BY <1>1 DEF IInv, Outbox, Jobs, JobRecords
  <2>3. /\ event \in [EventIds -> [inv: Invoices \cup {NoInvoice}, type: EventTypes,
                                  status: EventStatuses]]
        /\ OutboxNeverLoses
    BY DEF IInv, TypeOK, Outbox
  <2>4. SameEvents
    BY <2>1, <2>2, <2>3 DEF SameEvents, OutboxNeverLoses, Dispatched, EventStatuses
  <2>5. SameRows /\ DeadLetters' /\ RequestsGrow /\ BackedInvoices /\ StatusJobsGrow
    BY <2>1, NoRequest, NoVerdict, NoStatusJob
       DEF IInv, TypeOK, Retries, SubExists, SameRows, DeadLetters
  <2>6. Bounded' /\ UNCHANGED <<responsePath, notified, relay, caller>>
    BY <1>1, <2>1 DEF processes, budget, Bounded
  <2>7. JobBecomes(s, At(job[s], "onFailedDlq"))
    BY <1>5, <2>1, <2>5 DEF SubPcs
  <2> QED BY <2>4, <2>5, <2>6, <2>7, JobMove
<1>26. CASE OnFailedDlq(s)
  <2>1. PICK d \in DlqIds : dlq' = [dlq EXCEPT ![d] = [inv |-> s[1], status |-> "pending"]]
    BY <1>26 DEF OnFailedDlq
  <2>2. /\ job[s].state = "failed" /\ Goto(s, "idle")
        /\ UNCHANGED <<invoice, responsePath, sub, event, statusJob, notified, dian,
                       processes, budget>>
    BY <1>26 DEF OnFailedDlq
  <2>3. DeadLetters'
    BY <2>1 DEF IInv, TypeOK, Retries, DeadLetters, SubIds
  <2>4. SameRows /\ SameEvents /\ RequestsGrow /\ BackedInvoices /\ StatusJobsGrow
    BY <2>2, NoRequest, NoVerdict, NoStatusJob
       DEF IInv, TypeOK, Outbox, OutboxNeverLoses, Dispatched, SubExists,
           SameRows, SameEvents
  <2>5. Bounded' /\ UNCHANGED <<responsePath, notified, relay, caller>>
    BY <1>1, <2>2 DEF processes, budget, Bounded
  <2>6. JobBecomes(s, At(job[s], "idle"))
    BY <1>5, <2>2, <2>4
  <2> QED BY <2>3, <2>4, <2>5, <2>6, JobMove
<1>27. CASE SubmissionCrash(s)
  <2>1. Bounded'
    BY <1>1, <1>27, EmissionAssumption DEF SubmissionCrash, Bounded
  <2>2. CASE job[s].state = "active"
    <3>1. PICK j \in Stalled(job[s], Attempts, MaxStalled, "onFailed") :
            job' = [job EXCEPT ![s] = j]
      BY <1>27, <2>2 DEF SubmissionCrash
    <3>2. job[s].made < Attempts /\ j \in Jobs
      BY <1>2, <1>3, <2>2, <3>1 DEF HasAttempts, SubPcs
    <3>3. /\ j.state \in {"waiting", "failed"} /\ j.track = 0
          /\ j.event = job[s].event /\ j.pc \in {"idle", "onFailed"}
          /\ j.state = "waiting" => j.made = job[s].made
      BY <1>1, <3>1 DEF Stalled, Jobs, JobRecords
    <3>4. JobBecomes(s, j)
      BY <2>2, <3>1, <3>2, <3>3 DEF JobBecomes, HasAttempts
    <3> QED BY <1>4, <1>27, <2>1, <2>2, <3>4 DEF SubmissionCrash
  <2>3. CASE job[s].state = "failed"
    BY <1>6, <1>27, <2>1, <2>3 DEF SubmissionCrash
  <2> QED BY <1>27, <2>2, <2>3 DEF SubmissionCrash
<1>28. CASE Evict(s)
  <2>1. Bounded'
    BY <1>1, <1>28, EmissionAssumption DEF Evict, Bounded
  <2>2. JobBecomes(s, RemovedJob)
    BY <1>3, <1>28 DEF Evict, Finished, JobBecomes, RemovedJob, NoJob, HasAttempts
  <2> QED BY <1>4, <1>28, <2>1, <2>2 DEF Evict, Finished
<1> QED
  BY <1>8, <1>9, <1>10, <1>11, <1>12, <1>13, <1>16, <1>17, <1>18, <1>19, <1>20, <1>21,
     <1>22, <1>23, <1>24, <1>25, <1>26, <1>27, <1>28 DEF SubmissionStep

\* The status job t, already in Redis, becomes j.
StatusJobBecomes(t, j) ==
  /\ j \in StatusJobs /\ statusJob' = [statusJob EXCEPT ![t] = j]
  /\ statusJob[t].state # "absent" /\ HasAttempts(j, StatusAttempts)

\* A step that mails and dispatches at most what DIAN's answer allows.
BackedNotices ==
  /\ notified' \in [Invoices -> SUBSET Notices]
  /\ responsePath \subseteq responsePath' /\ responsePath' \subseteq Invoices
  /\ NotifiedOnlyIfAccepted'

\* A status job moves on, and the tables change as far as named: IInv is kept.
LEMMA StatusMove ==
  ASSUME IInv, NEW t \in TrackIds, NEW j, StatusJobBecomes(t, j), Knows(t)',
         SameRows, BackedInvoices, BackedNotices, Bounded',
         UNCHANGED <<event, dlq, job, dian, relay, caller>>
  PROVE  IInv'
<1> USE DEF StatusJobBecomes, Given
<1>0. statusJob \in [TrackIds -> StatusJobs]
  BY DEF IInv, TypeOK, StatusJobs
<1>1. TypeOK'
  BY <1>0 DEF IInv, TypeOK, StatusJobs, SameRows, BackedInvoices, BackedNotices, Bounded
<1>2. Budgeted'
  BY <1>0 DEF IInv, Budgeted, HasAttempts
<1>3. Tracked'
  BY <1>0 DEF IInv, Tracked, NoJob
<1>4. Rows' /\ Retries'
  BY RowsKept, NoRequest, NoDeadLetter
<1>6. Outbox'
  BY DEF IInv, Outbox, OutboxNeverLoses, Dispatched, IsHead
<1>7. Backed'
  <2>1. ASSUME NEW u \in TrackIds, u # t PROVE Knows(u)'
    <3>1. Knows(u) /\ statusJob'[u] = statusJob[u]
      BY <1>0, <2>1 DEF IInv, Backed
    <3> QED BY <3>1 DEF Knows, InvoiceOf, BackedNotices
  <2> QED BY <2>1 DEF IInv, Backed, BackedInvoices, BackedNotices
<1> QED BY <1>1, <1>2, <1>3, <1>4, <1>6, <1>7 DEF IInv

\* A step that notifies nobody.
LEMMA NoNotice ==
  ASSUME IInv, UNCHANGED <<responsePath, notified, dian>>
  PROVE  BackedNotices
  BY DEF IInv, TypeOK, Backed, NotifiedOnlyIfAccepted, RequestsOf, BackedNotices

\* DIAN's decision of a document keeps IInv.
LEMMA DecideStep ==
  ASSUME IInv, NEW t \in TrackIds, DianDecide(t)
  PROVE  IInv'
<1> USE DEF Given
<1>1. PICK v \in {"accepted", "xmlRejected", "rejected"} :
        dian' = [dian EXCEPT ![t].verdict = v]
  BY DEF DianDecide
<1>2. /\ dian[t].verdict = "undecided"
      /\ UNCHANGED <<db, queues, processes, budget>>
  BY DEF DianDecide
<1>3. dian \in [TrackIds -> [sub: SubIds \cup {NoSend.sub}, verdict: Verdicts]]
  BY DEF IInv, TypeOK
<1>4. /\ \A u \in TrackIds : dian'[u].sub = dian[u].sub
      /\ \A u \in TrackIds : dian'[u].verdict # "none" <=> dian[u].verdict # "none"
      /\ \A u \in TrackIds : u # t => dian'[u] = dian[u]
  BY <1>1, <1>2, <1>3
<1>5. TypeOK'
  BY <1>1, <1>2 DEF IInv, TypeOK, Verdicts, db, queues, processes, budget
<1>6. Budgeted' /\ Retries' /\ Outbox'
  BY <1>2 DEF IInv, Budgeted, Retries, Counts, Owns, Alone, OwnRow, HasInserted, SubExists,
              Outbox, OutboxNeverLoses, Dispatched, IsHead, db, queues, processes
<1>7. Tracked'
  <2>1. \A s \in SubIds : job[s].track \in TrackIds \cup {0}
    BY DEF IInv, TypeOK, JobRecords
  <2>2. \A u \in TrackIds : Given(u) => Given(u)'
    BY <1>1, <1>3, <1>4
  <2> QED BY <1>2, <1>4, <2>1, <2>2 DEF IInv, Tracked, queues
<1>8. Rows'
  BY <1>2, <1>4 DEF IInv, Rows, Attempted, SubExists, db, queues
<1>9. Backed'
  <2>1. ASSUME NEW u \in TrackIds PROVE Knows(u)'
    BY <1>2, <1>4 DEF IInv, Backed, Knows, InvoiceOf, db, queues
  <2>2. \A s \in SubIds : job'[s].pc \in {"refused", "refusedInvoice"} =>
          \E u \in TrackIds : dian'[u].sub = s /\ dian'[u].verdict = "refused"
    BY <1>2, <1>4 DEF IInv, Backed, queues
  <2>3. \A i \in Invoices : RequestsOf(i)' = RequestsOf(i)
    BY <1>4 DEF RequestsOf
  <2>4. \A i \in Invoices : \A u \in RequestsOf(i) : dian[u].verdict # "undecided" =>
          dian'[u].verdict = dian[u].verdict
    BY <1>2, <1>4 DEF RequestsOf
  <2>5. StatusBacked'
    BY <1>2, <2>3, <2>4 DEF IInv, Backed, StatusBacked, db
  <2>6. NotifiedOnlyIfAccepted'
    BY <1>2, <2>3, <2>4 DEF IInv, Backed, NotifiedOnlyIfAccepted, db, queues
  <2> QED BY <2>1, <2>2, <2>5, <2>6 DEF Backed
<1> QED BY <1>5, <1>6, <1>7, <1>8, <1>9 DEF IInv

\* Every step of DianStatusProcessor and its crash keep IInv.
LEMMA StatusSteps ==
  ASSUME IInv, NEW t \in TrackIds, StatusStep(t) \/ StatusCrash(t)
  PROVE  IInv'
<1> USE DEF Given
<1>1. /\ statusJob[t] \in StatusJobs /\ statusJob \in [TrackIds -> StatusJobs]
      /\ HasAttempts(statusJob[t], StatusAttempts)
      /\ Knows(t) /\ Bounded
  BY DEF IInv, TypeOK, StatusJobs, Budgeted, Backed, Bounded
<1>2. statusJob[t].state # "absent" =>
        /\ Given(t) /\ SubOf(t) \in SubIds /\ SubExists(SubOf(t))
        /\ InvoiceOf(t) \in Invoices /\ t \in RequestsOf(InvoiceOf(t))
  BY DEF IInv, Tracked, Rows, NoJob, Given, SubOf, InvoiceOf, SubIds, RequestsOf
<1>3. \A pc \in StatusPcs \cup {"idle"} :
        /\ At(statusJob[t], pc) \in StatusJobs /\ Taken(statusJob[t], pc) \in StatusJobs
        /\ Completed(statusJob[t]) \in StatusJobs
        /\ statusJob[t].made < StatusAttempts =>
             /\ Thrown(statusJob[t], StatusAttempts, pc) \in StatusJobs
             /\ Stalled(statusJob[t], StatusAttempts, MaxStalled, pc) \subseteq StatusJobs
  BY <1>1, JobKinds, EmissionAssumption DEF StatusJobs
<1>4. ASSUME NEW pc \in StatusPcs, StatusGoto(t, pc), statusJob[t].state = "active"
      PROVE  /\ StatusJobBecomes(t, At(statusJob[t], pc))
             /\ statusJob'[t].pc = pc
  <2>1. /\ At(statusJob[t], pc) \in StatusJobs /\ At(statusJob[t], pc).pc = pc
        /\ HasAttempts(At(statusJob[t], pc), StatusAttempts)
    BY <1>1, <1>3, <1>4 DEF At, StatusJobs, JobRecords, HasAttempts
  <2> QED BY <1>1, <1>4, <2>1 DEF StatusGoto, StatusJobBecomes
\* A step that changes the status job alone.
<1>5. ASSUME NEW j, StatusJobBecomes(t, j), Knows(t)',
             UNCHANGED <<db, job, notified, dian, processes>>, Bounded'
      PROVE  IInv'
  <2>1. SameRows /\ BackedInvoices /\ BackedNotices
    BY <1>5, NoRowWritten, NoRequest, NoVerdict, NoNotice DEF db
  <2> QED BY <1>5, <2>1, StatusMove DEF db, processes
<1>6. ASSUME NEW pc \in StatusPcs, StatusGoto(t, pc), statusJob[t].state = "active", Knows(t)',
             UNCHANGED <<db, job, notified, dian, processes, budget>>
      PROVE  IInv'
  BY <1>1, <1>4, <1>5, <1>6 DEF Bounded, budget
<1>7. ASSUME NEW j, StatusJobBecomes(t, j), j.pc = "idle",
             UNCHANGED <<db, job, notified, dian, processes>>, Bounded'
      PROVE  IInv'
  <2>1. Knows(t)'
    BY <1>1, <1>7 DEF StatusJobBecomes, Knows
  <2> QED BY <1>5, <1>7, <2>1
<1>8. ASSUME NEW at \in StatusPcs, NEW status \in SubStatuses \ {"absent"},
             NEW next \in StatusPcs, WriteSub(t, at, status, next), Knows(t)'
      PROVE  IInv'
  <2>1. /\ StatusGoto(t, next) /\ statusJob[t].state = "active" /\ SetSub(SubOf(t), status)
        /\ UNCHANGED <<invoice, responsePath, event, dlq, job, notified, dian,
                       processes, budget>>
    BY <1>8 DEF WriteSub, StatusAt
  <2>2. SameRows
    BY <1>2, <2>1, StatusWritten
  <2>3. BackedInvoices /\ BackedNotices
    BY <2>1, NoRequest, NoVerdict, NoNotice
  <2>4. Bounded' /\ UNCHANGED <<relay, caller>>
    BY <1>1, <2>1 DEF Bounded, budget, processes
  <2> QED BY <1>4, <1>8, <2>1, <2>2, <2>3, <2>4, StatusMove
<1>9. CASE TakeStatus(t)
  <2>1. /\ StatusJobBecomes(t, Taken(statusJob[t], "query"))
        /\ statusJob'[t].pc = "query"
    BY <1>1, <1>3, <1>9
       DEF TakeStatus, Taken, StatusJobBecomes, StatusJobs, JobRecords, HasAttempts, StatusPcs
  <2>2. Knows(t)'
    BY <2>1 DEF Knows
  <2> QED BY <1>1, <1>5, <1>9, <2>1, <2>2 DEF TakeStatus, Bounded, budget
<1>10. CASE GetStatus(t)
  <2>1. PICK pc \in {"pendingSub", "rejectSub", "acceptSub"} :
          /\ StatusGoto(t, pc)
          /\ pc = "rejectSub" => dian[t].verdict = "rejected"
          /\ pc = "acceptSub" => dian[t].verdict \notin {"undecided", "rejected"}
    BY <1>10 DEF GetStatus
  <2>2. statusJob[t].state = "active" /\ UNCHANGED <<db, job, notified, dian, processes, budget>>
    BY <1>10 DEF GetStatus, StatusAt
  <2>3. dian[t].verdict \in Verdicts
    BY DEF IInv, TypeOK
  <2>4. statusJob'[t].pc = pc
    BY <1>4, <2>1, <2>2 DEF StatusPcs
  <2>5. Knows(t)'
    BY <1>2, <2>1, <2>2, <2>3, <2>4 DEF Knows, Verdicts
  <2> QED BY <1>6, <2>1, <2>2, <2>5 DEF StatusPcs
\* A step to a place that tells nothing of DIAN's decision.
<1>11. ASSUME NEW pc \in {"pendingSub", "rejectedHook", "done", "catch", "throw"},
              StatusGoto(t, pc), statusJob[t].state = "active"
       PROVE  Knows(t)'
  BY <1>4, <1>11 DEF Knows, StatusPcs
<1>12. CASE GetStatusFails(t)
  BY <1>6, <1>11, <1>12 DEF GetStatusFails, StatusAt, StatusPcs
<1>13. CASE StatusFault(t)
  <2>1. PICK pc \in {"catch", "throw"} : StatusGoto(t, pc)
    BY <1>13 DEF StatusFault
  <2> QED BY <1>6, <1>11, <1>13, <2>1 DEF StatusFault, StatusAt, StatusPcs
<1>14. CASE PendingSub(t)
  BY <1>8, <1>11, <1>14 DEF PendingSub, WriteSub, StatusAt, StatusPcs, SubStatuses
<1>15. CASE CatchStatus(t)
  BY <1>8, <1>11, <1>15 DEF CatchStatus, WriteSub, StatusAt, StatusPcs, SubStatuses
<1>16. CASE AcceptSub(t)
  <2>1. Knows(t)'
    BY <1>1, <1>4, <1>16 DEF AcceptSub, WriteSub, StatusAt, Knows, StatusPcs
  <2> QED BY <1>8, <1>16, <2>1 DEF AcceptSub, StatusPcs, SubStatuses
<1>17. CASE RejectSub(t)
  <2>1. Knows(t)'
    BY <1>1, <1>4, <1>17 DEF RejectSub, WriteSub, StatusAt, Knows, StatusPcs
  <2> QED BY <1>8, <1>17, <2>1 DEF RejectSub, StatusPcs, SubStatuses
<1>18. CASE ParseResponse(t)
  <2>1. PICK pc \in {"rejectSub", "path"} :
          /\ StatusGoto(t, pc)
          /\ pc = "rejectSub" <=> dian[t].verdict = "xmlRejected"
    BY <1>18 DEF ParseResponse
  <2>2. Knows(t)'
    BY <1>1, <1>4, <1>18, <2>1 DEF ParseResponse, StatusAt, Knows, StatusPcs
  <2> QED BY <1>6, <1>18, <2>1, <2>2 DEF ParseResponse, StatusAt, StatusPcs
\* A step that writes a final status of the invoice.
<1>19. ASSUME NEW status \in {"accepted", "rejected"}, SetInvoice(InvoiceOf(t), status),
              status = "accepted" => dian[t].verdict \in {"accepted", "xmlRejected"},
              status = "rejected" => dian[t].verdict \in {"rejected", "xmlRejected"},
              NEW pc \in StatusPcs, StatusGoto(t, pc), statusJob[t].state = "active", Knows(t)',
              UNCHANGED <<responsePath, sub, event, dlq, job, notified, dian,
                          processes, budget>>
       PROVE  IInv'
  <2>1. BackedInvoices
    <3>1. /\ InvoiceOf(t) \in Invoices /\ t \in RequestsOf(InvoiceOf(t))
          /\ invoice \in [Invoices -> InvoiceStatuses] /\ StatusBacked
      BY <1>2, <1>19 DEF IInv, TypeOK, Backed
    <3>2. /\ invoice' = [invoice EXCEPT ![InvoiceOf(t)] = status]
          /\ \A i \in Invoices : RequestsOf(i)' = RequestsOf(i)
      BY <1>19 DEF SetInvoice, RequestsOf
    <3>3. invoice' \in [Invoices -> InvoiceStatuses]
      BY <3>1, <3>2 DEF InvoiceStatuses
    <3>4. StatusBacked'
      BY <1>19, <3>1, <3>2 DEF StatusBacked
    <3> QED BY <3>3, <3>4 DEF BackedInvoices
  <2>2. SameRows
    BY <1>19 DEF IInv, TypeOK, SameRows, SubExists
  <2>3. BackedNotices
    BY <1>19, NoNotice
  <2>4. Bounded' /\ UNCHANGED <<relay, caller>>
    BY <1>1, <1>19 DEF Bounded, budget, processes
  <2> QED BY <1>4, <1>19, <2>1, <2>2, <2>3, <2>4, StatusMove
<1>20. CASE AcceptInvoice(t)
  <2>1. PICK pc \in {"xml", "done"} : StatusGoto(t, pc)
    BY <1>20 DEF AcceptInvoice
  <2>2. Knows(t)' /\ dian[t].verdict \in {"accepted", "xmlRejected"}
    BY <1>1, <1>4, <1>20, <2>1 DEF AcceptInvoice, StatusAt, Knows, StatusPcs
  <2> QED BY <1>19, <1>20, <2>1, <2>2 DEF AcceptInvoice, StatusAt, StatusPcs
<1>21. CASE RejectInvoice(t)
  <2>1. PICK pc \in {"done", "rejectedHook"} : StatusGoto(t, pc)
    BY <1>21 DEF RejectInvoice
  <2>2. Knows(t)' /\ dian[t].verdict \in {"rejected", "xmlRejected"}
    BY <1>1, <1>11, <1>21, <2>1 DEF RejectInvoice, StatusAt, Knows, StatusPcs
  <2> QED BY <1>19, <1>21, <2>1, <2>2 DEF RejectInvoice, StatusAt, StatusPcs
\* A step that leaves the tables but for responsePath alone.
<1>22. ASSUME NEW pc \in StatusPcs, StatusGoto(t, pc), statusJob[t].state = "active", Knows(t)',
              BackedNotices,
              UNCHANGED <<invoice, sub, event, dlq, job, dian, processes, budget>>
       PROVE  IInv'
  <2>1. SameRows
    BY <1>22 DEF IInv, TypeOK, SameRows, SubExists
  <2>2. BackedInvoices
    BY <1>22, NoRequest, NoVerdict
  <2>3. Bounded' /\ UNCHANGED <<relay, caller>>
    BY <1>1, <1>22 DEF Bounded, budget, processes
  <2> QED BY <1>4, <1>22, <2>1, <2>2, <2>3, StatusMove
<1>23. /\ notified \in [Invoices -> SUBSET Notices] /\ responsePath \subseteq Invoices
       /\ NotifiedOnlyIfAccepted
  BY DEF IInv, TypeOK, Backed
<1>24. CASE SavePath(t)
  <2>1. /\ StatusGoto(t, "mail") /\ statusJob[t].state = "active" /\ statusJob[t].pc = "path"
        /\ responsePath' = responsePath \cup {InvoiceOf(t)}
        /\ UNCHANGED <<invoice, sub, event, dlq, job, notified, dian, processes, budget>>
    BY <1>24 DEF SavePath, StatusAt
  <2>2. BackedNotices
    BY <1>2, <1>23, <2>1 DEF BackedNotices, NotifiedOnlyIfAccepted, RequestsOf
  <2>3. Knows(t)'
    BY <1>1, <1>4, <2>1 DEF Knows, InvoiceOf, StatusPcs
  <2> QED BY <1>22, <2>1, <2>2, <2>3 DEF StatusPcs
<1>25. ASSUME NEW at \in StatusPcs, NEW notice \in Notices, NEW next \in StatusPcs,
              Notify(t, at, notice, next), Knows(t)',
              notice # "invoice.rejected" =>
                InvoiceOf(t) \in responsePath /\ dian[t].verdict = "accepted"
       PROVE  IInv'
  <2>1. /\ StatusGoto(t, next) /\ statusJob[t].state = "active"
        /\ notified' = [notified EXCEPT ![InvoiceOf(t)] = @ \cup {notice}]
        /\ UNCHANGED <<db, job, dian, processes, budget>>
    BY <1>25 DEF Notify, StatusAt
  <2>2. /\ UNCHANGED responsePath
        /\ \A i \in Invoices : RequestsOf(i)' = RequestsOf(i)
    BY <2>1 DEF db, RequestsOf
  <2>3. notified' \in [Invoices -> SUBSET Notices]
    BY <1>2, <1>23, <2>1
  <2>4. NotifiedOnlyIfAccepted'
    BY <1>2, <1>23, <1>25, <2>1, <2>2 DEF NotifiedOnlyIfAccepted, Notices
  <2>5. BackedNotices
    BY <1>23, <2>2, <2>3, <2>4 DEF BackedNotices
  <2> QED BY <1>22, <1>25, <2>1, <2>5 DEF db
<1>26. CASE QueueMail(t)
  <2>1. /\ Knows(t)' /\ InvoiceOf(t) \in responsePath
        /\ dian[t].verdict = "accepted"
    BY <1>1, <1>4, <1>26 DEF QueueMail, Notify, StatusAt, Knows, InvoiceOf, StatusPcs, db
  <2> QED BY <1>25, <1>26, <2>1 DEF QueueMail, Notices, StatusPcs
<1>27. CASE AcceptedHook(t)
  <2>1. /\ Knows(t)' /\ InvoiceOf(t) \in responsePath
        /\ dian[t].verdict = "accepted"
    BY <1>1, <1>4, <1>27 DEF AcceptedHook, Notify, StatusAt, Knows, InvoiceOf, StatusPcs, db
  <2> QED BY <1>25, <1>27, <2>1 DEF AcceptedHook, Notices, StatusPcs
<1>28. CASE RejectedHook(t)
  BY <1>11, <1>25, <1>28 DEF RejectedHook, Notify, StatusAt, Notices, StatusPcs
<1>29. CASE CompleteStatus(t)
  <2>1. StatusJobBecomes(t, Completed(statusJob[t])) /\ Completed(statusJob[t]).pc = "idle"
    BY <1>1, <1>3, <1>29
       DEF CompleteStatus, StatusAt, Completed, StatusJobs, JobRecords, StatusJobBecomes, HasAttempts
  <2> QED BY <1>1, <1>7, <1>29, <2>1 DEF CompleteStatus, Bounded, budget
<1>30. CASE FailStatus(t)
  <2>1. statusJob[t].made < StatusAttempts /\ statusJob[t].made \in Nat
        /\ statusJob[t].state # "absent"
    BY <1>1, <1>30 DEF FailStatus, StatusAt, HasAttempts, StatusJobs, JobRecords
  <2>2. LET j == Thrown(statusJob[t], StatusAttempts, "idle")
        IN  j \in StatusJobs /\ HasAttempts(j, StatusAttempts) /\ j.pc = "idle"
    BY <1>1, <1>3, <2>1 DEF Thrown, StatusJobs, JobRecords, HasAttempts
  <2>3. StatusJobBecomes(t, Thrown(statusJob[t], StatusAttempts, "idle"))
    BY <1>30, <2>1, <2>2 DEF FailStatus, StatusJobBecomes
  <2> QED BY <1>1, <1>7, <1>30, <2>2, <2>3 DEF FailStatus, budget, Bounded
<1>31. CASE StatusCrash(t)
  <2>1. Bounded'
    BY <1>1, <1>31, EmissionAssumption DEF StatusCrash, Bounded
  <2>2. PICK j \in Stalled(statusJob[t], StatusAttempts, MaxStalled, "idle") :
          statusJob' = [statusJob EXCEPT ![t] = j]
    BY <1>31 DEF StatusCrash
  <2>3. statusJob[t].made < StatusAttempts /\ j \in StatusJobs
    BY <1>1, <1>3, <1>31, <2>2 DEF StatusCrash, HasAttempts
  <2>4. /\ j.state \in {"waiting", "failed"} /\ j.pc = "idle"
        /\ j.state = "waiting" => j.made = statusJob[t].made
    BY <1>1, <2>2 DEF Stalled, StatusJobs, JobRecords
  <2>5. StatusJobBecomes(t, j)
    BY <1>31, <2>2, <2>3, <2>4 DEF StatusCrash, StatusJobBecomes, HasAttempts
  <2> QED BY <1>7, <1>31, <2>1, <2>4, <2>5 DEF StatusCrash
<1> QED
  BY <1>9, <1>10, <1>12, <1>13, <1>14, <1>15, <1>16, <1>17, <1>18, <1>20, <1>21, <1>24,
     <1>26, <1>27, <1>28, <1>29, <1>30, <1>31 DEF StatusStep

\* The relay r moves to v.
RelayBecomes(r, v) ==
  /\ relay' = [relay EXCEPT ![r] = v]
  /\ v \in [todo: SUBSET EventIds, added: BOOLEAN]
  /\ \A e \in v.todo : event[e].status # "absent"

\* A relay moves on without having added a job: IInv is kept.
LEMMA RelayMove ==
  ASSUME IInv, NEW r \in Relays, NEW v, RelayBecomes(r, v), v.added = FALSE,
         SameEvents, Bounded',
         UNCHANGED <<invoice, responsePath, sub, dlq, queues, dian, caller>>
  PROVE  IInv'
<1> USE DEF RelayBecomes
<1>0. relay \in [Relays -> [todo: SUBSET EventIds, added: BOOLEAN]]
  BY DEF IInv, TypeOK
<1>1. TypeOK'
  BY <1>0 DEF IInv, TypeOK, SameEvents, Bounded, queues
<1>2. Budgeted' /\ Tracked'
  BY DEF IInv, Budgeted, Tracked, Given, queues
<1>3. Rows' /\ Retries'
  BY DEF IInv, Rows, Attempted, Retries, Counts, Owns, Alone, OwnRow, HasInserted,
         SubExists, queues
<1>4. Outbox'
  <2>1. ASSUME NEW e \in EventIds PROVE Dispatched(e)' <=> Dispatched(e)
    BY DEF Dispatched, SameEvents, queues
  <2>2. \A s \in SubIds : job[s].event # 0 => job[s].event \in EventIds
    BY DEF IInv, TypeOK, JobRecords
  <2>3. \A u \in Relays : \A e \in relay'[u].todo : event'[e].status # "absent"
    BY <1>0 DEF IInv, Outbox, SameEvents
  <2>4. \A u \in Relays : relay'[u].added =>
          \E e \in EventIds : IsHead(u, e)' /\ Dispatched(e)'
    BY <1>0, <2>1 DEF IInv, Outbox, IsHead
  <2>5. OutboxNeverLoses'
    BY <2>1 DEF SameEvents, OutboxNeverLoses, Dispatched
  <2> QED BY <2>2, <2>3, <2>4, <2>5 DEF IInv, Outbox, SameEvents, queues
<1>5. Backed'
  BY DEF IInv, Backed, Knows, InvoiceOf, StatusBacked, NotifiedOnlyIfAccepted, RequestsOf, queues
<1> QED BY <1>1, <1>2, <1>3, <1>4, <1>5 DEF IInv

\* Every step of OutboxRelayService, its faults and its crash keep IInv.
LEMMA RelaySteps ==
  ASSUME IInv, NEW r \in Relays,
         RelayStep(r) \/ RelayCrash(r) \/ \E e \in EventIds : RelayFault(r, e)
  PROVE  IInv'
<1>1. /\ relay \in [Relays -> [todo: SUBSET EventIds, added: BOOLEAN]]
      /\ \A e \in relay[r].todo : event[e].status # "absent"
      /\ relay[r].added => \E e \in EventIds : IsHead(r, e) /\ Dispatched(e)
      /\ Bounded
  BY DEF IInv, TypeOK, Outbox, Bounded
<1>2. event \in [EventIds -> [inv: Invoices \cup {NoInvoice}, type: EventTypes,
                              status: EventStatuses]]
  BY DEF IInv, TypeOK
<1>3. ASSUME NEW e \in EventIds, Advance(r, e), SameEvents, Bounded',
             UNCHANGED <<invoice, responsePath, sub, dlq, queues, dian, caller>>
      PROVE  IInv'
  <2>1. RelayBecomes(r, [todo |-> relay[r].todo \ {e}, added |-> FALSE])
    BY <1>1, <1>3 DEF Advance, RelayBecomes
  <2> QED BY <1>3, <2>1, RelayMove
<1>4. CASE RelayTick(r)
  <2>1. \A e \in OldestPending : e \in EventIds /\ event[e].status # "absent"
    BY DEF OldestPending, PendingEvents
  <2>2. SameEvents
    BY <1>4, NoRowWritten DEF RelayTick
  <2>3. relay[r].added = FALSE
    BY <1>1, <1>4 DEF RelayTick, IsHead
  <2>4. LET v == [relay[r] EXCEPT !.todo = OldestPending]
        IN  RelayBecomes(r, v) /\ v.added = FALSE
    BY <1>1, <1>4, <2>1, <2>3 DEF RelayTick, RelayBecomes
  <2>5. Bounded' /\ UNCHANGED <<invoice, responsePath, sub, dlq, queues, dian, caller>>
    BY <1>1, <1>4 DEF RelayTick, db, budget, Bounded
  <2> QED BY <2>2, <2>4, <2>5, RelayMove
<1>5. ASSUME NEW e \in EventIds, RelaySkip(r, e) \/ RelayFault(r, e) PROVE IInv'
  <2>1. SameEvents
    BY <1>5, NoRowWritten DEF RelaySkip, RelayFault
  <2> QED BY <1>1, <1>3, <1>5, <2>1 DEF RelaySkip, RelayFault, db, budget, Bounded
<1>6. ASSUME NEW e \in EventIds, NEW status \in {"processed", "failed"},
             event' = [event EXCEPT ![e].status = status],
             IsHead(r, e), event[e].type = "INVOICE_CREATED" => Dispatched(e)
      PROVE  SameEvents
  <2>1. OutboxNeverLoses /\ event[e].status # "absent"
    BY <1>1, <1>6 DEF IInv, Outbox, IsHead
  <2> QED BY <1>2, <1>6, <2>1 DEF SameEvents, OutboxNeverLoses, Dispatched, EventStatuses
<1>7. ASSUME NEW e \in EventIds, RelayMark(r, e) PROVE IInv'
  <2>1. PICK f \in EventIds : IsHead(r, f) /\ Dispatched(f)
    BY <1>1, <1>7 DEF RelayMark
  <2>2. e = f
    BY <1>7, <2>1 DEF RelayMark, IsHead, EventIds
  <2>3. SameEvents
    BY <1>6, <1>7, <2>1, <2>2 DEF RelayMark
  <2> QED BY <1>1, <1>3, <1>7, <2>3 DEF RelayMark, budget, Bounded
<1>8. ASSUME NEW e \in EventIds, RelayUnknown(r, e) PROVE IInv'
  <2>1. SameEvents
    BY <1>6, <1>8 DEF RelayUnknown, IsCreation
  <2> QED BY <1>1, <1>3, <1>8, <2>1 DEF RelayUnknown, budget, Bounded
<1>9. CASE RelayCrash(r)
  <2>1. SameEvents /\ Bounded'
    BY <1>1, <1>9, NoRowWritten, EmissionAssumption DEF RelayCrash, Bounded
  <2>2. RelayBecomes(r, RelayIdle) /\ RelayIdle.added = FALSE
    BY <1>9 DEF RelayCrash, RelayBecomes, RelayIdle
  <2> QED BY <1>9, <2>1, <2>2, RelayMove DEF RelayCrash, db
<1>10. ASSUME NEW e \in EventIds, RelayAdd(r, e) PROVE IInv'
  <2>1. PICK s \in FirstSubmission(event[e].inv) :
          job' = [job EXCEPT ![s] = IF Known(job[s]) THEN job[s] ELSE NewJob(e)]
    BY <1>10 DEF RelayAdd
  <2>2. /\ IsHead(r, e) /\ relay' = [relay EXCEPT ![r].added = TRUE]
        /\ UNCHANGED <<db, statusJob, notified, dian, caller, budget>>
    BY <1>10 DEF RelayAdd
  <2>3. s \in SubIds /\ SubExists(s) /\ s = <<event[e].inv, 1>>
    <3>1. s \in SubIds /\ SubExists(s) /\ s[1] = event[e].inv /\ sub[s].attempt = 1
      BY DEF FirstSubmission
    <3>2. /\ s[1] \in Invoices /\ s[2] \in 1..MaxSubs /\ s = <<s[1], s[2]>>
      BY <3>1 DEF SubIds
    <3>3. Attempted(s[1], s[2])
      BY <3>1, <3>2 DEF IInv, Rows
    <3>4. s[2] = 1
      BY <3>1, <3>2, <3>3 DEF Attempted
    <3> QED BY <3>1, <3>2, <3>4
  <2>4. job \in [SubIds -> Jobs]
    BY DEF IInv, TypeOK, Jobs
  <2>5. NewJob(e) \in Jobs
    BY EmissionAssumption DEF NewJob, Jobs, JobRecords, JobStates
  <2>6. /\ job'[s] = job[s] \/ job'[s] = NewJob(e)
        /\ job'[s].state # "absent"
        /\ job' \in [SubIds -> Jobs]
        /\ \A u \in SubIds : u # s => job'[u] = job[u]
        /\ \A u \in SubIds : job[u].state # "absent" => job'[u].state # "absent"
    BY <2>1, <2>3, <2>4, <2>5 DEF Known, NewJob
  <2>7. TypeOK'
    BY <1>1, <2>2, <2>6
       DEF IInv, TypeOK, Jobs, db, budget
  <2>8. Budgeted' /\ Tracked'
    BY <2>2, <2>6, EmissionAssumption DEF IInv, Budgeted, Tracked, Given, HasAttempts, NewJob
  <2>9. Rows'
    BY <2>2, <2>3, <2>6 DEF IInv, Rows, Attempted, SubExists, db
  <2>10. Retries'
    <3>1. ASSUME NEW c \in Callers PROVE Counts(c)' /\ Owns(c)' /\ \A d \in Callers : Alone(c, d)'
      <4>1. Counts(c) /\ Owns(c) /\ \A d \in Callers : Alone(c, d)
        BY DEF IInv, Retries
      <4>2. HasInserted(c) => OwnRow(c) # s
        BY <2>3, <4>1 DEF Owns, OwnRow
      <4>3. Counts(c)' /\ \A d \in Callers : Alone(c, d)'
        BY <2>2, <4>1 DEF Counts, Alone, OwnRow, HasInserted, SubExists, db
      <4>4. Owns(c)'
        BY <2>2, <2>6, <4>1, <4>2 DEF Owns, OwnRow, HasInserted, SubExists, db
      <4> QED BY <4>3, <4>4
    <3> QED BY <2>2, <3>1 DEF IInv, Retries, db
  <2>11. Outbox'
    <3>1. /\ event' = event
          /\ relay'[r].todo = relay[r].todo
          /\ \A u \in Relays : relay'[u].todo = relay[u].todo
          /\ \A u \in Relays : u # r => relay'[u] = relay[u]
      BY <1>1, <2>2 DEF db
    <3>2. \A f \in EventIds : event[f].status # "absent" /\ Dispatched(f) => Dispatched(f)'
      <4>1. \A f \in EventIds : event[f].status # "absent" => <<event[f].inv, 1>> \in SubIds
        BY EmissionAssumption DEF IInv, Outbox, SubIds
      <4> QED BY <2>6, <3>1, <4>1 DEF Dispatched
    <3>3. OutboxNeverLoses'
      BY <3>1, <3>2 DEF IInv, Outbox, OutboxNeverLoses, Dispatched
    <3>4. event[e].status # "absent"
      BY <1>1, <2>2 DEF IsHead
    <3>5. \A u \in SubIds : job'[u].event # 0 =>
            /\ job'[u].state # "absent" /\ u = <<event[job'[u].event].inv, 1>>
            /\ event[job'[u].event].status # "absent"
      BY <2>3, <2>6, <3>4 DEF IInv, Outbox, NewJob
    <3>6. \A u \in Relays : relay'[u].added =>
            \E f \in EventIds : IsHead(u, f)' /\ Dispatched(f)'
      <4>1. IsHead(r, e)' /\ Dispatched(e)'
        BY <2>2, <2>3, <2>6, <3>1 DEF IsHead, Dispatched
      <4>2. ASSUME NEW u \in Relays, u # r, relay'[u].added
            PROVE  \E f \in EventIds : IsHead(u, f)' /\ Dispatched(f)'
        <5>1. PICK f \in EventIds : IsHead(u, f) /\ Dispatched(f)
          BY <3>1, <4>2 DEF IInv, Outbox
        <5>2. event[f].status # "absent"
          BY <5>1 DEF IsHead, IInv, Outbox
        <5> QED BY <3>1, <3>2, <4>2, <5>1, <5>2 DEF IsHead
      <4> QED BY <4>1, <4>2
    <3> QED BY <3>1, <3>3, <3>5, <3>6 DEF IInv, Outbox
  <2>12. Backed'
    BY <2>2, <2>6
       DEF IInv, Backed, Knows, InvoiceOf, StatusBacked, NotifiedOnlyIfAccepted, RequestsOf,
           NewJob, db
  <2> QED BY <2>7, <2>8, <2>9, <2>10, <2>11, <2>12 DEF IInv
<1> QED
  BY <1>4, <1>5, <1>7, <1>8, <1>9, <1>10 DEF RelayStep

\* A step that at most adds rows to dian_submissions.
RowsGrow ==
  /\ sub' \in [SubIds -> [attempt: 0..MaxSubs, status: SubStatuses]]
  /\ \A s \in SubIds : SubExists(s) => sub'[s].status # "absent"
  /\ \A i \in Invoices, k \in 1..MaxSubs : SubExists(<<i, k>>)' => Attempted(i, k)'

\* A step that at most adds rows to outbox_events.
EventsGrow ==
  /\ event' \in [EventIds -> [inv: Invoices \cup {NoInvoice}, type: EventTypes,
                              status: EventStatuses]]
  /\ \A e \in EventIds :
       \/ event'[e] = event[e]
       \/ /\ event[e].status = "absent"
          /\ event'[e].status = "pending" /\ event'[e].inv \in Invoices

TypedCallers == caller \in [Callers -> [pc: CallerPcs, inv: Invoices \cup {NoInvoice}, n: Nat]]

\* A request inserts rows and changes no queue: IInv is kept.
LEMMA RequestMove ==
  ASSUME IInv, TypedCallers', Retries', DeadLetters', RowsGrow, EventsGrow,
         BackedInvoices, Bounded',
         UNCHANGED <<responsePath, queues, dian, relay>>
  PROVE  IInv'
<1>1. TypeOK'
  BY DEF IInv, TypeOK, TypedCallers, DeadLetters, RowsGrow, EventsGrow, BackedInvoices,
         Bounded, queues
<1>2. Budgeted' /\ Tracked'
  BY DEF IInv, Budgeted, Tracked, Given, queues
<1>3. Rows'
  <2>1. \A t \in TrackIds : dian[t].verdict # "none" => dian[t].sub \in SubIds
    BY DEF IInv, Tracked
  <2>2. \A s \in SubIds : SubExists(s) => SubExists(s)'
    BY DEF RowsGrow, SubExists
  <2> QED BY <2>1, <2>2 DEF IInv, Rows, RowsGrow, queues
<1>4. Outbox'
  <2>1. \A e \in EventIds : event[e].status # "absent" => event'[e] = event[e]
    BY DEF EventsGrow
  <2>2. \A s \in SubIds : job[s].event # 0 => job[s].event \in EventIds
    BY DEF IInv, TypeOK, JobRecords
  <2>3. \A r \in Relays : relay[r].todo \subseteq EventIds
    BY DEF IInv, TypeOK
  <2>4. OutboxNeverLoses'
    BY DEF IInv, Outbox, EventsGrow, OutboxNeverLoses, Dispatched, queues
  <2>5. \A r \in Relays : relay'[r].added =>
          \E e \in EventIds : IsHead(r, e)' /\ Dispatched(e)'
    <3>1. ASSUME NEW r \in Relays, relay'[r].added
          PROVE  \E e \in EventIds : IsHead(r, e)' /\ Dispatched(e)'
      <4>1. PICK e \in EventIds : IsHead(r, e) /\ Dispatched(e)
        BY <3>1 DEF IInv, Outbox
      <4>2. event'[e] = event[e]
        BY <2>1, <4>1 DEF IsHead, IInv, Outbox
      <4> QED BY <4>1, <4>2 DEF IsHead, Dispatched, queues
    <3> QED BY <3>1
  <2>6. \A e \in EventIds : event'[e].status # "absent" => event'[e].inv \in Invoices
    BY DEF IInv, Outbox, EventsGrow
  <2> QED BY <2>1, <2>2, <2>3, <2>4, <2>5, <2>6 DEF IInv, Outbox, queues
<1>5. Backed'
  BY DEF IInv, Backed, Knows, InvoiceOf, NotifiedOnlyIfAccepted, RequestsOf, BackedInvoices, queues
<1> QED BY <1>1, <1>2, <1>3, <1>4, <1>5 DEF IInv

\* The request c moves to v.
CallerBecomes(c, v) ==
  /\ caller' = [caller EXCEPT ![c] = v]
  /\ v \in [pc: CallerPcs, inv: Invoices \cup {NoInvoice}, n: Nat]
  /\ v.pc # "idle" => v.inv \in Invoices
  /\ v.pc = "insert" => \E m \in 1..MaxSubs : SubExists(<<v.inv, m>>) /\ v.n \in 1..m
  /\ v.pc \in {"update", "add"} =>
       /\ <<v.inv, v.n>> \in SubIds /\ v.n # 1
       /\ sub'[<<v.inv, v.n>>].status # "absent" /\ job[<<v.inv, v.n>>].state = "absent"
       /\ \A d \in Callers \ {c} : HasInserted(d) => OwnRow(d) # <<v.inv, v.n>>

\* What a retry request relies on is kept when one request moves on.
LEMMA CallerMove ==
  ASSUME IInv, NEW c \in Callers, NEW v, CallerBecomes(c, v), RowsGrow, DeadLetters',
         UNCHANGED job
  PROVE  TypedCallers' /\ Retries'
<1> USE DEF CallerBecomes
<1>0. TypedCallers
  BY DEF IInv, TypeOK, TypedCallers
<1>1. /\ caller'[c] = v
      /\ \A d \in Callers \ {c} : caller'[d] = caller[d]
      /\ TypedCallers'
  BY <1>0 DEF TypedCallers
<1>2. \A s \in SubIds : SubExists(s) => SubExists(s)'
  BY DEF RowsGrow, SubExists
<1>3. \A d \in Callers : /\ Counts(d) /\ Owns(d)
                         /\ \A e \in Callers : Alone(d, e)
                         /\ caller[d].pc # "idle" => caller[d].inv \in Invoices
  BY DEF IInv, Retries
<1>4. \A d \in Callers : Counts(d)'
  <2>1. ASSUME NEW d \in Callers, caller'[d].pc = "insert"
        PROVE  \E m \in 1..MaxSubs : SubExists(<<caller'[d].inv, m>>) /\ caller'[d].n \in 1..m
    BY <1>1, <1>3, <2>1 DEF Counts
  <2>2. \A d \in Callers : caller'[d].pc # "idle" => caller'[d].inv \in Invoices
    BY <1>1, <1>3
  <2>3. ASSUME NEW d \in Callers, caller'[d].pc = "insert"
        PROVE  \E m \in 1..MaxSubs : SubExists(<<caller[d].inv, m>>)' /\ caller'[d].n \in 1..m
    <3>1. PICK m \in 1..MaxSubs : SubExists(<<caller'[d].inv, m>>) /\ caller'[d].n \in 1..m
      BY <2>1, <2>3
    <3>2. <<caller'[d].inv, m>> \in SubIds
      BY <2>2, <2>3 DEF SubIds
    <3> QED BY <1>2, <3>1, <3>2
  <2> QED BY <2>3 DEF Counts
<1>5. \A d \in Callers : Owns(d)'
  <2>1. Owns(c)'
    BY <1>1 DEF Owns, OwnRow, HasInserted, SubExists
  <2>2. ASSUME NEW d \in Callers \ {c} PROVE Owns(d)'
    BY <1>1, <1>2, <1>3 DEF Owns, OwnRow, HasInserted
  <2> QED BY <2>1, <2>2
<1>6. \A d, e \in Callers : Alone(d, e)'
  BY <1>1, <1>3 DEF Alone, OwnRow, HasInserted
<1> QED BY <1>1, <1>3, <1>4, <1>5, <1>6 DEF Retries, DeadLetters

\* A step that adds no row.
LEMMA NoRowAdded ==
  ASSUME IInv
  PROVE  /\ SameRows => RowsGrow
         /\ UNCHANGED sub => RowsGrow
         /\ UNCHANGED event => EventsGrow
<1>1. ASSUME SameRows PROVE RowsGrow
  <2>1. ASSUME NEW i \in Invoices, NEW k \in 1..MaxSubs, SubExists(<<i, k>>)'
        PROVE  Attempted(i, k)'
    <3>1. \A m \in 1..k : <<i, m>> \in SubIds
      BY EmissionAssumption DEF SubIds
    <3>2. Attempted(i, k) /\ k \in 1..k
      BY <1>1, <2>1, <3>1 DEF IInv, Rows, SameRows, SubExists
    <3> QED BY <1>1, <3>1, <3>2 DEF Attempted, SameRows, SubExists
  <2> QED BY <1>1, <2>1 DEF RowsGrow, SameRows
<1>2. ASSUME UNCHANGED sub PROVE SameRows
  BY <1>2 DEF IInv, TypeOK, SameRows, SubExists
<1>3. ASSUME UNCHANGED event PROVE EventsGrow
  BY <1>3 DEF IInv, TypeOK, EventsGrow
<1> QED BY <1>1, <1>2, <1>3

\* An event is inserted.
LEMMA EventInserted ==
  ASSUME IInv, NEW i \in Invoices, NEW type \in EventTypes,
         \E e \in EventIds : InsertEvent(e, i, type)
  PROVE  EventsGrow
<1>1. PICK e \in EventIds : InsertEvent(e, i, type)
  OBVIOUS
<1>2. event \in [EventIds -> [inv: Invoices \cup {NoInvoice}, type: EventTypes,
                             status: EventStatuses]]
  BY DEF IInv, TypeOK
<1> QED BY <1>1, <1>2 DEF InsertEvent, FreshEvent, EventsGrow, EventStatuses

\* A row is inserted after the ones the invoice has.
LEMMA RowInserted ==
  ASSUME IInv, NEW i \in Invoices, NEW k \in 1..MaxSubs, NEW n \in 1..k,
         \A m \in 1..k - 1 : SubExists(<<i, m>>), n = 1 => k = 1,
         sub' = [sub EXCEPT ![<<i, k>>] = [attempt |-> n, status |-> "pending"]]
  PROVE  RowsGrow /\ sub'[<<i, k>>].status # "absent"
<1>1. /\ sub \in [SubIds -> [attempt: 0..MaxSubs, status: SubStatuses]]
      /\ <<i, k>> \in SubIds /\ n \in 0..MaxSubs
  BY EmissionAssumption DEF IInv, TypeOK, SubIds
<1>2. /\ sub' \in [SubIds -> [attempt: 0..MaxSubs, status: SubStatuses]]
      /\ sub'[<<i, k>>] = [attempt |-> n, status |-> "pending"]
      /\ \A s \in SubIds : s # <<i, k>> => sub'[s] = sub[s]
  BY <1>1 DEF SubStatuses
<1>3. \A s \in SubIds : SubExists(s) => sub'[s].status # "absent"
  BY <1>2 DEF SubExists
<1>4. ASSUME NEW j \in Invoices, NEW l \in 1..MaxSubs, SubExists(<<j, l>>)'
      PROVE  Attempted(j, l)'
  <2>1. \A m \in 1..l : <<j, m>> \in SubIds
    BY EmissionAssumption DEF SubIds
  <2>2. l \in 1..l
    OBVIOUS
  <2>3. CASE <<j, l>> = <<i, k>>
    <3>1. \A m \in 1..l : sub'[<<j, m>>].status # "absent"
      <4>1. \A m \in 1..l : m = l \/ m \in 1..l - 1
        OBVIOUS
      <4> QED BY <1>2, <1>3, <2>1, <2>3, <4>1
    <3> QED BY <1>2, <2>3, <3>1 DEF Attempted, SubExists
  <2>4. CASE <<j, l>> # <<i, k>>
    <3>1. Attempted(j, l) /\ sub'[<<j, l>>] = sub[<<j, l>>]
      BY <1>2, <1>4, <2>1, <2>2, <2>4 DEF IInv, Rows, SubExists
    <3> QED BY <1>3, <2>1, <3>1 DEF Attempted, SubExists
  <2> QED BY <2>3, <2>4
<1> QED BY <1>2, <1>3, <1>4 DEF RowsGrow, SubExists

\* The commit of InvoicesService.create keeps IInv.
LEMMA CreateStep ==
  ASSUME IInv, NEW i \in Invoices, CreateInvoice(i)
  PROVE  IInv'
<1>1. PICK status \in {"queued", "draft"} :
        /\ SetInvoice(i, status)
        /\ \/ UNCHANGED sub
           \/ sub' = [sub EXCEPT ![<<i, 1>>] = [attempt |-> 1, status |-> "pending"]]
  BY DEF CreateInvoice
<1>2. UNCHANGED <<responsePath, dlq, queues, dian, processes, budget>>
  BY DEF CreateInvoice
<1>3. EventsGrow
  BY EventInserted DEF CreateInvoice, EventTypes
<1>4. RowsGrow
  <2>1. 1 \in 1..MaxSubs
    BY EmissionAssumption
  <2>2. ASSUME sub' = [sub EXCEPT ![<<i, 1>>] = [attempt |-> 1, status |-> "pending"]]
        PROVE  RowsGrow
    <3>1. 1 \in 1..1 /\ \A m \in 1..1 - 1 : SubExists(<<i, m>>)
      OBVIOUS
    <3> QED BY <2>1, <2>2, <3>1, RowInserted
  <2> QED BY <1>1, <2>2, NoRowAdded
<1>5. BackedInvoices
  <2>1. invoice \in [Invoices -> InvoiceStatuses] /\ StatusBacked
    BY DEF IInv, TypeOK, Backed
  <2>2. \A j \in Invoices : RequestsOf(j)' = RequestsOf(j)
    BY <1>2 DEF RequestsOf
  <2>3. invoice' = [invoice EXCEPT ![i] = status]
    BY <1>1 DEF SetInvoice
  <2>4. invoice' \in [Invoices -> InvoiceStatuses]
    BY <2>1, <2>3 DEF InvoiceStatuses
  <2>5. StatusBacked'
    BY <1>2, <2>1, <2>2, <2>3 DEF StatusBacked
  <2> QED BY <2>4, <2>5 DEF BackedInvoices
<1>6. TypedCallers' /\ Retries'
  <2>1. \A s \in SubIds : SubExists(s) => SubExists(s)'
    BY <1>4 DEF RowsGrow, SubExists
  <2>2. ASSUME NEW c \in Callers PROVE Counts(c)' /\ Owns(c)' /\ \A d \in Callers : Alone(c, d)'
    <3>1. Counts(c) /\ Owns(c) /\ \A d \in Callers : Alone(c, d)
      BY DEF IInv, Retries
    <3>2. caller[c].pc # "idle" => \A m \in 1..MaxSubs : <<caller[c].inv, m>> \in SubIds
      BY DEF IInv, Retries, SubIds
    <3>3. Counts(c)'
      BY <1>2, <2>1, <3>1, <3>2 DEF Counts, processes
    <3>4. Owns(c)'
      BY <1>2, <2>1, <3>1 DEF Owns, OwnRow, HasInserted, processes, queues
    <3>5. \A d \in Callers : Alone(c, d)'
      BY <1>2, <3>1 DEF Alone, OwnRow, HasInserted, processes
    <3> QED BY <3>3, <3>4, <3>5
  <2> QED BY <1>2, <2>2 DEF IInv, TypeOK, Retries, TypedCallers, processes
<1>7. DeadLetters' /\ Bounded' /\ UNCHANGED <<responsePath, queues, dian, relay>>
  BY <1>2, NoDeadLetter DEF IInv, TypeOK, Bounded, budget, processes
<1> QED BY <1>3, <1>4, <1>5, <1>6, <1>7, RequestMove

\* Every step of retrySubmission and retryDlqItem, and their end at any point,
\* keep IInv.
LEMMA CallerSteps ==
  ASSUME IInv, NEW c \in Callers,
         \/ \E i \in Invoices : RetryCheck(c, i)
         \/ \E d \in DlqIds : DlqRead(c, d)
         \/ CallerStep(c) \/ CallerDies(c)
  PROVE  IInv'
<1>1. /\ Bounded /\ caller[c] \in [pc: CallerPcs, inv: Invoices \cup {NoInvoice}, n: Nat]
      /\ Counts(c) /\ Owns(c) /\ \A d \in Callers : Alone(c, d)
      /\ caller[c].pc # "idle" => caller[c].inv \in Invoices
  BY DEF IInv, TypeOK, Retries, Bounded
<1>2. SubIds = Invoices \X (1..MaxSubs) /\ \A s \in SubIds : s = <<s[1], s[2]>>
  BY DEF SubIds
\* A step that changes the local state of the request alone.
<1>3. ASSUME NEW v, CallerBecomes(c, v), UNCHANGED <<db, queues, dian, relay>>, Bounded'
      PROVE  IInv'
  <2>1. RowsGrow /\ EventsGrow /\ DeadLetters' /\ BackedInvoices
    BY <1>3, NoRowAdded, NoRowWritten, NoRequest, NoVerdict DEF db
  <2>2. TypedCallers' /\ Retries'
    BY <1>3, <2>1, CallerMove DEF queues
  <2> QED BY <1>3, <2>1, <2>2, RequestMove DEF db
<1>4. ASSUME NEW i \in Invoices, RetryCheck(c, i) PROVE IInv'
  <2>1. CallerBecomes(c, [pc |-> "latest", inv |-> i, n |-> 0])
    BY <1>4 DEF RetryCheck, SetCaller, CallerBecomes, CallerPcs
  <2> QED BY <1>1, <1>3, <1>4, <2>1 DEF RetryCheck, budget, Bounded
<1>5. ASSUME NEW d \in DlqIds, DlqRead(c, d) PROVE IInv'
  <2>1. dlq[d].inv \in Invoices /\ d \in Nat
    BY <1>5 DEF DlqRead, IInv, Retries, DlqIds
  <2>2. CallerBecomes(c, [pc |-> "dlqEvent", inv |-> dlq[d].inv, n |-> d])
    BY <1>5, <2>1 DEF DlqRead, SetCaller, CallerBecomes, CallerPcs
  <2> QED BY <1>1, <1>3, <1>5, <2>2 DEF DlqRead, budget, Bounded
<1>6. CASE RetryLatest(c)
  <2>1. PICK k \in 1..MaxSubs :
          /\ SubExists(<<caller[c].inv, k>>)
          /\ SetCaller(c, "insert", caller[c].inv, sub[<<caller[c].inv, k>>].attempt)
    BY <1>6 DEF RetryLatest
  <2>2. caller[c].inv \in Invoices
    BY <1>1, <1>6 DEF RetryLatest, CallerAt
  <2>3. sub[<<caller[c].inv, k>>].attempt \in 1..k
    BY <2>1, <2>2 DEF IInv, Rows, Attempted
  <2>4. CallerBecomes(c, [pc |-> "insert", inv |-> caller[c].inv,
                          n |-> sub[<<caller[c].inv, k>>].attempt])
    BY <2>1, <2>2, <2>3 DEF SetCaller, CallerBecomes, CallerPcs
  <2> QED BY <1>1, <1>3, <1>6, <2>4 DEF RetryLatest, budget, Bounded
<1>7. CASE RetryInsert(c)
  <2> DEFINE i == caller[c].inv
  <2>1. PICK k \in 1..MaxSubs :
          /\ FreshSub(i, k)
          /\ sub' = [sub EXCEPT ![<<i, k>>] = [attempt |-> caller[c].n + 1, status |-> "pending"]]
          /\ SetCaller(c, "update", i, k)
    BY <1>7 DEF RetryInsert
  <2>2. i \in Invoices /\ caller[c].n \in Nat
    BY <1>1, <1>7 DEF RetryInsert, CallerAt
  <2>3. <<i, k>> \in SubIds
    BY <1>2, <2>2
  <2>4. PICK m \in 1..MaxSubs : SubExists(<<i, m>>) /\ caller[c].n \in 1..m
    BY <1>1, <1>7 DEF RetryInsert, CallerAt, Counts
  <2>5. m < k
    <3>1. \A l \in 1..m : SubExists(<<i, l>>)
      BY <2>2, <2>4 DEF IInv, Rows, Attempted
    <3> QED BY <2>1, <3>1 DEF FreshSub
  <2>6. caller[c].n + 1 \in 1..k /\ caller[c].n + 1 # 1 /\ k # 1
    BY <2>4, <2>5
  <2>7. RowsGrow /\ sub'[<<i, k>>].status # "absent"
    <3>1. \A m1 \in 1..k - 1 : SubExists(<<i, m1>>)
      BY <2>1 DEF FreshSub
    <3> HIDE DEF i
    <3> QED BY <2>1, <2>2, <2>6, <3>1, RowInserted
  <2>8. /\ ~SubExists(<<i, k>>) /\ job[<<i, k>>].state = "absent"
    BY <2>1, <2>3 DEF FreshSub, IInv, Rows
  <2>9. \A d \in Callers : HasInserted(d) => OwnRow(d) # <<i, k>>
    BY <2>8 DEF IInv, Retries, Owns
  <2>10. CallerBecomes(c, [pc |-> "update", inv |-> i, n |-> k])
    BY <2>1, <2>2, <2>3, <2>6, <2>7, <2>8, <2>9 DEF SetCaller, CallerBecomes, CallerPcs
  <2>11. UNCHANGED <<invoice, responsePath, event, dlq, queues, dian, relay, budget>>
    BY <1>7 DEF RetryInsert
  <2>12. EventsGrow /\ DeadLetters' /\ BackedInvoices /\ Bounded'
    BY <1>1, <2>11, NoRowAdded, NoDeadLetter, NoRequest, NoVerdict DEF Bounded, budget
  <2>13. TypedCallers' /\ Retries'
    BY <2>7, <2>10, <2>11, <2>12, CallerMove DEF queues
  <2> QED BY <2>7, <2>11, <2>12, <2>13, RequestMove
<1>8. CASE RetryUpdate(c)
  <2>1. /\ CallerAt(c, "update") /\ SetInvoice(caller[c].inv, "pending")
        /\ SetCaller(c, "add", caller[c].inv, caller[c].n)
        /\ UNCHANGED <<responsePath, sub, event, dlq, queues, dian, relay, budget>>
    BY <1>8 DEF RetryUpdate
  <2>2. HasInserted(c) /\ caller[c].inv \in Invoices
    BY <1>1, <2>1 DEF CallerAt, HasInserted
  <2>3. RowsGrow /\ EventsGrow /\ DeadLetters' /\ Bounded'
    BY <1>1, <2>1, NoRowAdded, NoDeadLetter DEF Bounded, budget
  <2>4. BackedInvoices
    <3>1. invoice \in [Invoices -> InvoiceStatuses] /\ StatusBacked
      BY DEF IInv, TypeOK, Backed
    <3>2. /\ invoice' = [invoice EXCEPT ![caller[c].inv] = "pending"]
          /\ UNCHANGED dian /\ \A i \in Invoices : RequestsOf(i)' = RequestsOf(i)
      BY <2>1 DEF SetInvoice, RequestsOf
    <3>3. invoice' \in [Invoices -> InvoiceStatuses]
      BY <3>1, <3>2 DEF InvoiceStatuses
    <3>4. StatusBacked'
      BY <3>1, <3>2 DEF StatusBacked
    <3> QED BY <3>3, <3>4 DEF BackedInvoices
  <2>5. /\ OwnRow(c) \in SubIds /\ caller[c].n # 1 /\ sub'[OwnRow(c)].status # "absent"
        /\ job[OwnRow(c)].state = "absent"
        /\ \A d \in Callers \ {c} : HasInserted(d) => OwnRow(d) # OwnRow(c)
    BY <1>1, <2>1, <2>2 DEF Owns, Alone, SubExists, OwnRow
  <2>6. CallerBecomes(c, [pc |-> "add", inv |-> caller[c].inv, n |-> caller[c].n])
    BY <1>1, <2>1, <2>2, <2>5 DEF SetCaller, CallerBecomes, CallerPcs, OwnRow, SubExists
  <2>7. TypedCallers' /\ Retries'
    BY <2>1, <2>3, <2>6, CallerMove DEF queues
  <2> QED BY <2>1, <2>3, <2>4, <2>7, RequestMove
<1>9. CallerBecomes(c, CallerIdle) <=> caller' = [caller EXCEPT ![c] = CallerIdle]
  BY DEF CallerBecomes, CallerIdle, CallerPcs
<1>10. CASE DlqEvent(c)
  <2>1. /\ caller[c].pc = "dlqEvent" /\ SetCaller(c, "dlqResolve", caller[c].inv, caller[c].n)
        /\ \E e \in EventIds : InsertEvent(e, caller[c].inv, "invoice.created")
        /\ UNCHANGED <<invoice, responsePath, sub, dlq, queues, dian, relay, budget>>
    BY <1>10 DEF DlqEvent, CallerAt
  <2>2. EventsGrow
    BY <1>1, <2>1, EventInserted DEF EventTypes
  <2>3. RowsGrow /\ DeadLetters' /\ BackedInvoices /\ Bounded'
    BY <1>1, <2>1, NoRowAdded, NoDeadLetter, NoRequest, NoVerdict DEF Bounded, budget
  <2>4. CallerBecomes(c, [pc |-> "dlqResolve", inv |-> caller[c].inv, n |-> caller[c].n])
    BY <1>1, <2>1 DEF SetCaller, CallerBecomes, CallerPcs
  <2>5. TypedCallers' /\ Retries'
    BY <2>1, <2>3, <2>4, CallerMove DEF queues
  <2> QED BY <2>1, <2>2, <2>3, <2>5, RequestMove
<1>11. CASE DlqResolve(c)
  <2>1. /\ dlq' = [dlq EXCEPT ![caller[c].n].status = "resolved"]
        /\ caller' = [caller EXCEPT ![c] = CallerIdle]
        /\ UNCHANGED <<invoice, responsePath, sub, event, queues, dian, relay, budget>>
    BY <1>11 DEF DlqResolve
  <2>2. DeadLetters'
    <3>1. DeadLetters
      BY DEF IInv, TypeOK, Retries, DeadLetters
    <3>2. \A d \in DlqIds : dlq'[d] = dlq[d] \/ dlq'[d] = [dlq[d] EXCEPT !.status = "resolved"]
      BY <2>1, <3>1 DEF DeadLetters
    <3>3. /\ dlq' \in [DlqIds -> [inv: Invoices \cup {NoInvoice},
                                 status: {"absent", "pending", "resolved"}]]
          /\ \A d \in DlqIds : dlq'[d].status = "pending" => dlq'[d] = dlq[d]
      BY <2>1, <3>1, <3>2 DEF DeadLetters
    <3> QED BY <3>1, <3>3 DEF DeadLetters
  <2>3. RowsGrow /\ EventsGrow /\ BackedInvoices /\ Bounded'
    BY <1>1, <2>1, NoRowAdded, NoRequest, NoVerdict DEF Bounded, budget
  <2>4. TypedCallers' /\ Retries'
    BY <1>9, <2>1, <2>2, <2>3, CallerMove DEF queues
  <2> QED BY <2>1, <2>2, <2>3, <2>4, RequestMove
<1>12. CASE CallerDies(c)
  <2>1. Bounded'
    BY <1>1, <1>12, EmissionAssumption DEF CallerDies, Bounded
  <2> QED BY <1>3, <1>9, <1>12, <2>1 DEF CallerDies
<1>13. CASE RetryAdd(c)
  <2> DEFINE s == OwnRow(c)
  <2>1. /\ caller[c].pc = "add" /\ job' = [job EXCEPT ![s] = NewJob(0)]
        /\ caller' = [caller EXCEPT ![c] = CallerIdle]
        /\ UNCHANGED <<db, statusJob, notified, dian, relay, budget>>
    BY <1>13 DEF RetryAdd, CallerAt, OwnRow
  <2>2. HasInserted(c)
    BY <2>1 DEF HasInserted
  <2>3. /\ s \in SubIds /\ SubExists(s) /\ job[s].state = "absent"
    BY <1>1, <2>2 DEF Owns
  <2>4. \A d \in Callers \ {c} : HasInserted(d) => OwnRow(d) # s
    BY <1>1, <2>2 DEF Alone
  <2> HIDE DEF s
  <2>5. job \in [SubIds -> Jobs]
    BY DEF IInv, TypeOK, Jobs
  <2>6. NewJob(0) \in Jobs
    BY EmissionAssumption DEF NewJob, Jobs, JobRecords, JobStates
  <2>7. /\ job' \in [SubIds -> Jobs] /\ job'[s] = NewJob(0)
        /\ \A u \in SubIds : u # s => job'[u] = job[u]
        /\ \A u \in SubIds : job[u].state # "absent" => job'[u].state # "absent"
    BY <2>1, <2>3, <2>5, <2>6 DEF NewJob
  <2>8. /\ caller'[c] = CallerIdle
        /\ \A d \in Callers \ {c} : caller'[d] = caller[d]
        /\ TypedCallers'
    BY <2>1 DEF IInv, TypeOK, TypedCallers, CallerIdle, CallerPcs
  <2>9. TypeOK'
    BY <1>1, <2>1, <2>7, <2>8 DEF IInv, TypeOK, TypedCallers, Jobs, db, budget
  <2>10. Budgeted' /\ Tracked'
    BY <2>1, <2>7, EmissionAssumption DEF IInv, Budgeted, Tracked, Given, HasAttempts, NewJob
  <2>11. Rows'
    BY <2>1, <2>3, <2>7 DEF IInv, Rows, Attempted, SubExists, db
  <2>12. Retries'
    <3>1. Counts(c)' /\ Owns(c)' /\ ~HasInserted(c)'
      BY <2>8 DEF Counts, Owns, HasInserted, CallerIdle
    <3>2. ASSUME NEW d \in Callers \ {c} PROVE Counts(d)' /\ Owns(d)'
      <4>1. Counts(d) /\ Owns(d)
        BY DEF IInv, Retries
      <4>2. Counts(d)'
        BY <2>1, <2>8, <4>1 DEF Counts, SubExists, db
      <4>3. Owns(d)'
        BY <2>1, <2>4, <2>7, <2>8, <4>1 DEF Owns, OwnRow, HasInserted, SubExists, db
      <4> QED BY <4>2, <4>3
    <3>3. ASSUME NEW d \in Callers, NEW e \in Callers PROVE Alone(d, e)'
      <4>1. Alone(d, e)
        BY DEF IInv, Retries
      <4> QED BY <2>8, <3>1, <4>1 DEF Alone, OwnRow, HasInserted
    <3>4. \A d \in Callers : caller'[d].pc # "idle" => caller'[d].inv \in Invoices
      BY <2>8 DEF IInv, Retries, CallerIdle
    <3> QED BY <2>1, <3>1, <3>2, <3>3, <3>4 DEF IInv, Retries, db
  <2>13. Outbox'
    <3>1. \A f \in EventIds : event[f].status # "absent" /\ Dispatched(f) => Dispatched(f)'
      <4>1. \A f \in EventIds : event[f].status # "absent" => <<event[f].inv, 1>> \in SubIds
        BY EmissionAssumption DEF IInv, Outbox, SubIds
      <4> QED BY <2>1, <2>7, <4>1 DEF Dispatched, db
    <3>2. OutboxNeverLoses'
      BY <2>1, <3>1 DEF IInv, Outbox, OutboxNeverLoses, Dispatched, db
    <3>3. \A u \in SubIds : job'[u].event # 0 => u # s /\ job'[u] = job[u]
      BY <2>7 DEF NewJob
    <3>4. ASSUME NEW r \in Relays, relay[r].added
          PROVE  \E f \in EventIds : IsHead(r, f)' /\ Dispatched(f)'
      <4>1. PICK f \in EventIds : IsHead(r, f) /\ Dispatched(f)
        BY <3>4 DEF IInv, Outbox
      <4>2. event[f].status # "absent"
        BY <4>1 DEF IsHead, IInv, Outbox
      <4> QED BY <2>1, <3>1, <4>1, <4>2 DEF IsHead
    <3> QED BY <2>1, <3>2, <3>3, <3>4 DEF IInv, Outbox, db
  <2>14. Backed'
    BY <2>1, <2>7
       DEF IInv, Backed, Knows, InvoiceOf, StatusBacked, NotifiedOnlyIfAccepted, RequestsOf,
           NewJob, db
  <2> QED BY <2>9, <2>10, <2>11, <2>12, <2>13, <2>14 DEF IInv
<1> QED
  BY <1>4, <1>5, <1>6, <1>7, <1>8, <1>10, <1>11, <1>12, <1>13 DEF CallerStep

\* The empty tables and queues satisfy IInv.
LEMMA Initially == StoreInit => IInv
<1> SUFFICES ASSUME StoreInit PROVE IInv
  OBVIOUS
<1> USE DEF StoreInit
<1>1. NoJob \in Jobs /\ NoJob \in StatusJobs
  BY EmissionAssumption DEF NoJob, Jobs, StatusJobs, JobRecords, JobStates
<1>2. /\ \A s \in SubIds : job[s] = NoJob /\ sub[s] = NoSub
      /\ \A t \in TrackIds : statusJob[t] = NoJob /\ dian[t] = NoSend
      /\ \A e \in EventIds : event[e] = NoEvent
      /\ \A c \in Callers : caller[c] = CallerIdle
      /\ \A r \in Relays : relay[r] = RelayIdle
      /\ \A d \in DlqIds : dlq[d] = NoDlq
  OBVIOUS
<1>3. TypeOK
  <2>1. /\ sub \in [SubIds -> [attempt: 0..MaxSubs, status: SubStatuses]]
        /\ event \in [EventIds -> [inv: Invoices \cup {NoInvoice}, type: EventTypes,
                                   status: EventStatuses]]
        /\ dlq \in [DlqIds -> [inv: Invoices \cup {NoInvoice},
                               status: {"absent", "pending", "resolved"}]]
    BY EmissionAssumption
       DEF NoSub, SubStatuses, NoEvent, EventTypes, EventStatuses, NoDlq
  <2>2. /\ dian \in [TrackIds -> [sub: SubIds \cup {NoSend.sub}, verdict: Verdicts]]
        /\ relay \in [Relays -> [todo: SUBSET EventIds, added: BOOLEAN]]
        /\ caller \in [Callers -> [pc: CallerPcs, inv: Invoices \cup {NoInvoice}, n: Nat]]
    BY DEF NoSend, Verdicts, RelayIdle, CallerIdle, CallerPcs
  <2> QED
    BY <1>1, <2>1, <2>2, EmissionAssumption DEF TypeOK, Jobs, StatusJobs, InvoiceStatuses
<1>4. Budgeted /\ Tracked
  BY <1>2 DEF Budgeted, Tracked, HasAttempts, NoJob, NoSend
<1>5. Rows
  <2>1. \A i \in Invoices, k \in 1..MaxSubs : <<i, k>> \in SubIds
    BY DEF SubIds
  <2> QED BY <1>2, <2>1 DEF Rows, SubExists, NoSub, NoJob, NoSend
<1>6. Retries
  BY <1>2 DEF Retries, Counts, Owns, Alone, HasInserted, CallerIdle, NoDlq
<1>7. Outbox
  BY <1>2 DEF Outbox, OutboxNeverLoses, NoEvent, NoJob, RelayIdle
<1>8. Backed
  BY <1>2 DEF Backed, Knows, StatusBacked, NotifiedOnlyIfAccepted, NoJob
<1> QED BY <1>3, <1>4, <1>5, <1>6, <1>7, <1>8 DEF IInv

\* IInv speaks of the variables only.
LEMMA Stuttering == IInv /\ UNCHANGED vars => IInv'
<1> SUFFICES ASSUME IInv, UNCHANGED vars PROVE IInv'
  OBVIOUS
<1> USE DEF vars, db, queues, processes, budget
<1>1. TypeOK' /\ Budgeted' /\ Tracked'
  BY DEF IInv, TypeOK, Budgeted, Tracked, Given
<1>2. Rows' /\ Retries'
  BY DEF IInv, Rows, Attempted, Retries, Counts, Owns, Alone, OwnRow, HasInserted, SubExists
<1>3. Outbox'
  BY DEF IInv, Outbox, OutboxNeverLoses, Dispatched, IsHead
<1>4. Backed'
  BY DEF IInv, Backed, Knows, InvoiceOf, StatusBacked, NotifiedOnlyIfAccepted, RequestsOf
<1> QED BY <1>1, <1>2, <1>3, <1>4 DEF IInv

\* IInv is inductive.
LEMMA Stepwise == IInv /\ [Next]_vars => IInv'
  BY CreateStep, RelaySteps, SubmissionSteps, DecideStep, StatusSteps, CallerSteps,
     Stuttering DEF Next

\* The inductive invariant of the emission pipeline holds in every reachable state.
THEOREM Invariance == Spec => []IInv
  BY Initially, Stepwise, PTL DEF Spec

\* Every table, queue and process keeps to its domain: no job runs past its
\* attempts, no retry numbers a row beyond its place.
THEOREM TypeCorrect == Spec => []TypeOK
<1>1. IInv => TypeOK
  BY DEF IInv
<1> QED BY <1>1, Invariance, PTL

\* The relay never marks the event of an invoice whose job it has not added,
\* whatever dies and whichever relays share a batch (processEvent).
THEOREM OutboxSafe == Spec => []OutboxNeverLoses
<1>1. IInv => OutboxNeverLoses
  BY DEF IInv, Outbox
<1> QED BY <1>1, Invariance, PTL

\* No processor writes accepted or rejected into invoices.status unless DIAN
\* answered so for a request of that invoice.
THEOREM StatusSafe == Spec => []StatusBacked
<1>1. IInv => StatusBacked
  BY DEF IInv, Backed
<1> QED BY <1>1, Invariance, PTL

\* Mail and invoice.accepted are queued only for an invoice whose accepting
\* ApplicationResponse was stored (DianStatusProcessor.process).
THEOREM NoticesSafe == Spec => []NotifiedOnlyIfAccepted
<1>1. IInv => NotifiedOnlyIfAccepted
  BY DEF IInv, Backed
<1> QED BY <1>1, Invariance, PTL

\* No step makes a finished job wait again: the relay finds its jobId known, and
\* a retry request adds the job of a row of its own.
LEMMA FinishedStays ==
  ASSUME IInv, [Next]_vars, NEW u \in SubIds, Finished(job[u])
  PROVE  job'[u].state # "waiting"
<1>1. job \in [SubIds -> Jobs]
  BY DEF IInv, TypeOK, Jobs
<1>2. job[u].state \in {"completed", "failed"} /\ Known(job[u])
  BY DEF Finished, Known
<1>3. ASSUME job' = job PROVE job'[u].state # "waiting"
  BY <1>2, <1>3
<1>4. ASSUME NEW s \in SubIds, NEW pc, Goto(s, pc) PROVE job'[u].state # "waiting"
  <2>1. At(job[s], pc).state = job[s].state
    BY <1>1 DEF At, Jobs, JobRecords
  <2> QED BY <1>1, <1>2, <1>4, <2>1 DEF Goto
\* A step that makes a job wait, or run, or forgets it, finds it unfinished, or
\* leaves it not waiting.
<1>5. ASSUME NEW s \in SubIds, NEW j, job' = [job EXCEPT ![s] = j],
             job[s].state \in {"waiting", "active"} \/ j.state # "waiting"
      PROVE  job'[u].state # "waiting"
  BY <1>1, <1>2, <1>5
<1>6. ASSUME NEW s \in SubIds, SubmissionStep(s) \/ SubmissionCrash(s) \/ Evict(s)
      PROVE  job'[u].state # "waiting"
  <2>1. CASE \/ TakeJob(s) \/ CompleteJob(s) \/ FailJob(s)
    BY <1>5, <2>1 DEF TakeJob, CompleteJob, FailJob, AtPc
  <2>2. CASE SendReceived(s)
    <3>1. \/ Goto(s, "catch")
          \/ \E t \in TrackIds : job' = [job EXCEPT ![s] = [At(job[s], "submitted") EXCEPT !.track = t]]
      BY <2>2 DEF SendReceived, Received
    <3>2. job[s].state = "active"
      BY <2>2 DEF SendReceived, AtPc
    <3> QED BY <1>4, <1>5, <3>1, <3>2
  <2>3. CASE SendRefused(s)
    BY <1>4, <2>3 DEF SendRefused, Received
  <2>4. CASE \/ MarkSubmitting(s) \/ SendFails(s) \/ MarkSubmitted(s) \/ EnqueueStatus(s)
             \/ RefuseSub(s) \/ RefuseInvoice(s) \/ CatchSub(s) \/ SubmissionFault(s)
    BY <1>4, <2>4
       DEF MarkSubmitting, SendFails, MarkSubmitted, EnqueueStatus, RefuseSub,
           RefuseInvoice, CatchSub, SubmissionFault
  <2>5. CASE \/ OnFailedIgnored(s) \/ OnFailedEvent(s) \/ OnFailedDlq(s) \/ OnFailedFault(s)
    BY <1>4, <2>5 DEF OnFailedIgnored, OnFailedEvent, OnFailedDlq, OnFailedFault
  <2>6. CASE SubmissionCrash(s)
    BY <1>4, <1>5, <2>6 DEF SubmissionCrash
  <2>7. CASE Evict(s)
    BY <1>5, <2>7 DEF Evict, RemovedJob, NoJob
  <2> QED BY <1>6, <2>1, <2>2, <2>3, <2>4, <2>5, <2>6, <2>7 DEF SubmissionStep
<1>7. ASSUME NEW r \in Relays,
             RelayStep(r) \/ RelayCrash(r) \/ \E e \in EventIds : RelayFault(r, e)
      PROVE  job'[u].state # "waiting"
  <2>1. CASE \E e \in EventIds : RelayAdd(r, e)
    <3>1. PICK e \in EventIds, s \in SubIds :
            job' = [job EXCEPT ![s] = IF Known(job[s]) THEN job[s] ELSE NewJob(e)]
      BY <2>1 DEF RelayAdd, FirstSubmission
    <3> QED BY <1>1, <1>2, <3>1
  <2>2. CASE ~\E e \in EventIds : RelayAdd(r, e)
    BY <1>3, <1>7, <2>2
       DEF RelayStep, RelayTick, RelaySkip, RelayMark, RelayUnknown, RelayCrash, RelayFault,
           queues
  <2> QED BY <2>1, <2>2
<1>8. ASSUME NEW t \in TrackIds, DianDecide(t) \/ StatusStep(t) \/ StatusCrash(t)
      PROVE  job'[u].state # "waiting"
  <2>1. job' = job
    BY <1>8
       DEF DianDecide, StatusCrash, StatusStep, TakeStatus, GetStatus, GetStatusFails,
           PendingSub, AcceptSub, RejectSub, CatchStatus, WriteSub, AcceptInvoice,
           ParseResponse, RejectInvoice, SavePath, QueueMail, AcceptedHook, RejectedHook,
           Notify, CompleteStatus, StatusFault, FailStatus, queues
  <2> QED BY <1>3, <2>1
<1>9. ASSUME NEW c \in Callers,
             \/ \E i \in Invoices : RetryCheck(c, i)
             \/ \E d \in DlqIds : DlqRead(c, d)
             \/ CallerStep(c) \/ CallerDies(c)
      PROVE  job'[u].state # "waiting"
  <2>1. CASE RetryAdd(c)
    <3>1. OwnRow(c) \in SubIds /\ job[OwnRow(c)].state = "absent"
      BY <2>1 DEF RetryAdd, CallerAt, IInv, Retries, Owns, HasInserted
    <3>2. job' = [job EXCEPT ![OwnRow(c)] = NewJob(0)]
      BY <2>1 DEF RetryAdd, OwnRow
    <3> QED BY <1>1, <1>2, <3>1, <3>2
  <2>2. CASE ~RetryAdd(c)
    <3>1. job' = job
      BY <1>9, <2>2
         DEF RetryCheck, DlqRead, CallerStep, CallerDies, RetryLatest, RetryInsert,
             RetryUpdate, DlqEvent, DlqResolve, queues
    <3> QED BY <1>3, <3>1
  <2> QED BY <2>1, <2>2
<1>10. ASSUME NEW i \in Invoices, CreateInvoice(i) PROVE job'[u].state # "waiting"
  BY <1>3, <1>10 DEF CreateInvoice, queues
<1>11. CASE UNCHANGED vars
  BY <1>3, <1>11 DEF vars, queues
<1> QED BY <1>6, <1>7, <1>8, <1>9, <1>10, <1>11 DEF Next

\* The deterministic jobId: a job that is over is not queued again while Redis
\* remembers it, however stale the batch of a relay.
THEOREM DispatchSafe == Spec => NoSecondDispatch
<1>1. IInv /\ [Next]_vars =>
        [\A s \in SubIds : Finished(job[s]) => job'[s].state # "waiting"]_vars
  BY FinishedStays
<1> QED BY <1>1, Invariance, PTL DEF Spec, NoSecondDispatch

-------------------------------------------------------------------------------

(***************************************************************************)
(* AgreesWithDian: Agreement is inductive on top of IInv.                  *)
(***************************************************************************)

\* The answers DIAN never takes back.
Answered(t) == dian[t].verdict \in {"refused", "accepted", "xmlRejected", "rejected"}
Retrying == {"latest", "insert", "update", "add"}

\* A step that takes no answer of DIAN back, tells a new one only with an invoice
\* that agrees, and takes acceptance from an invoice DIAN refused something of.
Agreeable ==
  /\ \A t \in TrackIds : Answered(t) => dian'[t] = dian[t]
  /\ \A t \in TrackIds :
       Told(t)' => \/ Told(t)
                   \/ /\ dian[t].verdict \in {"accepted", "xmlRejected", "rejected"}
                      /\ dian[t].verdict = "accepted" => invoice'[InvoiceOf(t)] = "accepted"
  /\ \A t \in TrackIds : statusJob'[t].pc = "rejectedHook" => dian[t].verdict = "rejected"
  /\ \A i \in Invoices : invoice[i] = "accepted" => invoice'[i] = "accepted" \/ Refuted(i)
  /\ \A c \in Callers : caller'[c].pc \in Retrying => Refuted(caller'[c].inv)

\* A step that is Agreeable keeps Agreement.
LEMMA AgreementMove ==
  ASSUME IInv, Agreement, Agreeable
  PROVE  Agreement'
<1>1. \A t \in TrackIds : Answered(t) => dian'[t] = dian[t]
  BY DEF Agreeable
<1>2. ASSUME NEW i, Refuted(i) PROVE Refuted(i)'
  BY <1>1, <1>2 DEF Refuted, RequestsOf, Answered
<1>3. ASSUME NEW t \in TrackIds
      PROVE  /\ Told(t)' => dian'[t].verdict \in {"accepted", "xmlRejected", "rejected"}
             /\ statusJob'[t].pc = "rejectedHook" => dian'[t].verdict = "rejected"
             /\ Told(t)' /\ dian'[t].verdict = "accepted" =>
                  Refuted(InvoiceOf(t))' \/ (invoice[InvoiceOf(t)] = "accepted")'
  <2>1. statusJob'[t].pc = "rejectedHook" => Answered(t) /\ dian[t].verdict = "rejected"
    BY DEF Agreeable, Answered
  <2>2. Told(t)' => dian[t].verdict \in {"accepted", "xmlRejected", "rejected"} /\ Answered(t)
    BY DEF Agreeable, Agreement, Answered
  <2>3. ASSUME Told(t)', dian[t].verdict = "accepted"
        PROVE  Refuted(InvoiceOf(t)) \/ invoice'[InvoiceOf(t)] = "accepted"
    <3>1. InvoiceOf(t) \in Invoices
      BY <2>3 DEF IInv, Tracked, InvoiceOf, SubIds
    <3> QED BY <2>3, <3>1 DEF Agreeable, Agreement
  <2>4. Answered(t) => InvoiceOf(t)' = InvoiceOf(t)
    BY <1>1 DEF InvoiceOf
  <2> QED BY <1>1, <1>2, <2>1, <2>2, <2>3, <2>4
<1>4. \A c \in Callers :
        (caller[c].pc \in {"latest", "insert", "update", "add"} => Refuted(caller[c].inv))'
  BY <1>1 DEF Agreeable, Retrying, Refuted, RequestsOf, Answered
<1> QED BY <1>3, <1>4 DEF Agreement

\* A step that leaves invoices, status jobs and retry requests alone.
LEMMA AgreementStays ==
  ASSUME IInv, Agreement, UNCHANGED <<invoice, statusJob, caller>>,
         \A t \in TrackIds : Answered(t) => dian'[t] = dian[t]
  PROVE  Agreement'
<1>1. Agreeable
  BY DEF Agreement, Agreeable, Told, Retrying
<1> QED BY <1>1, AgreementMove

\* The status processor tells what getStatus answered.
LEMMA StatusAgrees ==
  ASSUME IInv, Agreement, NEW t \in TrackIds, StatusStep(t) \/ StatusCrash(t)
  PROVE  Agreement'
<1>1. /\ statusJob \in [TrackIds -> StatusJobs] /\ invoice \in [Invoices -> InvoiceStatuses]
      /\ Knows(t)
  BY DEF IInv, TypeOK, StatusJobs, Backed
<1>2. /\ statusJob[t].state = "active" => Given(t) /\ InvoiceOf(t) \in Invoices
      /\ statusJob[t].pc # "idle" => statusJob[t] # NoJob
  BY DEF IInv, Tracked, NoJob, Given, InvoiceOf, SubIds
<1>3. UNCHANGED <<dian, caller>>
  BY DEF StatusStep, TakeStatus, GetStatus, GetStatusFails, PendingSub, AcceptSub, RejectSub,
         CatchStatus, WriteSub, AcceptInvoice, ParseResponse, RejectInvoice, SavePath,
         QueueMail, AcceptedHook, RejectedHook, Notify, CompleteStatus, StatusFault,
         FailStatus, StatusCrash, processes
\* The status job becomes j, and the invoice has at most the status DIAN gave it.
<1>4. ASSUME NEW j, statusJob' = [statusJob EXCEPT ![t] = j],
             \/ UNCHANGED invoice
             \/ invoice' = [invoice EXCEPT ![InvoiceOf(t)] = "accepted"]
             \/ invoice' = [invoice EXCEPT ![InvoiceOf(t)] = "rejected"] /\ Refuted(InvoiceOf(t)),
             j.pc = "rejectedHook" => dian[t].verdict = "rejected",
             j.state = "completed" \/ j.pc \in {"xml", "path", "mail", "acceptedHook", "done"} =>
               \/ Told(t)
               \/ /\ dian[t].verdict \in {"accepted", "xmlRejected", "rejected"}
                  /\ dian[t].verdict = "accepted" => invoice'[InvoiceOf(t)] = "accepted"
      PROVE  Agreement'
  <2>1. /\ statusJob'[t] = j
        /\ \A u \in TrackIds : u # t => statusJob'[u] = statusJob[u]
    BY <1>1, <1>4
  <2>2. \A u \in TrackIds :
          Told(u)' => \/ Told(u)
                      \/ /\ dian[u].verdict \in {"accepted", "xmlRejected", "rejected"}
                         /\ dian[u].verdict = "accepted" => invoice'[InvoiceOf(u)] = "accepted"
    BY <1>4, <2>1 DEF Told
  <2>3. \A u \in TrackIds : statusJob'[u].pc = "rejectedHook" => dian[u].verdict = "rejected"
    BY <1>4, <2>1 DEF Agreement
  <2>4. \A i \in Invoices : invoice[i] = "accepted" => invoice'[i] = "accepted" \/ Refuted(i)
    BY <1>1, <1>4
  <2>5. Agreeable
    BY <1>3, <2>2, <2>3, <2>4 DEF Agreeable, Agreement, Retrying
  <2> QED BY <2>5, AgreementMove
<1>5. ASSUME NEW pc, StatusGoto(t, pc), UNCHANGED invoice,
             pc \notin {"rejectedHook", "xml", "path", "mail", "acceptedHook", "done"}
      PROVE  Agreement'
  <2>1. /\ At(statusJob[t], pc).pc = pc /\ At(statusJob[t], pc).state = statusJob[t].state
        /\ statusJob' = [statusJob EXCEPT ![t] = At(statusJob[t], pc)]
    BY <1>1, <1>5 DEF StatusGoto, At, StatusJobs, JobRecords
  <2> HIDE DEF At
  <2> QED BY <1>4, <1>5, <2>1 DEF Told
<1>6. ASSUME NEW pc, StatusGoto(t, pc), UNCHANGED invoice, Told(t), pc # "rejectedHook"
      PROVE  Agreement'
  <2>1. /\ At(statusJob[t], pc).pc = pc
        /\ statusJob' = [statusJob EXCEPT ![t] = At(statusJob[t], pc)]
    BY <1>1, <1>6 DEF StatusGoto, At, StatusJobs, JobRecords
  <2> HIDE DEF At
  <2> QED BY <1>4, <1>6, <2>1
<1>7. CASE TakeStatus(t)
  <2>1. /\ Taken(statusJob[t], "query").pc = "query"
        /\ Taken(statusJob[t], "query").state = "active"
    BY <1>1 DEF Taken, StatusJobs, JobRecords
  <2> QED BY <1>4, <1>7, <2>1 DEF TakeStatus, db
<1>8. CASE GetStatus(t) \/ GetStatusFails(t)
  BY <1>5, <1>8 DEF GetStatus, GetStatusFails, db
<1>9. CASE PendingSub(t) \/ AcceptSub(t) \/ RejectSub(t) \/ CatchStatus(t)
  BY <1>5, <1>9 DEF PendingSub, AcceptSub, RejectSub, CatchStatus, WriteSub
<1>10. CASE AcceptInvoice(t)
  <2>1. PICK pc \in {"xml", "done"} : StatusGoto(t, pc)
    BY <1>10 DEF AcceptInvoice
  <2>2. /\ At(statusJob[t], pc).pc = pc
        /\ statusJob' = [statusJob EXCEPT ![t] = At(statusJob[t], pc)]
    BY <1>1, <2>1 DEF StatusGoto, At, StatusJobs, JobRecords
  <2>3. /\ dian[t].verdict \in {"accepted", "xmlRejected"} /\ InvoiceOf(t) \in Invoices
        /\ invoice' = [invoice EXCEPT ![InvoiceOf(t)] = "accepted"]
    BY <1>1, <1>2, <1>10 DEF AcceptInvoice, StatusAt, Knows, SetInvoice
  <2>4. invoice'[InvoiceOf(t)] = "accepted"
    BY <1>1, <2>3
  <2> HIDE DEF At
  <2> QED BY <1>4, <2>1, <2>2, <2>3, <2>4
<1>11. CASE ParseResponse(t) \/ SavePath(t) \/ QueueMail(t) \/ AcceptedHook(t)
  <2>1. Told(t)
    BY <1>11 DEF ParseResponse, SavePath, QueueMail, AcceptedHook, Notify, StatusAt, Told
  <2>2. UNCHANGED invoice /\ \E pc \in {"rejectSub", "path", "mail", "acceptedHook", "done"} : StatusGoto(t, pc)
    BY <1>11 DEF ParseResponse, SavePath, QueueMail, AcceptedHook, Notify, db
  <2> QED BY <1>6, <2>1, <2>2
<1>12. CASE RejectInvoice(t)
  <2>1. PICK pc \in {"done", "rejectedHook"} :
          StatusGoto(t, pc) /\ (pc = "rejectedHook" => dian[t].verdict # "xmlRejected")
    BY <1>12 DEF RejectInvoice
  <2>2. /\ At(statusJob[t], pc).pc = pc
        /\ At(statusJob[t], pc).state = statusJob[t].state
        /\ statusJob' = [statusJob EXCEPT ![t] = At(statusJob[t], pc)]
    BY <1>1, <2>1 DEF StatusGoto, At, StatusJobs, JobRecords
  <2>3. /\ dian[t].verdict \in {"rejected", "xmlRejected"} /\ statusJob[t].state = "active"
        /\ invoice' = [invoice EXCEPT ![InvoiceOf(t)] = "rejected"]
    BY <1>1, <1>12 DEF RejectInvoice, StatusAt, Knows, SetInvoice
  <2>4. Refuted(InvoiceOf(t))
    BY <2>3 DEF Refuted, RequestsOf, InvoiceOf
  <2> HIDE DEF At
  <2> QED BY <1>4, <2>1, <2>2, <2>3, <2>4
<1>13. CASE RejectedHook(t)
  <2>1. dian[t].verdict = "rejected" /\ UNCHANGED invoice /\ StatusGoto(t, "done")
    BY <1>13 DEF RejectedHook, Notify, StatusAt, Agreement, db
  <2>2. /\ At(statusJob[t], "done").pc = "done"
        /\ statusJob' = [statusJob EXCEPT ![t] = At(statusJob[t], "done")]
    BY <1>1, <2>1 DEF StatusGoto, At, StatusJobs, JobRecords
  <2> HIDE DEF At
  <2> QED BY <1>4, <2>1, <2>2
<1>14. CASE CompleteStatus(t)
  <2>1. /\ Told(t) /\ UNCHANGED invoice
        /\ statusJob' = [statusJob EXCEPT ![t] = Completed(statusJob[t])]
    BY <1>14 DEF CompleteStatus, StatusAt, Told, db
  <2>2. Completed(statusJob[t]).pc = "idle"
    BY <1>1 DEF Completed, StatusJobs, JobRecords
  <2> QED BY <1>4, <2>1, <2>2
<1>15. CASE StatusFault(t)
  BY <1>5, <1>15 DEF StatusFault, db
<1>16. CASE FailStatus(t)
  <2>1. LET j == Thrown(statusJob[t], StatusAttempts, "idle")
        IN  j.pc = "idle" /\ j.state \in {"waiting", "failed"}
    BY <1>1 DEF Thrown, StatusJobs, JobRecords
  <2> QED BY <1>4, <1>16, <2>1 DEF FailStatus, db
<1>17. CASE StatusCrash(t)
  <2>1. PICK j \in Stalled(statusJob[t], StatusAttempts, MaxStalled, "idle") :
          statusJob' = [statusJob EXCEPT ![t] = j]
    BY <1>17 DEF StatusCrash
  <2>2. j.pc = "idle" /\ j.state \in {"waiting", "failed"}
    BY <1>1, <2>1 DEF Stalled, StatusJobs, JobRecords
  <2> QED BY <1>4, <1>17, <2>1, <2>2 DEF StatusCrash, db
<1> QED
  BY <1>7, <1>8, <1>9, <1>10, <1>11, <1>12, <1>13, <1>14, <1>15, <1>16, <1>17 DEF StatusStep

\* The submission processor adds status jobs that have told nothing, and rejects
\* an invoice of which DIAN refused a request.
LEMMA SubmissionAgrees ==
  ASSUME IInv, Agreement, NEW s \in SubIds, SubmissionStep(s) \/ SubmissionCrash(s) \/ Evict(s)
  PROVE  Agreement'
<1>1. CASE SendReceived(s) \/ SendRefused(s)
  <2>1. PICK t \in TrackIds, v \in {"undecided", "refused"} :
          FreshSend(t) /\ dian' = [dian EXCEPT ![t] = [sub |-> s, verdict |-> v]]
    BY <1>1 DEF SendReceived, SendRefused, Received
  <2>2. \A u \in TrackIds : Answered(u) => dian'[u] = dian[u]
    BY <2>1 DEF Answered, FreshSend, IInv, TypeOK
  <2> QED BY <1>1, <2>2, AgreementStays DEF SendReceived, SendRefused, db, processes
<1>2. CASE EnqueueStatus(s)
  <2>1. UNCHANGED <<invoice, dian, caller>>
        /\ statusJob' = [statusJob EXCEPT ![job[s].track] = NewJob(0)]
    BY <1>2 DEF EnqueueStatus, db, processes
  <2>2. \A t \in TrackIds : statusJob'[t] = statusJob[t] \/ statusJob'[t] = NewJob(0)
    BY <2>1 DEF IInv, TypeOK
  <2>3. Agreeable
    BY <2>1, <2>2 DEF Agreeable, Agreement, Told, Retrying, NewJob
  <2> QED BY <2>3, AgreementMove
<1>3. CASE RefuseInvoice(s)
  <2>1. /\ invoice' = [invoice EXCEPT ![s[1]] = "rejected"]
        /\ UNCHANGED <<statusJob, dian, caller>> /\ job[s].pc = "refusedInvoice"
    BY <1>3 DEF RefuseInvoice, SetInvoice, AtPc, processes
  <2>2. Refuted(s[1])
    BY <2>1 DEF IInv, Backed, Refuted, RequestsOf
  <2>3. \A i \in Invoices : invoice'[i] = invoice[i] \/ Refuted(i)
    BY <2>1, <2>2 DEF IInv, TypeOK
  <2>4. Agreeable
    BY <2>1, <2>3 DEF Agreeable, Agreement, Told, Retrying
  <2> QED BY <2>4, AgreementMove
<1>4. CASE UNCHANGED <<invoice, statusJob, caller, dian>>
  BY <1>4, AgreementStays
<1> QED
  BY <1>1, <1>2, <1>3, <1>4
     DEF SubmissionStep, TakeJob, MarkSubmitting, SendFails, MarkSubmitted, CompleteJob,
         RefuseSub, CatchSub, SubmissionFault, FailJob, OnFailedIgnored, OnFailedEvent,
         OnFailedDlq, OnFailedFault, SubmissionCrash, Evict, db, processes

\* A retry is let in for a rejected invoice, of which DIAN has refused something.
LEMMA CallerAgrees ==
  ASSUME IInv, Agreement, NEW c \in Callers,
         \/ \E i \in Invoices : RetryCheck(c, i)
         \/ \E d \in DlqIds : DlqRead(c, d)
         \/ CallerStep(c) \/ CallerDies(c)
  PROVE  Agreement'
<1>1. ASSUME NEW v, caller' = [caller EXCEPT ![c] = v], UNCHANGED <<statusJob, dian>>,
             v.pc \in Retrying => Refuted(v.inv),
             \A i \in Invoices : invoice'[i] = invoice[i] \/ Refuted(i)
      PROVE  Agreement'
  <2>1. caller'[c] = v /\ \A d \in Callers : d # c => caller'[d] = caller[d]
    BY <1>1 DEF IInv, TypeOK
  <2>2. Agreeable
    BY <1>1, <2>1 DEF Agreeable, Agreement, Told, Retrying
  <2> QED BY <2>2, AgreementMove
<1>2. ASSUME NEW i \in Invoices, RetryCheck(c, i) PROVE Agreement'
  <2>1. Refuted(i)
    BY <1>2 DEF RetryCheck, IInv, Backed, StatusBacked, Refuted
  <2>2. UNCHANGED <<invoice, statusJob, dian>>
        /\ caller' = [caller EXCEPT ![c] = [pc |-> "latest", inv |-> i, n |-> 0]]
    BY <1>2 DEF RetryCheck, SetCaller, db, queues
  <2> QED BY <1>1, <2>1, <2>2
<1>3. CASE CallerDies(c) \/ RetryAdd(c) \/ DlqResolve(c)
  <2>1. UNCHANGED <<invoice, statusJob, dian>> /\ caller' = [caller EXCEPT ![c] = CallerIdle]
    BY <1>3 DEF CallerDies, RetryAdd, DlqResolve, db, queues
  <2> QED BY <1>1, <2>1 DEF CallerIdle, Retrying
<1>4. CASE DlqEvent(c) \/ \E d \in DlqIds : DlqRead(c, d)
  <2>1. /\ UNCHANGED <<invoice, statusJob, dian>>
        /\ \E p \in {"dlqEvent", "dlqResolve"} : \E i, n :
             caller' = [caller EXCEPT ![c] = [pc |-> p, inv |-> i, n |-> n]]
    BY <1>4 DEF DlqRead, DlqEvent, SetCaller, db, queues
  <2> QED BY <1>1, <2>1 DEF Retrying
<1>5. CASE RetryLatest(c) \/ RetryInsert(c) \/ RetryUpdate(c)
  <2>1. Refuted(caller[c].inv)
    BY <1>5 DEF RetryLatest, RetryInsert, RetryUpdate, CallerAt, Agreement
  <2>2. /\ \E p, n : caller' = [caller EXCEPT ![c] = [pc |-> p, inv |-> caller[c].inv, n |-> n]]
        /\ UNCHANGED <<statusJob, dian>>
        /\ UNCHANGED invoice \/ invoice' = [invoice EXCEPT ![caller[c].inv] = "pending"]
    BY <1>5 DEF RetryLatest, RetryInsert, RetryUpdate, SetCaller, SetInvoice, db, queues
  <2>3. \A i \in Invoices : invoice'[i] = invoice[i] \/ Refuted(i)
    BY <2>1, <2>2 DEF IInv, TypeOK
  <2> QED BY <1>1, <2>1, <2>2, <2>3
<1> QED BY <1>2, <1>3, <1>4, <1>5 DEF CallerStep

\* Agreement is inductive on top of IInv.
LEMMA AgreementHolds == IInv /\ Agreement /\ [Next]_vars => Agreement'
<1> SUFFICES ASSUME IInv, Agreement, [Next]_vars PROVE Agreement'
  OBVIOUS
<1>1. ASSUME NEW i \in Invoices, CreateInvoice(i) PROVE Agreement'
  <2>1. /\ invoice[i] = "absent" /\ UNCHANGED <<statusJob, dian, caller>>
        /\ \E st : invoice' = [invoice EXCEPT ![i] = st]
    BY <1>1 DEF CreateInvoice, SetInvoice, queues, processes
  <2>2. Agreeable
    BY <2>1 DEF Agreeable, Agreement, Told, Retrying, IInv, TypeOK
  <2> QED BY <2>2, AgreementMove
<1>2. ASSUME NEW r \in Relays,
             RelayStep(r) \/ RelayCrash(r) \/ \E e \in EventIds : RelayFault(r, e)
      PROVE  Agreement'
  <2>1. UNCHANGED <<invoice, statusJob, dian, caller>>
    BY <1>2 DEF RelayStep, RelayTick, RelayAdd, RelaySkip, RelayMark, RelayUnknown, RelayCrash,
                RelayFault, db, queues
  <2> QED BY <2>1, AgreementStays
<1>3. ASSUME NEW t \in TrackIds, DianDecide(t) PROVE Agreement'
  <2>1. UNCHANGED <<invoice, statusJob, caller>>
        /\ dian[t].verdict = "undecided" /\ \E v : dian' = [dian EXCEPT ![t].verdict = v]
    BY <1>3 DEF DianDecide, db, queues, processes
  <2>2. \A u \in TrackIds : Answered(u) => dian'[u] = dian[u]
    BY <2>1 DEF Answered, IInv, TypeOK
  <2> QED BY <2>1, <2>2, AgreementStays
<1>4. CASE UNCHANGED vars
  BY <1>4, AgreementStays DEF vars, db, queues, processes
<1> QED BY <1>1, <1>2, <1>3, <1>4, StatusAgrees, SubmissionAgrees, CallerAgrees DEF Next

\* When DIAN accepted every request of an invoice and each one's status job is
\* over, the invoice is accepted (DianStatusProcessor.process, retrySubmission).
THEOREM AgreementSafe == Spec => []AgreesWithDian
<1>1. StoreInit => Agreement
  BY DEF StoreInit, Agreement, Told, NoJob, CallerIdle
<1>2. IInv /\ Agreement => AgreesWithDian
  <2> SUFFICES ASSUME IInv, Agreement, NEW i \in Invoices, RequestsOf(i) # {},
                      \A t \in RequestsOf(i) :
                        dian[t].verdict = "accepted" /\ statusJob[t].state = "completed"
               PROVE  invoice[i] = "accepted"
    BY DEF AgreesWithDian
  <2>1. PICK t \in TrackIds : t \in RequestsOf(i) /\ InvoiceOf(t) = i
    BY DEF RequestsOf, InvoiceOf
  <2>2. ~Refuted(i) /\ Told(t)
    BY <2>1 DEF Refuted, Told
  <2> QED BY <2>1, <2>2 DEF Agreement
<1> QED BY <1>1, <1>2, AgreementHolds, Invariance, PTL DEF Spec

-------------------------------------------------------------------------------

(***************************************************************************)
(* The counts of requests and dead letters: Accounts is inductive on top   *)
(* of IInv.  Cardinalities are moved one element at a time (Sizes).        *)
(***************************************************************************)

\* What one element more or less does to the size of a set.
LEMMA Sizes ==
  ASSUME NEW S, IsFiniteSet(S), NEW A \in SUBSET S, NEW B \in SUBSET S
  PROVE  /\ Cardinality(A) \in Nat /\ Cardinality(B) \in Nat
         /\ A \subseteq B => Cardinality(A) <= Cardinality(B)
         /\ \A x : B \subseteq A \cup {x} => Cardinality(B) <= Cardinality(A) + 1
         /\ \A x \in B \ A : A \subseteq B => Cardinality(A) + 1 <= Cardinality(B)
<1>1. /\ IsFiniteSet(A) /\ IsFiniteSet(B)
      /\ Cardinality(A) \in Nat /\ Cardinality(B) \in Nat
  BY FS_Subset, FS_CardinalityType
<1>2. ASSUME A \subseteq B PROVE Cardinality(A) <= Cardinality(B)
  BY <1>1, <1>2, FS_Subset
<1>3. ASSUME NEW x, B \subseteq A \cup {x} PROVE Cardinality(B) <= Cardinality(A) + 1
  <2>1. /\ IsFiniteSet(A \cup {x})
        /\ Cardinality(A \cup {x}) = Cardinality(A) \/ Cardinality(A \cup {x}) = Cardinality(A) + 1
    BY <1>1, FS_AddElement
  <2>2. B \in SUBSET (A \cup {x})
    BY <1>3
  <2>3. Cardinality(B) <= Cardinality(A \cup {x})
    BY <2>1, <2>2, FS_Subset
  <2> QED BY <1>1, <2>1, <2>3
<1>4. ASSUME NEW x \in B \ A, A \subseteq B PROVE Cardinality(A) + 1 <= Cardinality(B)
  <2>1. IsFiniteSet(A \cup {x}) /\ Cardinality(A \cup {x}) = Cardinality(A) + 1
    BY <1>1, <1>4, FS_AddElement
  <2>2. A \cup {x} \in SUBSET B
    BY <1>4
  <2>3. Cardinality(A \cup {x}) <= Cardinality(B)
    BY <1>1, <2>2, FS_Subset
  <2> QED BY <2>1, <2>3
<1> QED BY <1>1, <1>2, <1>3, <1>4

\* Row ids, TrackIds and the submissions of an invoice are finitely many.
LEMMA FiniteIds ==
  /\ IsFiniteSet(TrackIds) /\ IsFiniteSet(DlqIds)
  /\ \A i \in Invoices : IsFiniteSet(JobsOf(i))
<1>1. IsFiniteSet(TrackIds) /\ IsFiniteSet(DlqIds)
  BY FS_Interval, EmissionAssumption DEF TrackIds, DlqIds
<1>2. ASSUME NEW i \in Invoices PROVE IsFiniteSet(JobsOf(i))
  <2> DEFINE f == [k \in 1..MaxSubs |-> <<i, k>>]
  <2>1. f \in [1..MaxSubs -> JobsOf(i)]
    BY DEF JobsOf, SubIds
  <2>2. \A s \in JobsOf(i) : \E k \in 1..MaxSubs : f[k] = s
    BY DEF JobsOf, SubIds
  <2>3. f \in Surjection(1..MaxSubs, JobsOf(i))
    BY <2>1, <2>2 DEF Surjection
  <2> QED BY <2>3, FS_Interval, FS_Surjection, EmissionAssumption
<1> QED BY <1>1, <1>2

\* What a job has used is within its allowance before it sends once more.
LEMMA Allowances ==
  ASSUME IInv
  PROVE  /\ Allowance \in Nat /\ evictions * Allowance \in Nat
         /\ (evictions + 1) * Allowance = evictions * Allowance + Allowance
         /\ \A s \in SubIds :
              /\ Used(job[s]) \in Nat
              /\ Unsent(job[s]) => Used(job[s]) = job[s].made + job[s].stalls
              /\ job[s].state = "active" => job[s].made + job[s].stalls + 1 <= Allowance
<1>1. Allowance \in Nat /\ evictions \in Nat
  BY EmissionAssumption DEF Allowance, IInv, TypeOK
<1>2. evictions * Allowance \in Nat /\ (evictions + 1) * Allowance = evictions * Allowance + Allowance
  BY <1>1
<1>3. ASSUME NEW s \in SubIds
      PROVE  /\ job[s].made \in 0..Attempts /\ job[s].stalls \in 0..MaxStalled
             /\ job[s].state = "active" => job[s].made < Attempts
  BY DEF IInv, TypeOK, JobRecords, Budgeted, HasAttempts
<1> QED BY <1>1, <1>2, <1>3, EmissionAssumption DEF Used, Allowance

\* The submission job s becomes k, and DIAN receives at most what k counts.
Counting(s, k) ==
  \/ /\ \A t \in TrackIds : dian'[t].sub = dian[t].sub
     /\ Used(job[s]) <= Used(k)
  \/ /\ \E t \in TrackIds : \A u \in TrackIds : u # t => dian'[u] = dian[u]
     /\ \A t \in TrackIds : dian'[t].sub = dian[t].sub \/ dian'[t].sub = s
     /\ Used(job[s]) + 1 <= Used(k) /\ Used(job[s]) + 1 <= Allowance

\* One job moves on and DIAN receives at most what it now counts as used.
LEMMA RequestsCounted ==
  ASSUME IInv, RequestsAreCounted, NEW s \in SubIds, NEW k, job' = [job EXCEPT ![s] = k],
         Used(k) \in Nat, Counting(s, k), UNCHANGED evictions
  PROVE  RequestsAreCounted'
<1> DEFINE Spent == evictions * Allowance
<1>1. /\ Spent \in Nat /\ Allowance \in Nat /\ (evictions + 1) * Allowance = Spent + Allowance
      /\ \A u \in SubIds : Used(job[u]) \in Nat
  BY Allowances
<1>2. job'[s] = k /\ \A u \in SubIds : u # s => job'[u] = job[u]
  BY DEF IInv, TypeOK
<1>3. \A u \in SubIds : /\ Requests(u) \in SUBSET TrackIds /\ Requests(u)' \in SUBSET TrackIds
                        /\ Cardinality(Requests(u)) \in Nat /\ Cardinality(Requests(u)') \in Nat
                        /\ Cardinality(Requests(u)) <= Spent + Used(job[u])
                        /\ Cardinality(Requests(u)) <= Spent + Allowance
  <2>1. \A u \in SubIds : Requests(u) \in SUBSET TrackIds /\ Requests(u)' \in SUBSET TrackIds
    BY DEF Requests, TrackIds
  <2>2. \A u \in SubIds : Cardinality(Requests(u)) \in Nat /\ Cardinality(Requests(u)') \in Nat
    BY <2>1, FiniteIds, Sizes
  <2> HIDE DEF Spent
  <2>3. RequestsAreCounted => \A u \in SubIds : Cardinality(Requests(u)) <= Spent + Used(job[u])
                        /\ Cardinality(Requests(u)) <= Spent + Allowance
    BY <1>1 DEF RequestsAreCounted, Spent
  <2> QED BY <2>1, <2>2, <2>3
<1>4. ASSUME NEW u \in SubIds
      PROVE  /\ Cardinality(Requests(u)') <= Spent + Used(job'[u])
             /\ Cardinality(Requests(u)') <= Spent + Allowance
  <2>1. CASE Requests(u)' \subseteq Requests(u) /\ Used(job[u]) <= Used(job'[u])
    <3>1. Cardinality(Requests(u)') <= Cardinality(Requests(u))
      BY <1>3, <2>1, FiniteIds, Sizes
    <3>2. Used(job[u]) \in Nat /\ Used(job'[u]) \in Nat
      BY <1>1, <1>2
    <3> HIDE DEF Spent
    <3> QED BY <1>1, <1>3, <2>1, <3>1, <3>2
  <2>2. CASE u # s
    <3>1. Requests(u)' \subseteq Requests(u)
      BY <2>2 DEF Counting, Requests, TrackIds
    <3> QED BY <1>1, <1>2, <2>1, <2>2, <3>1
  <2>3. CASE u = s /\ \A t \in TrackIds : dian'[t].sub = dian[t].sub /\ Used(job[s]) <= Used(k)
    <3>1. Requests(u)' \subseteq Requests(u)
      BY <2>3 DEF Requests, TrackIds
    <3>2. Used(job[u]) <= Used(job'[u]) \/ TrackIds = {}
      BY <1>2, <2>3
    <3>3. CASE TrackIds = {}
      BY <1>1, <1>2, <1>3, <2>3, <3>3, FS_EmptySet DEF Counting
    <3> QED BY <2>1, <3>1, <3>2, <3>3
  <2>4. CASE /\ u = s /\ Used(job[s]) + 1 <= Used(k) /\ Used(job[s]) + 1 <= Allowance
             /\ \E t \in TrackIds : \A v \in TrackIds : v # t => dian'[v] = dian[v]
    <3>1. PICK t \in TrackIds : \A v \in TrackIds : v # t => dian'[v] = dian[v]
      BY <2>4
    <3>2. Requests(u)' \subseteq Requests(u) \cup {t}
      BY <3>1 DEF Requests, TrackIds
    <3>3. Cardinality(Requests(u)') <= Cardinality(Requests(u)) + 1
      BY <1>3, <3>2, FiniteIds, Sizes
    <3> HIDE DEF Spent
    <3> QED BY <1>1, <1>2, <1>3, <2>4, <3>3
  <2> QED BY <2>2, <2>3, <2>4 DEF Counting
<1>5. evictions' * Allowance = Spent /\ (evictions' + 1) * Allowance = Spent + Allowance
  BY <1>1
<1> HIDE DEF Spent
<1> QED BY <1>4, <1>5 DEF RequestsAreCounted, Allowance

\* The submission job s becomes k, and no dead letter is written.
LEMMA LettersCounted ==
  ASSUME IInv, Accounts, NEW s \in SubIds, NEW k, job' = [job EXCEPT ![s] = k],
         \A d \in DlqIds : dlq'[d].inv = dlq[d].inv,
         crashes' \in {crashes, crashes + 1}, evictions' \in {evictions, evictions + 1},
         Lettered(job[s]) => Lettered(k) \/ evictions' = evictions + 1,
         Faults \/ (Silent(k) => Silent(job[s]) \/ crashes' = crashes + 1)
  PROVE  \A i \in Invoices :
           /\ Cardinality(LettersOf(i)') <= Cardinality(LetteredOf(i)') + evictions'
           /\ Faults \/ Cardinality(SilentOf(i)') <= Cardinality(LettersOf(i)') + crashes'
<1> TAKE i \in Invoices
<1>1. job'[s] = k /\ \A u \in SubIds : u # s => job'[u] = job[u]
  BY DEF IInv, TypeOK
<1>2. crashes \in Nat /\ evictions \in Nat
  BY DEF IInv, TypeOK
<1>3. LettersOf(i)' = LettersOf(i) /\ Cardinality(LettersOf(i)) \in Nat
  <2>1. LettersOf(i)' = LettersOf(i) /\ LettersOf(i) \in SUBSET DlqIds
    BY DEF LettersOf, DlqIds
  <2> QED BY <2>1, FiniteIds, Sizes
<1>4. /\ LetteredOf(i) \in SUBSET JobsOf(i) /\ LetteredOf(i)' \in SUBSET JobsOf(i)
      /\ SilentOf(i) \in SUBSET JobsOf(i) /\ SilentOf(i)' \in SUBSET JobsOf(i)
  BY DEF LetteredOf, SilentOf, JobsOf, SubIds
<1>5. /\ Cardinality(LetteredOf(i)) \in Nat /\ Cardinality(LetteredOf(i)') \in Nat
      /\ Cardinality(SilentOf(i)) \in Nat /\ Cardinality(SilentOf(i)') \in Nat
  BY <1>4, FiniteIds, Sizes
<1>6. Cardinality(LetteredOf(i)) + evictions <= Cardinality(LetteredOf(i)') + evictions'
  <2>1. CASE Lettered(job[s]) => Lettered(k)
    <3>1. LetteredOf(i) \subseteq LetteredOf(i)'
      BY <1>1, <2>1 DEF LetteredOf, JobsOf, SubIds
    <3> QED BY <1>2, <1>4, <1>5, <3>1, FiniteIds, Sizes
  <2>2. CASE evictions' = evictions + 1
    <3>1. LetteredOf(i) \subseteq LetteredOf(i)' \cup {s}
      BY <1>1 DEF LetteredOf, JobsOf, SubIds
    <3>2. Cardinality(LetteredOf(i)) <= Cardinality(LetteredOf(i)') + 1
      BY <1>4, <3>1, FiniteIds, Sizes
    <3> QED BY <1>2, <1>5, <2>2, <3>2
  <2> QED BY <2>1, <2>2
<1>7. Faults \/ Cardinality(SilentOf(i)') <= Cardinality(SilentOf(i)) + (crashes' - crashes)
  <2>1. CASE Silent(k) => Silent(job[s])
    <3>1. SilentOf(i)' \subseteq SilentOf(i)
      BY <1>1, <2>1 DEF SilentOf, JobsOf, SubIds
    <3> QED BY <1>2, <1>4, <1>5, <3>1, FiniteIds, Sizes
  <2>2. CASE crashes' = crashes + 1
    <3>1. SilentOf(i)' \subseteq SilentOf(i) \cup {s}
      BY <1>1 DEF SilentOf, JobsOf, SubIds
    <3>2. Cardinality(SilentOf(i)') <= Cardinality(SilentOf(i)) + 1
      BY <1>4, <3>1, FiniteIds, Sizes
    <3> QED BY <1>2, <1>5, <2>2, <3>2
  <2> QED BY <2>1, <2>2
<1>8. /\ Cardinality(LettersOf(i)) <= Cardinality(LetteredOf(i)) + evictions
      /\ Faults \/ Cardinality(SilentOf(i)) <= Cardinality(LettersOf(i)) + crashes
  BY DEF Accounts
<1> QED BY <1>2, <1>3, <1>5, <1>6, <1>7, <1>8

\* A step that moves no submission job and writes no row.
LEMMA AccountsStay ==
  ASSUME IInv, Accounts, UNCHANGED <<job, evictions>>,
         \A t \in TrackIds : dian'[t].sub = dian[t].sub,
         \A d \in DlqIds : /\ dlq'[d].inv = dlq[d].inv
                           /\ dlq'[d].status = "absent" => dlq[d].status = "absent",
         crashes' \in {crashes, crashes + 1}
  PROVE  Accounts'
<1>1. \A s \in SubIds : Requests(s)' = Requests(s)
  BY DEF Requests
<1>2. RequestsAreCounted'
  BY <1>1 DEF Accounts, RequestsAreCounted, Allowance
<1>3. ASSUME NEW i \in Invoices
      PROVE  LettersOf(i)' = LettersOf(i) /\ LetteredOf(i)' = LetteredOf(i) /\ SilentOf(i)' = SilentOf(i)
  BY DEF LettersOf, LetteredOf, SilentOf
<1>4. ASSUME NEW i \in Invoices
      PROVE  Cardinality(LettersOf(i)) \in Nat /\ Cardinality(SilentOf(i)) \in Nat
  <2>1. LettersOf(i) \in SUBSET DlqIds /\ SilentOf(i) \in SUBSET JobsOf(i)
    BY DEF LettersOf, SilentOf
  <2> QED BY <2>1, FiniteIds, Sizes
<1>5. crashes \in Nat
  BY DEF IInv, TypeOK
<1>6. ASSUME NEW i \in Invoices
      PROVE  /\ Cardinality(LettersOf(i)') <= Cardinality(LetteredOf(i)') + evictions'
             /\ Faults \/ Cardinality(SilentOf(i)') <= Cardinality(LettersOf(i)') + crashes'
  BY <1>3, <1>4, <1>5 DEF Accounts
<1> QED BY <1>2, <1>6 DEF Accounts

\* The submission job s becomes k, and neither a row nor Redis' memory changes.
LEMMA AccountsMove ==
  ASSUME IInv, IInv', Accounts, NEW s \in SubIds, NEW k, job' = [job EXCEPT ![s] = k],
         Counting(s, k), Placed(k), UNCHANGED <<dlq, evictions>>,
         crashes' \in {crashes, crashes + 1},
         Lettered(job[s]) => Lettered(k),
         Faults \/ (Silent(k) => Silent(job[s]) \/ crashes' = crashes + 1)
  PROVE  Accounts'
<1>1. job'[s] = k /\ \A u \in SubIds : u # s => job'[u] = job[u]
  BY DEF IInv, TypeOK
<1>2. Used(k) \in Nat
  <2>1. k \in JobRecords(SubPcs, Attempts, MaxStalled, TrackIds, EventIds)
    BY <1>1 DEF IInv, TypeOK
  <2> QED BY <2>1, EmissionAssumption DEF JobRecords, Used
<1>3. RequestsAreCounted'
  BY <1>2, RequestsCounted DEF Accounts
<1>4. \A u \in SubIds : Placed(job[u])'
  BY <1>1 DEF Accounts, Placed
<1>5. \A i \in Invoices :
        /\ Cardinality(LettersOf(i)') <= Cardinality(LetteredOf(i)') + evictions'
        /\ Faults \/ Cardinality(SilentOf(i)') <= Cardinality(LettersOf(i)') + crashes'
  BY LettersCounted
<1> QED BY <1>3, <1>4, <1>5 DEF Accounts

\* The submission processor: what an attempt sends, and the row a failure leaves.
LEMMA SubmissionCounts ==
  ASSUME IInv, IInv', Accounts, NEW s \in SubIds, SubmissionStep(s), ~OnFailedDlq(s)
  PROVE  Accounts'
<1> DEFINE j == job[s]
<1>1. /\ j \in Jobs /\ Placed(j) /\ job \in [SubIds -> Jobs]
      /\ j.made \in Nat /\ j.stalls \in Nat /\ Used(j) \in Nat
      /\ Allowance \in Nat
  BY Allowances DEF IInv, TypeOK, Jobs, JobRecords, Accounts
<1>2. UNCHANGED <<crashes, evictions, dlq>> /\ crashes' \in {crashes, crashes + 1}
  BY DEF SubmissionStep, TakeJob, MarkSubmitting, SendReceived, SendRefused, SendFails,
         MarkSubmitted, EnqueueStatus, CompleteJob, RefuseSub, RefuseInvoice, CatchSub,
         SubmissionFault, FailJob, OnFailedIgnored, OnFailedEvent, OnFailedFault,
         budget, db
<1>3. ASSUME NEW k, job' = [job EXCEPT ![s] = k], UNCHANGED dian, Used(j) <= Used(k), Placed(k),
             Lettered(j) => Lettered(k), Faults \/ (Silent(k) => Silent(j))
      PROVE  Accounts'
  <2>1. Counting(s, k)
    BY <1>3 DEF Counting
  <2> QED BY <1>2, <1>3, <2>1, AccountsMove
\* An active job goes on.
<1>4. ASSUME NEW pc, Goto(s, pc), UNCHANGED dian, j.state = "active",
             Unsent(j) \/ pc \notin {"submitting", "send"}
      PROVE  Accounts'
  <2>1. /\ At(j, pc).state = j.state /\ At(j, pc).pc = pc /\ At(j, pc).made = j.made
        /\ At(j, pc).stalls = j.stalls /\ job' = [job EXCEPT ![s] = At(j, pc)]
    BY <1>1, <1>4 DEF Goto, At, Jobs, JobRecords
  <2> HIDE DEF At
  <2>2. Used(j) <= Used(At(j, pc))
    BY <1>1, <1>4, <2>1 DEF Used, Unsent
  <2>3. Placed(At(j, pc)) /\ ~Lettered(j) /\ ~Silent(At(j, pc))
    BY <1>4, <2>1 DEF Placed, Known, Lettered, Silent
  <2> QED BY <1>3, <1>4, <2>1, <2>2, <2>3
\* The "failed" handler goes on.
<1>5. ASSUME NEW pc, Goto(s, pc), UNCHANGED dian, j.state = "failed", j.pc # "idle",
             pc = "onFailedDlq" => j.made >= Attempts,
             Faults \/ (pc = "idle" => j.made < Attempts)
      PROVE  Accounts'
  <2>1. /\ At(j, pc).state = j.state /\ At(j, pc).pc = pc /\ At(j, pc).made = j.made
        /\ At(j, pc).stalls = j.stalls /\ job' = [job EXCEPT ![s] = At(j, pc)]
    BY <1>1, <1>5 DEF Goto, At, Jobs, JobRecords
  <2> HIDE DEF At
  <2>2. Used(j) <= Used(At(j, pc))
    BY <1>1, <1>5, <2>1 DEF Used, Unsent
  <2>3. Placed(At(j, pc)) /\ ~Lettered(j) /\ (Faults \/ (Silent(At(j, pc)) => Silent(j)))
    BY <1>1, <1>5, <2>1 DEF Placed, Known, Lettered, Silent
  <2> QED BY <1>3, <1>5, <2>1, <2>2, <2>3
\* A request: the attempt in hand had not been used.
<1>6. ASSUME NEW verdict \in {"undecided", "refused"}, AtPc(s, "send"), Received(s, verdict)
      PROVE  Accounts'
  <2>1. PICK t \in TrackIds :
          /\ dian' = [dian EXCEPT ![t] = [sub |-> s, verdict |-> verdict]]
          /\ \/ job' = [job EXCEPT ![s] = [At(@, "submitted") EXCEPT !.track = t]]
             \/ Goto(s, "catch") \/ Goto(s, "refused")
    BY <1>6 DEF Received
  <2>2. PICK k : /\ job' = [job EXCEPT ![s] = k]
                 /\ k.state = "active" /\ k.pc \in {"submitted", "catch", "refused"}
                 /\ k.made = j.made /\ k.stalls = j.stalls
    <3>1. CASE job' = [job EXCEPT ![s] = [At(@, "submitted") EXCEPT !.track = t]]
      <4> DEFINE k == [At(j, "submitted") EXCEPT !.track = t]
      <4>1. /\ k.state = j.state /\ k.pc = "submitted" /\ k.made = j.made /\ k.stalls = j.stalls
        BY <1>1 DEF At, Jobs, JobRecords
      <4>2. job' = [job EXCEPT ![s] = k]
        BY <3>1
      <4> HIDE DEF k
      <4> QED BY <1>6, <4>1, <4>2 DEF AtPc
    <3>2. CASE Goto(s, "catch") \/ Goto(s, "refused")
      BY <1>1, <1>6, <3>2 DEF Goto, At, AtPc, Jobs, JobRecords
    <3> QED BY <2>1, <3>1, <3>2
  <2>3. Used(j) + 1 <= Used(k) /\ Used(j) + 1 <= Allowance
    BY <1>1, <1>6, <2>2, Allowances DEF Used, Unsent, AtPc
  <2>4. /\ \A u \in TrackIds : u # t => dian'[u] = dian[u]
        /\ \A u \in TrackIds : dian'[u].sub = dian[u].sub \/ dian'[u].sub = s
    BY <2>1 DEF IInv, TypeOK
  <2>5. Counting(s, k)
    BY <2>3, <2>4 DEF Counting
  <2>6. Placed(k) /\ ~Lettered(j) /\ ~Silent(k)
    BY <1>6, <2>2 DEF Placed, Known, Lettered, Silent, AtPc
  <2> QED BY <1>2, <2>2, <2>5, <2>6, AccountsMove
<1>7. CASE TakeJob(s)
  <2>1. /\ Taken(j, "submitting").state = "active" /\ Taken(j, "submitting").pc = "submitting"
        /\ Taken(j, "submitting").made = j.made /\ Taken(j, "submitting").stalls = j.stalls
    BY <1>1 DEF Taken, Jobs, JobRecords
  <2>2. job' = [job EXCEPT ![s] = Taken(j, "submitting")] /\ j.state = "waiting" /\ UNCHANGED dian
    BY <1>7 DEF TakeJob
  <2> HIDE DEF Taken
  <2>3. Used(j) <= Used(Taken(j, "submitting"))
    BY <1>1, <2>1, <2>2 DEF Used, Unsent
  <2> QED BY <1>3, <2>1, <2>2, <2>3 DEF Placed, Known, Lettered, Silent
<1>8. CASE MarkSubmitting(s)
  BY <1>4, <1>8 DEF MarkSubmitting, AtPc, Unsent
<1>9. CASE SendReceived(s) \/ SendRefused(s)
  BY <1>6, <1>9 DEF SendReceived, SendRefused
<1>10. CASE SendFails(s) \/ MarkSubmitted(s) \/ EnqueueStatus(s) \/ RefuseSub(s)
              \/ RefuseInvoice(s) \/ CatchSub(s)
  <2>1. j.state = "active" /\ UNCHANGED dian
    BY <1>10 DEF SendFails, MarkSubmitted, EnqueueStatus, RefuseSub, RefuseInvoice, CatchSub, AtPc
  <2>2. \E pc \in {"catch", "enqueue", "done", "refusedInvoice", "throw"} : Goto(s, pc)
    BY <1>10 DEF SendFails, MarkSubmitted, EnqueueStatus, RefuseSub, RefuseInvoice, CatchSub
  <2> QED BY <1>4, <2>1, <2>2
<1>11. CASE CompleteJob(s)
  <2>1. /\ Completed(j).state = "completed" /\ Completed(j).pc = "idle"
        /\ Completed(j).made = j.made /\ Completed(j).stalls = j.stalls
    BY <1>1 DEF Completed, Jobs, JobRecords
  <2>2. /\ job' = [job EXCEPT ![s] = Completed(j)]
        /\ j.state = "active" /\ j.pc = "done" /\ UNCHANGED dian
    BY <1>11 DEF CompleteJob, AtPc
  <2> HIDE DEF Completed
  <2>3. Used(j) <= Used(Completed(j))
    BY <1>1, <2>1, <2>2 DEF Used, Unsent
  <2> QED BY <1>3, <2>1, <2>2, <2>3 DEF Placed, Known, Lettered, Silent
<1>12. CASE SubmissionFault(s)
  <2>1. j.state = "active" /\ UNCHANGED dian /\ \E pc \in {"catch", "throw"} : Goto(s, pc)
    BY <1>12 DEF SubmissionFault, AtPc
  <2> QED BY <1>4, <2>1
<1>13. CASE FailJob(s)
  <2> DEFINE k == Thrown(j, Attempts, "onFailed")
  <2>1. /\ k.made = j.made + 1 /\ k.stalls = j.stalls
        /\ \/ k.state = "waiting"
           \/ k.state = "failed" /\ k.pc = "onFailed" /\ ~(j.made + 1 < Attempts)
    BY <1>1 DEF Thrown, Jobs, JobRecords
  <2>2. /\ job' = [job EXCEPT ![s] = k] /\ j.state = "active" /\ j.pc = "throw" /\ UNCHANGED dian
    BY <1>13 DEF FailJob, AtPc
  <2> HIDE DEF k
  <2>3. Used(j) <= Used(k)
    BY <1>1, <2>1, <2>2 DEF Used, Unsent
  <2>4. Placed(k) /\ ~Lettered(j) /\ ~Silent(k)
    BY <1>1, <2>1, <2>2 DEF Placed, Known, Lettered, Silent
  <2> QED BY <1>3, <2>2, <2>3, <2>4
<1>14. CASE OnFailedIgnored(s)
  BY <1>5, <1>14 DEF OnFailedIgnored
<1>15. CASE OnFailedEvent(s)
  BY <1>5, <1>15 DEF OnFailedEvent
<1>16. CASE OnFailedFault(s)
  BY <1>1, <1>5, <1>16 DEF OnFailedFault
<1> QED BY <1>7, <1>8, <1>9, <1>10, <1>11, <1>12, <1>13, <1>14, <1>15, <1>16 DEF SubmissionStep

\* The handler's dead letter: one row for a job that now has it.
LEMMA LetterCounts ==
  ASSUME IInv, Accounts, NEW s \in SubIds, OnFailedDlq(s)
  PROVE  Accounts'
<1> DEFINE k == At(job[s], "idle")
<1>1. /\ job \in [SubIds -> Jobs] /\ job[s] \in Jobs /\ Placed(job[s])
      /\ crashes \in Nat /\ evictions \in Nat
      /\ dlq \in [DlqIds -> [inv: Invoices \cup {NoInvoice}, status: {"absent", "pending", "resolved"}]]
  BY DEF IInv, TypeOK, Accounts, Jobs
<1>2. job[s].state = "failed" /\ job[s].pc = "onFailedDlq" /\ job[s].made >= Attempts
  BY <1>1 DEF OnFailedDlq, Placed
<1>3. /\ k.state = "failed" /\ k.pc = "idle" /\ k.made = job[s].made /\ k.stalls = job[s].stalls
      /\ k \in Jobs
  BY <1>1, <1>2 DEF At, Jobs, JobRecords
<1>4. job' = [job EXCEPT ![s] = k]
  BY DEF OnFailedDlq, Goto
<1> HIDE DEF k
<1>5. job'[s] = k /\ \A u \in SubIds : u # s => job'[u] = job[u]
  BY <1>1, <1>4
<1>6. UNCHANGED <<dian, crashes, evictions>>
  BY DEF OnFailedDlq, budget
<1>7. RequestsAreCounted'
  <2>1. Used(k) \in Nat /\ Used(job[s]) <= Used(k)
    BY <1>1, <1>2, <1>3 DEF Used, Unsent, Jobs, JobRecords
  <2>2. Counting(s, k)
    BY <1>6, <2>1 DEF Counting
  <2> QED BY <1>4, <1>6, <2>1, <2>2, RequestsCounted DEF Accounts
<1>8. \A u \in SubIds : Placed(job'[u])
  BY <1>2, <1>3, <1>5 DEF Accounts, Placed, Known
<1>9. PICK d \in DlqIds :
        /\ dlq[d].inv = NoInvoice
        /\ dlq' = [dlq EXCEPT ![d] = [inv |-> s[1], status |-> "pending"]]
  BY DEF OnFailedDlq, FreshDlq, Accounts
<1>10. /\ dlq'[d].inv = s[1] /\ dlq'[d].status = "pending"
       /\ \A e \in DlqIds : e # d => dlq'[e] = dlq[e]
  BY <1>1, <1>9
<1>11. ASSUME NEW i \in Invoices
       PROVE  /\ Cardinality(LettersOf(i)') <= Cardinality(LetteredOf(i)') + evictions'
              /\ Faults \/ Cardinality(SilentOf(i)') <= Cardinality(LettersOf(i)') + crashes'
  <2>1. /\ LettersOf(i) \in SUBSET DlqIds /\ LettersOf(i)' \in SUBSET DlqIds
        /\ LetteredOf(i) \in SUBSET JobsOf(i) /\ LetteredOf(i)' \in SUBSET JobsOf(i)
        /\ SilentOf(i) \in SUBSET JobsOf(i) /\ SilentOf(i)' \in SUBSET JobsOf(i)
    BY DEF LettersOf, LetteredOf, SilentOf, JobsOf
  <2>2. /\ Cardinality(LettersOf(i)) \in Nat /\ Cardinality(LettersOf(i)') \in Nat
        /\ Cardinality(LetteredOf(i)) \in Nat /\ Cardinality(LetteredOf(i)') \in Nat
        /\ Cardinality(SilentOf(i)) \in Nat /\ Cardinality(SilentOf(i)') \in Nat
    BY <2>1, FiniteIds, Sizes
  <2>3. /\ Cardinality(LettersOf(i)) <= Cardinality(LetteredOf(i)) + evictions
        /\ Faults \/ Cardinality(SilentOf(i)) <= Cardinality(LettersOf(i)) + crashes
    BY DEF Accounts
  <2>4. CASE i = s[1]
    <3>1. s \in JobsOf(i) /\ d \notin LettersOf(i) /\ d \in LettersOf(i)'
      BY <1>9, <1>10, <2>4, EmissionAssumption DEF JobsOf, LettersOf
    <3>2. LettersOf(i)' \subseteq LettersOf(i) \cup {d} /\ LettersOf(i) \subseteq LettersOf(i)'
      BY <1>10, <3>1 DEF LettersOf
    <3>3. /\ Cardinality(LettersOf(i)') <= Cardinality(LettersOf(i)) + 1
          /\ Cardinality(LettersOf(i)) + 1 <= Cardinality(LettersOf(i)')
      BY <2>1, <3>1, <3>2, FiniteIds, Sizes
    <3>4. s \in LetteredOf(i)' \ LetteredOf(i) /\ LetteredOf(i) \subseteq LetteredOf(i)'
      BY <1>2, <1>3, <1>5, <3>1 DEF LetteredOf, Lettered, JobsOf
    <3>5. Cardinality(LetteredOf(i)) + 1 <= Cardinality(LetteredOf(i)')
      BY <2>1, <3>4, FiniteIds, Sizes
    <3>6. SilentOf(i)' \subseteq SilentOf(i) \cup {s}
      BY <1>5 DEF SilentOf, JobsOf
    <3>7. Cardinality(SilentOf(i)') <= Cardinality(SilentOf(i)) + 1
      BY <2>1, <3>6, FiniteIds, Sizes
    <3> QED BY <1>1, <1>6, <2>2, <2>3, <3>3, <3>5, <3>7
  <2>5. CASE i # s[1]
    <3>1. LettersOf(i)' = LettersOf(i)
      <4>1. dlq[d].inv # i /\ dlq'[d].inv # i
        BY <1>9, <1>10, <2>5, EmissionAssumption
      <4> QED BY <1>10, <4>1 DEF LettersOf
    <3>2. s \notin JobsOf(i)
      BY <2>5 DEF JobsOf
    <3>3. LetteredOf(i)' = LetteredOf(i) /\ SilentOf(i)' = SilentOf(i)
      BY <1>5, <3>2 DEF LetteredOf, SilentOf, JobsOf
    <3> QED BY <1>6, <2>3, <3>1, <3>3
  <2> QED BY <2>4, <2>5
<1>12. \A e \in DlqIds : dlq'[e].status = "absent" => dlq'[e].inv = NoInvoice
  BY <1>10 DEF Accounts
<1> QED BY <1>7, <1>8, <1>11, <1>12 DEF Accounts

\* A worker that dies: an attempt more, a stall more, or a handler that is lost.
LEMMA CrashCounts ==
  ASSUME IInv, IInv', Accounts, NEW s \in SubIds, SubmissionCrash(s)
  PROVE  Accounts'
<1>1. /\ job[s] \in Jobs /\ job[s].made \in Nat /\ job[s].stalls \in Nat
  BY DEF IInv, TypeOK, Jobs, JobRecords
<1>2. UNCHANGED <<dian, dlq, evictions>> /\ crashes' = crashes + 1
  BY DEF SubmissionCrash, db
<1>3. ASSUME NEW k, job' = [job EXCEPT ![s] = k], Used(job[s]) <= Used(k), Placed(k),
             Lettered(job[s]) => Lettered(k)
      PROVE  Accounts'
  <2>1. Counting(s, k)
    BY <1>2, <1>3 DEF Counting
  <2> QED BY <1>2, <1>3, <2>1, AccountsMove
<1>4. ASSUME NEW k \in Stalled(job[s], Attempts, MaxStalled, "onFailed"), job[s].state = "active",
             job' = [job EXCEPT ![s] = k]
      PROVE  Accounts'
  <2>1. \/ k.state = "waiting" /\ k.made = job[s].made /\ k.stalls = job[s].stalls + 1
        \/ /\ k.state = "failed" /\ k.pc = "onFailed" /\ k.stalls = job[s].stalls
           /\ k.made \in {job[s].made, job[s].made + 1}
    BY <1>1, <1>4 DEF Stalled, Jobs, JobRecords
  <2>2. Used(job[s]) <= Used(k)
    BY <1>1, <1>4, <2>1 DEF Used, Unsent
  <2>3. Placed(k) /\ ~Lettered(job[s])
    BY <1>4, <2>1 DEF Placed, Known, Lettered
  <2> QED BY <1>3, <1>4, <2>2, <2>3
<1>5. ASSUME Goto(s, "idle"), job[s].state = "failed", job[s].pc # "idle"
      PROVE  Accounts'
  <2> DEFINE k == At(job[s], "idle")
  <2>1. /\ k.state = "failed" /\ k.pc = "idle" /\ k.made = job[s].made /\ k.stalls = job[s].stalls
        /\ job' = [job EXCEPT ![s] = k]
    BY <1>1, <1>5 DEF Goto, At, Jobs, JobRecords
  <2> HIDE DEF k
  <2>2. Used(job[s]) <= Used(k)
    BY <1>1, <1>5, <2>1 DEF Used, Unsent
  <2>3. Placed(k) /\ ~Lettered(job[s])
    BY <1>5, <2>1 DEF Placed, Known, Lettered
  <2> QED BY <1>3, <2>1, <2>2, <2>3
<1> QED BY <1>4, <1>5 DEF SubmissionCrash

\* Redis forgets a job: its letters stay, and its id has a whole allowance again.
LEMMA EvictCounts ==
  ASSUME IInv, IInv', Accounts, NEW s \in SubIds, Evict(s)
  PROVE  Accounts'
<1>1. /\ job \in [SubIds -> Jobs] /\ evictions \in Nat /\ evictions' = evictions + 1
      /\ job' = [job EXCEPT ![s] = RemovedJob] /\ UNCHANGED <<dian, dlq, crashes>>
  BY DEF IInv, TypeOK, Jobs, Evict, db
<1>2. job'[s] = RemovedJob /\ \A u \in SubIds : u # s => job'[u] = job[u]
  BY <1>1
<1>3. RequestsAreCounted'
  <2>1. /\ Allowance \in Nat /\ (evictions + 1) * Allowance \in Nat
        /\ evictions' * Allowance = (evictions + 1) * Allowance
        /\ (evictions' + 1) * Allowance = (evictions + 1) * Allowance + Allowance
    <3>1. Allowance \in Nat /\ evictions + 1 \in Nat
      BY <1>1, Allowances
    <3> HIDE DEF Allowance
    <3> QED BY <1>1, <3>1
  <2>2. \A u \in SubIds : Used(job'[u]) \in Nat
    BY DEF IInv, TypeOK, JobRecords, Used
  <2>3. \A u \in SubIds : /\ Requests(u)' = Requests(u)
                          /\ Cardinality(Requests(u)) <= (evictions + 1) * Allowance
                          /\ Cardinality(Requests(u)) \in Nat
    <3>1. \A u \in SubIds : Requests(u)' = Requests(u) /\ Requests(u) \in SUBSET TrackIds
      BY <1>1 DEF Requests
    <3>2. \A u \in SubIds : Cardinality(Requests(u)) \in Nat
      BY <3>1, FiniteIds, Sizes
    <3> QED BY <3>1, <3>2 DEF Accounts, RequestsAreCounted
  <2>4. Allowance' = Allowance
    BY DEF Allowance
  <2> HIDE DEF Allowance
  <2>5. \A u \in SubIds : /\ Cardinality(Requests(u)') <= evictions' * Allowance + Used(job'[u])
                          /\ Cardinality(Requests(u)') <= (evictions' + 1) * Allowance
    BY <2>1, <2>2, <2>3
  <2> QED BY <2>4, <2>5 DEF RequestsAreCounted
<1>4. Placed(RemovedJob) /\ ~Silent(RemovedJob)
  BY DEF RemovedJob, NoJob, Placed, Known, Silent
<1>5. \A u \in SubIds : Placed(job[u])'
  BY <1>2, <1>4 DEF Accounts, Placed
<1>6. \A i \in Invoices :
        /\ Cardinality(LettersOf(i)') <= Cardinality(LetteredOf(i)') + evictions'
        /\ Faults \/ Cardinality(SilentOf(i)') <= Cardinality(LettersOf(i)') + crashes'
  BY <1>1, <1>4, LettersCounted
<1> QED BY <1>1, <1>3, <1>5, <1>6 DEF Accounts

\* A job that is added: it has used nothing, and nor had the one it takes the place of.
LEMMA AddCounts ==
  ASSUME IInv, IInv', Accounts, NEW s \in SubIds, NEW e, ~Known(job[s]),
         job' = [job EXCEPT ![s] = NewJob(e)], UNCHANGED <<dian, dlq, budget>>
  PROVE  Accounts'
<1>1. /\ NewJob(e).state = "waiting" /\ NewJob(e).made = 0 /\ NewJob(e).stalls = 0
  BY DEF NewJob
<1>2. job[s].made = 0 /\ job[s].stalls = 0 /\ job[s].state \in {"absent", "removed"}
  BY DEF Accounts, Placed, Known
<1>3. Used(job[s]) = 0 /\ Used(NewJob(e)) = 0
  BY <1>1, <1>2 DEF Used, Unsent
<1>4. Counting(s, NewJob(e))
  BY <1>3 DEF Counting
<1>5. Placed(NewJob(e)) /\ ~Lettered(job[s]) /\ ~Silent(NewJob(e))
  BY <1>1, <1>2 DEF Placed, Known, Lettered, Silent
<1> QED BY <1>4, <1>5, AccountsMove DEF budget

\* The relay adds a job only under an id that Redis does not hold.
LEMMA RelayCounts ==
  ASSUME IInv, IInv', Accounts, NEW r \in Relays,
         RelayStep(r) \/ RelayCrash(r) \/ \E e \in EventIds : RelayFault(r, e)
  PROVE  Accounts'
<1>1. ASSUME NEW e \in EventIds, RelayAdd(r, e) PROVE Accounts'
  <2>1. PICK s \in SubIds : job' = [job EXCEPT ![s] = IF Known(@) THEN @ ELSE NewJob(e)]
    BY <1>1 DEF RelayAdd, FirstSubmission
  <2>2. UNCHANGED <<dian, dlq, budget>>
    BY <1>1 DEF RelayAdd, db
  <2>3. CASE Known(job[s])
    <3>1. UNCHANGED job
      BY <2>1, <2>3 DEF IInv, TypeOK
    <3> QED BY <2>2, <3>1, AccountsStay DEF budget
  <2>4. CASE ~Known(job[s])
    BY <2>1, <2>2, <2>4, AddCounts
  <2> QED BY <2>3, <2>4
<1>2. ASSUME \A e \in EventIds : ~RelayAdd(r, e) PROVE Accounts'
  <2>1. UNCHANGED <<job, dian, dlq, evictions>> /\ crashes' \in {crashes, crashes + 1}
    BY <1>2 DEF RelayStep, RelayTick, RelaySkip, RelayMark, RelayUnknown, RelayFault, RelayCrash,
            db, queues, budget
  <2> QED BY <2>1, AccountsStay
<1> QED BY <1>1, <1>2

\* retrySubmission adds a job of its own row; retryDlqItem leaves each row its invoice.
LEMMA CallerCounts ==
  ASSUME IInv, IInv', Accounts, NEW c \in Callers,
         \/ \E i \in Invoices : RetryCheck(c, i)
         \/ \E d \in DlqIds : DlqRead(c, d)
         \/ CallerStep(c) \/ CallerDies(c)
  PROVE  Accounts'
<1>1. CASE RetryAdd(c)
  <2>1. OwnRow(c) \in SubIds /\ job[OwnRow(c)].state = "absent"
    BY <1>1 DEF IInv, Retries, Owns, HasInserted, RetryAdd, CallerAt
  <2>2. job' = [job EXCEPT ![OwnRow(c)] = NewJob(0)] /\ UNCHANGED <<dian, dlq, budget>>
    BY <1>1 DEF RetryAdd, OwnRow, db
  <2>3. ~Known(job[OwnRow(c)])
    BY <2>1 DEF Known
  <2> QED BY <2>1, <2>2, <2>3, AddCounts
<1>2. CASE DlqResolve(c)
  <2>1. UNCHANGED <<job, dian, crashes, evictions>>
    BY <1>2 DEF DlqResolve, queues, budget
  <2>2. dlq' = [dlq EXCEPT ![caller[c].n].status = "resolved"]
    BY <1>2 DEF DlqResolve
  <2>3. \A d \in DlqIds : /\ dlq'[d].inv = dlq[d].inv
                          /\ dlq'[d].status = "absent" => dlq[d].status = "absent"
    BY <2>2 DEF IInv, TypeOK
  <2> QED BY <2>1, <2>3, AccountsStay
<1>3. CASE ~RetryAdd(c) /\ ~DlqResolve(c)
  <2>1. UNCHANGED <<job, dian, dlq, evictions>> /\ crashes' \in {crashes, crashes + 1}
    BY <1>3 DEF RetryCheck, DlqRead, CallerStep, RetryLatest, RetryInsert, RetryUpdate,
            DlqEvent, CallerDies, db, queues, budget
  <2> QED BY <2>1, AccountsStay
<1> QED BY <1>1, <1>2, <1>3

\* Accounts is inductive on top of IInv.
LEMMA AccountsHold == IInv /\ IInv' /\ Accounts /\ [Next]_vars => Accounts'
<1> SUFFICES ASSUME IInv, IInv', Accounts, [Next]_vars PROVE Accounts'
  OBVIOUS
<1>1. CASE UNCHANGED vars
  BY <1>1, AccountsStay DEF vars, db, queues, budget
<1>2. CASE \E i \in Invoices : CreateInvoice(i)
  BY <1>2, AccountsStay DEF CreateInvoice, queues, budget
<1>3. CASE \E r \in Relays : RelayStep(r) \/ RelayCrash(r) \/ \E e \in EventIds : RelayFault(r, e)
  BY <1>3, RelayCounts
<1>4. CASE \E s \in SubIds : SubmissionStep(s) \/ SubmissionCrash(s) \/ Evict(s)
  BY <1>4, SubmissionCounts, LetterCounts, CrashCounts, EvictCounts
<1>5. ASSUME NEW t \in TrackIds, DianDecide(t) PROVE Accounts'
  <2>1. UNCHANGED <<job, dlq, crashes, evictions>>
    BY <1>5 DEF DianDecide, db, queues, budget
  <2>2. \A u \in TrackIds : dian'[u].sub = dian[u].sub
    BY <1>5 DEF DianDecide, IInv, TypeOK
  <2> QED BY <2>1, <2>2, AccountsStay
<1>6. ASSUME NEW t \in TrackIds, StatusStep(t) \/ StatusCrash(t) PROVE Accounts'
  <2>1. UNCHANGED <<job, dlq, dian, evictions>> /\ crashes' \in {crashes, crashes + 1}
    BY <1>6 DEF StatusStep, TakeStatus, GetStatus, GetStatusFails, PendingSub, AcceptSub,
            RejectSub, CatchStatus, WriteSub, AcceptInvoice, ParseResponse, RejectInvoice,
            SavePath, QueueMail, AcceptedHook, RejectedHook, Notify, CompleteStatus,
            StatusFault, FailStatus, StatusCrash, processes, db, budget
  <2> QED BY <2>1, AccountsStay
<1>7. CASE \E c \in Callers :
             \/ \E i \in Invoices : RetryCheck(c, i)
             \/ \E d \in DlqIds : DlqRead(c, d)
             \/ CallerStep(c) \/ CallerDies(c)
  BY <1>7, CallerCounts
<1> QED BY <1>1, <1>2, <1>3, <1>4, <1>5, <1>6, <1>7 DEF Next

\* Nothing sent, no letter, nothing failed.
LEMMA AccountsStart == StoreInit => Accounts
<1> SUFFICES ASSUME StoreInit PROVE Accounts
  OBVIOUS
<1>1. \A s \in SubIds : job[s] = NoJob
  BY DEF StoreInit
<1>2. ASSUME NEW s \in SubIds PROVE Requests(s) = {} /\ Used(job[s]) = 0 /\ Placed(job[s])
  <2>1. Requests(s) = {}
    BY EmissionAssumption DEF StoreInit, Requests, NoSend, SubIds
  <2> QED BY <1>1, <2>1 DEF Used, Unsent, NoJob, Placed, Known
<1>3. ASSUME NEW i \in Invoices PROVE LettersOf(i) = {} /\ LetteredOf(i) = {} /\ SilentOf(i) = {}
  <2>1. LettersOf(i) = {}
    BY EmissionAssumption DEF StoreInit, NoDlq, LettersOf
  <2>2. LetteredOf(i) = {} /\ SilentOf(i) = {}
    BY <1>1 DEF LetteredOf, SilentOf, JobsOf, Lettered, Silent, NoJob
  <2> QED BY <2>1, <2>2
<1>4. Cardinality({}) = 0 /\ evictions = 0 /\ crashes = 0 /\ Allowance \in Nat
  BY FS_EmptySet, EmissionAssumption DEF StoreInit, Allowance
<1>5. RequestsAreCounted
  <2>1. evictions * Allowance = 0 /\ (evictions + 1) * Allowance = Allowance
    BY <1>4
  <2> HIDE DEF Allowance
  <2>2. \A s \in SubIds : /\ Cardinality(Requests(s)) = 0 /\ Used(job[s]) = 0
    BY <1>2, <1>4
  <2> QED BY <1>4, <2>1, <2>2 DEF RequestsAreCounted
<1>6. \A d \in DlqIds : dlq[d].inv = NoInvoice
  BY DEF StoreInit, NoDlq
<1>7. \A i \in Invoices :
        /\ Cardinality(LettersOf(i)) <= Cardinality(LetteredOf(i)) + evictions
        /\ Faults \/ Cardinality(SilentOf(i)) <= Cardinality(LettersOf(i)) + crashes
  BY <1>3, <1>4
<1> QED BY <1>2, <1>5, <1>6, <1>7 DEF Accounts

\* The counts hold in every reachable state.
LEMMA Counted == Spec => []Accounts
<1>1. IInv /\ Accounts /\ [Next]_vars => Accounts'
  BY AccountsHold, Stepwise
<1> QED BY <1>1, AccountsStart, Invariance, PTL DEF Spec

\* What DIAN receives of a document is bounded by the attempts and stalls of its job,
\* for as long as Redis remembers the job, and by that many times the jobs it forgot:
\* dian-submission.processor.ts under BullMQ's retries, crashes and lost answers.
THEOREM CountSafe == Spec => []RequestsAreCounted
<1>1. Accounts => RequestsAreCounted
  BY DEF Accounts
<1> QED BY <1>1, Counted, PTL

\* onFailed writes a dead letter for a job that used up its attempts, and one for each.
THEOREM DlqSafe == Spec => []DlqOnlyAfterExhaustion
<1>1. ASSUME IInv, Accounts PROVE DlqOnlyAfterExhaustion
  <2> SUFFICES ASSUME NEW i \in Invoices
               PROVE  Cardinality(LettersOf(i))
                        <= Cardinality({s \in JobsOf(i) : job[s].state = "failed" /\ job[s].made >= Attempts})
                             + evictions
    BY DEF DlqOnlyAfterExhaustion
  <2> DEFINE E == {s \in JobsOf(i) : job[s].state = "failed" /\ job[s].made >= Attempts}
  <2>1. LetteredOf(i) \subseteq E /\ LetteredOf(i) \in SUBSET JobsOf(i) /\ E \in SUBSET JobsOf(i)
    BY DEF LetteredOf, Lettered
  <2>2. Cardinality(LetteredOf(i)) <= Cardinality(E)
    BY <2>1, FiniteIds, Sizes
  <2>3. Cardinality(LettersOf(i)) <= Cardinality(LetteredOf(i)) + evictions
    BY <1>1 DEF Accounts
  <2>4. /\ Cardinality(LettersOf(i)) \in Nat /\ Cardinality(LetteredOf(i)) \in Nat
        /\ Cardinality(E) \in Nat /\ evictions \in Nat
    <3>1. LettersOf(i) \in SUBSET DlqIds
      BY DEF LettersOf
    <3>2. evictions \in Nat
      BY <1>1 DEF IInv, TypeOK
    <3> HIDE DEF E
    <3> QED BY <2>1, <3>1, <3>2, FiniteIds, Sizes
  <2> HIDE DEF E
  <2>5. Cardinality(LettersOf(i)) <= Cardinality(E) + evictions
    BY <2>2, <2>3, <2>4
  <2> QED BY <2>5 DEF E
<1> QED BY <1>1, Invariance, Counted, PTL

\* While the database answers, a job that failed for good has its dian_dlq row, except
\* for one row at most for each worker that died: onFailed is the only writer.
THEOREM LossSafe == Spec => []PermanentFailureReachesDlq
<1>1. ASSUME IInv, Accounts PROVE PermanentFailureReachesDlq
  <2> SUFFICES ASSUME ~Faults, NEW i \in Invoices
               PROVE  Cardinality({s \in JobsOf(i) : job[s].state = "failed" /\ job[s].pc = "idle"})
                        <= Cardinality(LettersOf(i)) + crashes
    BY DEF PermanentFailureReachesDlq
  <2> DEFINE F == {s \in JobsOf(i) : job[s].state = "failed" /\ job[s].pc = "idle"}
  <2>1. F \subseteq SilentOf(i) /\ SilentOf(i) \in SUBSET JobsOf(i) /\ F \in SUBSET JobsOf(i)
    BY DEF SilentOf, Silent
  <2>2. Cardinality(F) <= Cardinality(SilentOf(i))
    BY <2>1, FiniteIds, Sizes
  <2>3. Cardinality(SilentOf(i)) <= Cardinality(LettersOf(i)) + crashes
    BY <1>1 DEF Accounts
  <2>4. /\ Cardinality(LettersOf(i)) \in Nat /\ Cardinality(SilentOf(i)) \in Nat
        /\ Cardinality(F) \in Nat /\ crashes \in Nat
    <3>1. LettersOf(i) \in SUBSET DlqIds
      BY DEF LettersOf
    <3>2. crashes \in Nat
      BY <1>1 DEF IInv, TypeOK
    <3> HIDE DEF F
    <3> QED BY <2>1, <3>1, <3>2, FiniteIds, Sizes
  <2> HIDE DEF F
  <2>5. Cardinality(F) <= Cardinality(LettersOf(i)) + crashes
    BY <2>2, <2>3, <2>4
  <2> QED BY <2>5 DEF F
<1> QED BY <1>1, Invariance, Counted, PTL

-------------------------------------------------------------------------------

(***************************************************************************)
(* The refinement: Course is inductive on top of IInv and Agreement, and   *)
(* with them every step is one of Delivery or a stutter.  One lemma for    *)
(* each part of the mapping that a step can move, then one per actor.      *)
(***************************************************************************)

\* A step that starts no invoice's rows or events but its own, loses no job, and
\* runs and sends what was dispatched.
Orderly ==
  /\ \A i \in Invoices : invoice'[i] = "absent" =>
       /\ invoice[i] = "absent"
       /\ \A k \in 1..MaxSubs : sub'[<<i, k>>].status # "absent" => SubExists(<<i, k>>)
       /\ \A e \in EventIds : event'[e].inv = i /\ event'[e].type = "INVOICE_CREATED" =>
            event[e].inv = i /\ IsCreation(e)
  /\ \A s \in SubIds :
       /\ job[s].state # "absent" => job'[s].state # "absent"
       /\ job'[s].state # "absent" => job[s].state # "absent" \/ s[2] = 1 \/ Sent(s[1])
  /\ \A t \in TrackIds : dian'[t].verdict # "none" =>
       \/ dian[t].verdict # "none" /\ dian'[t].sub = dian[t].sub
       \/ dian'[t].sub \in SubIds /\ Sent(dian'[t].sub[1])

LEMMA CourseMove ==
  ASSUME IInv, Course, Orderly
  PROVE  Course'
<1>1. \A i \in Invoices : <<i, 1>> \in SubIds
  BY EmissionAssumption DEF SubIds
<1>2. \A i \in Invoices : Sent(i) => Sent(i)'
  BY <1>1 DEF Orderly, Sent
<1>3. ASSUME NEW i \in Invoices, invoice'[i] = "absent"
      PROVE  /\ \A k \in 1..MaxSubs : ~(SubExists(<<i, k>>)')
             /\ \A e \in EventIds : (event[e].inv = i => ~IsCreation(e))'
  BY <1>3 DEF Orderly, Course, SubExists, IsCreation
<1>4. ASSUME NEW s \in SubIds, job'[s].state # "absent" PROVE Sent(s[1])'
  <2>1. s[1] \in Invoices /\ s = <<s[1], s[2]>>
    BY DEF SubIds
  <2>2. CASE s[2] = 1
    BY <1>4, <2>1, <2>2 DEF Sent
  <2>3. CASE s[2] # 1
    BY <1>2, <1>4, <2>1, <2>3 DEF Orderly, Course
  <2> QED BY <2>2, <2>3
<1>5. ASSUME NEW t \in TrackIds, dian'[t].verdict # "none" PROVE Sent(InvoiceOf(t))'
  <2>1. CASE dian[t].verdict # "none" /\ dian'[t].sub = dian[t].sub
    <3>1. InvoiceOf(t) \in Invoices /\ Sent(InvoiceOf(t))
      BY <2>1 DEF Course, IInv, Tracked, InvoiceOf, SubIds
    <3>2. InvoiceOf(t)' = InvoiceOf(t)
      BY <2>1 DEF InvoiceOf
    <3>3. Sent(InvoiceOf(t))'
      BY <1>1, <3>1, <3>2 DEF Orderly, Sent
    <3> QED BY <3>3
  <2>2. CASE dian'[t].sub \in SubIds /\ Sent(dian'[t].sub[1])
    <3>1. dian'[t].sub[1] \in Invoices
      BY <2>2 DEF SubIds
    <3> QED BY <1>1, <2>2, <3>1 DEF Orderly, Sent, InvoiceOf
  <2> QED BY <1>5, <2>1, <2>2 DEF Orderly
<1> QED BY <1>3, <1>4, <1>5 DEF Course

\* What a step makes of the dispatch of a job.
Moves(j, k) ==
  \/ WorkOf(k) = WorkOf(j)
  \/ WorkOf(j) = "running" /\ WorkOf(k) = "over"
  \/ WorkOf(j) = "over" /\ WorkOf(k) = "forgotten"

\* What a worker, its death and the retention make of a job.
LEMMA JobMoves ==
  ASSUME IInv, NEW s \in SubIds, SubmissionStep(s) \/ SubmissionCrash(s) \/ Evict(s)
  PROVE  /\ job[s].state # "absent"
         /\ \E k : /\ job' = [job EXCEPT ![s] = k] /\ k.state # "absent" /\ Moves(job[s], k)
                   /\ SendReceived(s) \/ SendRefused(s) \/ RefuseInvoice(s) \/ OnFailedEvent(s)
                        => WorkOf(k) = WorkOf(job[s])
<1>1. job \in [SubIds -> Jobs] /\ job[s] \in Jobs
  BY DEF IInv, TypeOK, Jobs
<1>2. job[s].state # "absent"
  BY DEF AtPc, Finished, SubmissionStep, TakeJob, MarkSubmitting, SendReceived, SendRefused,
         SendFails, MarkSubmitted, EnqueueStatus, CompleteJob, RefuseSub, RefuseInvoice,
         CatchSub, SubmissionFault, FailJob, OnFailedIgnored, OnFailedEvent, OnFailedDlq,
         OnFailedFault, SubmissionCrash, Evict
<1>3. ASSUME NEW pc, NEW j \in Jobs
      PROVE  WorkOf(At(j, pc)) = WorkOf(j) /\ At(j, pc).state = j.state
  BY DEF At, WorkOf, Finished, Jobs, JobRecords
<1>4. ASSUME NEW k, job' = [job EXCEPT ![s] = k], k.state # "absent", WorkOf(k) = WorkOf(job[s])
      PROVE  \E l : /\ job' = [job EXCEPT ![s] = l] /\ l.state # "absent" /\ Moves(job[s], l)
                    /\ WorkOf(l) = WorkOf(job[s])
  BY <1>4 DEF Moves
<1>5. ASSUME NEW pc, Goto(s, pc)
      PROVE  \E l : /\ job' = [job EXCEPT ![s] = l] /\ l.state # "absent" /\ Moves(job[s], l)
                    /\ WorkOf(l) = WorkOf(job[s])
  <2>1. job' = [job EXCEPT ![s] = At(job[s], pc)]
    BY <1>1, <1>5 DEF Goto
  <2> HIDE DEF At
  <2> QED BY <1>1, <1>2, <1>3, <1>4, <2>1
<1>6. CASE \E pc : Goto(s, pc)
  BY <1>2, <1>5, <1>6
<1>7. CASE SendReceived(s) \/ SendRefused(s)
  <2>1. CASE \E pc : Goto(s, pc)
    BY <1>6, <2>1
  <2>2. CASE ~ \E pc : Goto(s, pc)
    <3>1. PICK t \in TrackIds : job' = [job EXCEPT ![s] = [At(job[s], "submitted") EXCEPT !.track = t]]
      BY <1>1, <1>7, <2>2 DEF SendReceived, SendRefused, Received
    <3>2. LET k == [At(job[s], "submitted") EXCEPT !.track = t]
          IN  k.state # "absent" /\ WorkOf(k) = WorkOf(job[s])
      BY <1>1, <1>2 DEF At, WorkOf, Finished, Jobs, JobRecords
    <3> QED BY <1>2, <1>4, <3>1, <3>2
  <2> QED BY <2>1, <2>2
<1>8. CASE TakeJob(s)
  <2>1. WorkOf(Taken(job[s], "submitting")) = WorkOf(job[s]) /\ Taken(job[s], "submitting").state # "absent"
    BY <1>1, <1>8 DEF TakeJob, Taken, WorkOf, Finished, Jobs, JobRecords
  <2> QED BY <1>2, <1>4, <1>8, <2>1 DEF TakeJob
<1>9. ASSUME NEW k, job' = [job EXCEPT ![s] = k], job[s].state = "active",
             k.state \in {"waiting", "completed", "failed"},
             ~SendReceived(s), ~SendRefused(s), ~RefuseInvoice(s), ~OnFailedEvent(s)
      PROVE  \E l : /\ job' = [job EXCEPT ![s] = l] /\ l.state # "absent" /\ Moves(job[s], l)
                    /\ SendReceived(s) \/ SendRefused(s) \/ RefuseInvoice(s) \/ OnFailedEvent(s)
                         => WorkOf(l) = WorkOf(job[s])
  BY <1>9 DEF Moves, WorkOf, Finished
<1>10. CASE CompleteJob(s) \/ FailJob(s)
  <2>1. Completed(job[s]).state = "completed"
    BY <1>1 DEF Completed, Jobs, JobRecords
  <2>2. Thrown(job[s], Attempts, "onFailed").state \in {"waiting", "failed"}
    BY <1>1 DEF Thrown, Jobs, JobRecords
  <2>3. CASE \E pc : Goto(s, pc)
    BY <1>6, <2>3
  <2>4. CASE ~ \E pc : Goto(s, pc)
    <3>1. ~SendReceived(s) /\ ~SendRefused(s)
      BY <1>10 DEF CompleteJob, FailJob, SendReceived, SendRefused, AtPc
    <3>2. ~RefuseInvoice(s) /\ ~OnFailedEvent(s)
      BY <2>4 DEF RefuseInvoice, OnFailedEvent
    <3>3. CASE CompleteJob(s)
      BY <1>2, <1>9, <2>1, <3>1, <3>2, <3>3 DEF CompleteJob, AtPc
    <3>4. CASE FailJob(s)
      BY <1>2, <1>9, <2>2, <3>1, <3>2, <3>4 DEF FailJob, AtPc
    <3> QED BY <1>10, <3>3, <3>4
  <2> QED BY <2>3, <2>4
<1>11. CASE SubmissionCrash(s)
  <2>1. crashes' # crashes
    BY <1>11 DEF SubmissionCrash, IInv, TypeOK
  <2>2. ~SendReceived(s) /\ ~SendRefused(s) /\ ~RefuseInvoice(s) /\ ~OnFailedEvent(s)
    BY <2>1 DEF SendReceived, SendRefused, RefuseInvoice, OnFailedEvent, budget
  <2>3. CASE \E pc : Goto(s, pc)
    BY <1>6, <2>3
  <2>4. CASE job[s].state = "active" /\ \E j \in Stalled(job[s], Attempts, MaxStalled, "onFailed") :
                                          job' = [job EXCEPT ![s] = j]
    <3>1. \A j \in Stalled(job[s], Attempts, MaxStalled, "onFailed") : j.state \in {"waiting", "failed"}
      BY <1>1 DEF Stalled, Jobs, JobRecords
    <3> QED BY <1>2, <1>9, <2>2, <2>4, <3>1
  <2> QED BY <1>11, <2>3, <2>4 DEF SubmissionCrash
<1>12. CASE Evict(s)
  <2>1. evictions' # evictions
    BY <1>12 DEF Evict, IInv, TypeOK
  <2>2. ~SendReceived(s) /\ ~SendRefused(s) /\ ~RefuseInvoice(s) /\ ~OnFailedEvent(s)
    BY <2>1 DEF SendReceived, SendRefused, RefuseInvoice, OnFailedEvent, budget
  <2>3. /\ job' = [job EXCEPT ![s] = RemovedJob] /\ RemovedJob.state = "removed"
        /\ Finished(job[s])
    BY <1>12 DEF Evict, RemovedJob, NoJob
  <2>4. Moves(job[s], RemovedJob)
    BY <2>3 DEF Moves, WorkOf, Finished
  <2> QED BY <1>2, <2>2, <2>3, <2>4
<1> QED
  BY <1>6, <1>7, <1>8, <1>10, <1>11, <1>12
     DEF SubmissionStep, MarkSubmitting, SendFails, MarkSubmitted, EnqueueStatus, RefuseSub,
         RefuseInvoice, CatchSub, SubmissionFault, OnFailedIgnored, OnFailedEvent, OnFailedDlq,
         OnFailedFault

\* Every step of DianSubmissionProcessor, its crash and the retention keep Course.
LEMMA SubmissionCourse ==
  ASSUME IInv, Course, NEW s \in SubIds, SubmissionStep(s) \/ SubmissionCrash(s) \/ Evict(s)
  PROVE  Course'
<1>1. PICK k : job' = [job EXCEPT ![s] = k] /\ k.state # "absent" /\ job[s].state # "absent"
  BY JobMoves
<1>2. \A u \in SubIds : job'[u].state # "absent" <=> job[u].state # "absent"
  BY <1>1 DEF IInv, TypeOK
<1>3. Sent(s[1]) /\ s[1] \in Invoices
  BY <1>1 DEF Course, SubIds
<1>4. ASSUME UNCHANGED invoice \/ invoice' = [invoice EXCEPT ![s[1]] = "rejected"],
             \A u \in SubIds : sub'[u].status # "absent" => SubExists(u),
             \A e \in EventIds : event'[e].inv = event[e].inv /\ event'[e].type = event[e].type,
             \A t \in TrackIds : dian'[t] = dian[t] \/ dian'[t].sub = s
      PROVE  Course'
  <2>1. \A i \in Invoices : invoice'[i] = "absent" => invoice[i] = "absent"
    BY <1>4 DEF IInv, TypeOK
  <2>2. Orderly
    BY <1>2, <1>3, <1>4, <2>1 DEF Orderly, IsCreation, SubIds
  <2> QED BY <2>2, CourseMove
<1>5. SubExists(s)
  BY <1>1 DEF IInv, Rows
<1>6. ASSUME NEW st \in SubStatuses \ {"absent"}, SetSub(s, st)
      PROVE  \A u \in SubIds : sub'[u].status # "absent" => SubExists(u)
  BY <1>5, <1>6, StatusWritten DEF SameRows
<1>7. CASE SendReceived(s) \/ SendRefused(s)
  <2>1. PICK t \in TrackIds, v \in {"undecided", "refused"} :
          dian' = [dian EXCEPT ![t] = [sub |-> s, verdict |-> v]]
    BY <1>7 DEF SendReceived, SendRefused, Received
  <2>2. UNCHANGED db
    BY <1>7 DEF SendReceived, SendRefused
  <2> QED BY <1>4, <2>1, <2>2 DEF db, SubExists, IInv, TypeOK
<1>8. CASE RefuseInvoice(s)
  BY <1>4, <1>8 DEF RefuseInvoice, SetInvoice, SubExists
<1>9. CASE OnFailedEvent(s)
  <2>1. /\ UNCHANGED <<invoice, sub, dian>>
        /\ UNCHANGED event \/ event' = [event EXCEPT ![job[s].event].status = "failed"]
    BY <1>9 DEF OnFailedEvent
  <2>2. \A e \in EventIds : event'[e].inv = event[e].inv /\ event'[e].type = event[e].type
    BY <2>1 DEF IInv, TypeOK
  <2> QED BY <1>4, <2>1, <2>2 DEF SubExists
<1>10. CASE MarkSubmitting(s) \/ MarkSubmitted(s) \/ RefuseSub(s) \/ CatchSub(s)
  BY <1>4, <1>6, <1>10
     DEF MarkSubmitting, MarkSubmitted, RefuseSub, CatchSub, SubStatuses
<1>11. CASE UNCHANGED <<invoice, sub, event, dian>>
  BY <1>4, <1>11 DEF SubExists
<1> QED
  BY <1>7, <1>8, <1>9, <1>10, <1>11
     DEF SubmissionStep, TakeJob, SendFails, EnqueueStatus, CompleteJob, SubmissionFault,
         FailJob, OnFailedIgnored, OnFailedDlq, OnFailedFault, SubmissionCrash, Evict, db

\* DIAN and the status processor keep Course.
LEMMA StatusCourse ==
  ASSUME IInv, Course, NEW t \in TrackIds, DianDecide(t) \/ StatusStep(t) \/ StatusCrash(t)
  PROVE  Course'
<1>1. UNCHANGED <<event, job>>
  BY DEF DianDecide, StatusStep, TakeStatus, GetStatus, GetStatusFails, PendingSub, AcceptSub,
         RejectSub, CatchStatus, WriteSub, AcceptInvoice, ParseResponse, RejectInvoice,
         SavePath, QueueMail, AcceptedHook, RejectedHook, Notify, CompleteStatus,
         StatusFault, FailStatus, StatusCrash, db, queues
<1>2. ASSUME UNCHANGED invoice \/ \E st \in {"accepted", "rejected"} : SetInvoice(InvoiceOf(t), st),
             \A u \in SubIds : sub'[u].status # "absent" => SubExists(u),
             \A u \in TrackIds : dian'[u].sub = dian[u].sub
                                   /\ (dian'[u].verdict # "none" => dian[u].verdict # "none")
      PROVE  Course'
  <2>1. \A i \in Invoices : invoice'[i] = "absent" => invoice[i] = "absent"
    BY <1>2 DEF IInv, TypeOK, SetInvoice
  <2>2. Orderly
    BY <1>1, <1>2, <2>1 DEF Orderly, IsCreation, SubIds
  <2> QED BY <2>2, CourseMove
<1>3. CASE DianDecide(t)
  <2>1. /\ UNCHANGED <<invoice, sub>> /\ dian[t].verdict = "undecided"
        /\ \E v : dian' = [dian EXCEPT ![t].verdict = v]
    BY <1>3 DEF DianDecide, db
  <2> QED BY <1>2, <2>1 DEF SubExists, IInv, TypeOK
<1>4. CASE UNCHANGED <<sub, dian>>
           /\ (UNCHANGED invoice \/ \E st \in {"accepted", "rejected"} : SetInvoice(InvoiceOf(t), st))
  BY <1>2, <1>4 DEF SubExists
<1>5. CASE PendingSub(t) \/ AcceptSub(t) \/ RejectSub(t) \/ CatchStatus(t)
  <2>1. /\ statusJob[t].state = "active" /\ UNCHANGED <<invoice, dian>>
        /\ \E st \in SubStatuses \ {"absent"} : SetSub(dian[t].sub, st)
    BY <1>5 DEF PendingSub, AcceptSub, RejectSub, CatchStatus, WriteSub, StatusAt, SubOf, SubStatuses
  <2>2. dian[t].sub \in SubIds /\ SubExists(dian[t].sub)
    BY <2>1 DEF IInv, Tracked, Given, Rows, NoJob
  <2>3. SameRows /\ UNCHANGED <<invoice, dian>>
    BY <2>1, <2>2, StatusWritten
  <2> QED BY <1>2, <2>3 DEF SameRows
<1> QED
  BY <1>3, <1>4, <1>5
     DEF StatusStep, TakeStatus, GetStatus, GetStatusFails, AcceptInvoice, ParseResponse,
         RejectInvoice, SavePath, QueueMail, AcceptedHook, RejectedHook, Notify,
         CompleteStatus, StatusFault, FailStatus, StatusCrash, db, processes

\* The relay adds the job of a first submission and nothing else.
LEMMA RelayCourse ==
  ASSUME IInv, Course, NEW r \in Relays,
         RelayStep(r) \/ RelayCrash(r) \/ \E e \in EventIds : RelayFault(r, e)
  PROVE  Course'
<1>1. UNCHANGED <<invoice, sub, dian>>
  BY DEF RelayStep, RelayTick, RelayAdd, RelaySkip, RelayMark, RelayUnknown, RelayCrash,
         RelayFault, db, queues
<1>2. \A e \in EventIds : event'[e].inv = event[e].inv /\ event'[e].type = event[e].type
  <2>1. UNCHANGED event \/ \E e \in EventIds : \E st : event' = [event EXCEPT ![e].status = st]
    BY DEF RelayStep, RelayTick, RelayAdd, RelaySkip, RelayMark, RelayUnknown, RelayCrash,
           RelayFault, db
  <2> QED BY <2>1 DEF IInv, TypeOK
<1>3. ASSUME \A s \in SubIds : /\ job[s].state # "absent" => job'[s].state # "absent"
                               /\ job'[s].state # "absent" => job[s].state # "absent" \/ s[2] = 1
      PROVE  Course'
  <2>1. Orderly
    BY <1>1, <1>2, <1>3 DEF Orderly, SubExists, IsCreation, Course, SubIds, InvoiceOf,
                            IInv, Tracked
  <2> QED BY <2>1, CourseMove
<1>4. ASSUME NEW e \in EventIds, RelayAdd(r, e) PROVE Course'
  <2>1. PICK s \in FirstSubmission(event[e].inv) :
          job' = [job EXCEPT ![s] = IF Known(job[s]) THEN job[s] ELSE NewJob(e)]
    BY <1>4 DEF RelayAdd
  <2>2. s \in SubIds /\ s[2] = 1
    BY EmissionAssumption DEF FirstSubmission, IInv, Rows, Attempted, SubIds
  <2>3. job'[s].state # "absent" /\ \A u \in SubIds : u # s => job'[u] = job[u]
    BY <2>1, <2>2 DEF IInv, TypeOK, NewJob, Known
  <2> QED BY <1>3, <2>2, <2>3
<1>5. CASE UNCHANGED job
  BY <1>3, <1>5
<1> QED
  BY <1>4, <1>5 DEF RelayStep, RelayTick, RelaySkip, RelayMark, RelayUnknown, RelayCrash,
                    RelayFault, queues

\* A retry inserts a row of an invoice that has one, and the job it adds is of an
\* invoice DIAN has answered about.
LEMMA CallerCourse ==
  ASSUME IInv, Agreement, Course, NEW c \in Callers,
         \/ \E i \in Invoices : RetryCheck(c, i)
         \/ \E d \in DlqIds : DlqRead(c, d)
         \/ CallerStep(c) \/ CallerDies(c)
  PROVE  Course'
<1> DEFINE i == caller[c].inv
           n == caller[c].n
<1>1. UNCHANGED dian
  BY DEF CallerStep, RetryCheck, RetryLatest, RetryInsert, RetryUpdate, RetryAdd, DlqRead,
         DlqEvent, DlqResolve, CallerDies
<1>2. ASSUME UNCHANGED <<sub, event, job>>,
             \A v \in Invoices : invoice'[v] = "absent" => invoice[v] = "absent"
      PROVE  Course'
  <2>1. Orderly
    BY <1>1, <1>2 DEF Orderly, SubExists, IsCreation, Course, SubIds, InvoiceOf, IInv, Tracked
  <2> QED BY <2>1, CourseMove
<1>3. CASE RetryInsert(c)
  <2>1. UNCHANGED <<invoice, event, job>>
    BY <1>3 DEF RetryInsert, queues
  <2>2. /\ i \in Invoices
        /\ \E k \in 1..MaxSubs : \E r : sub' = [sub EXCEPT ![<<i, k>>] = r]
        /\ \E m \in 1..MaxSubs : SubExists(<<i, m>>)
    BY <1>3 DEF RetryInsert, CallerAt, IInv, Retries, Counts
  <2>3. invoice[i] # "absent"
    BY <2>2 DEF Course
  <2>4. \A v \in Invoices : v # i => \A k \in 1..MaxSubs : sub'[<<v, k>>] = sub[<<v, k>>]
    BY <2>2 DEF IInv, TypeOK, SubIds
  <2>5. Orderly
    BY <1>1, <2>1, <2>3, <2>4 DEF Orderly, SubExists, IsCreation, Course, SubIds, InvoiceOf,
                                  IInv, Tracked
  <2> QED BY <2>5, CourseMove
<1>4. CASE RetryUpdate(c)
  <2>1. UNCHANGED <<sub, event, job>> /\ invoice' = [invoice EXCEPT ![i] = "pending"]
    BY <1>4 DEF RetryUpdate, SetInvoice, queues
  <2> QED BY <1>2, <2>1 DEF IInv, TypeOK
<1>5. CASE RetryAdd(c)
  <2>1. /\ UNCHANGED <<invoice, sub, event>> /\ job' = [job EXCEPT ![<<i, n>>] = NewJob(0)]
        /\ <<i, n>> \in SubIds /\ Refuted(i)
    BY <1>5 DEF RetryAdd, CallerAt, db, Agreement, IInv, Retries, Owns, HasInserted, OwnRow
  <2>2. Sent(i)
    BY <2>1 DEF Refuted, RequestsOf, Course, InvoiceOf
  <2>3. /\ job'[<<i, n>>].state = "waiting"
        /\ \A u \in SubIds : u # <<i, n>> => job'[u] = job[u]
    BY <2>1 DEF IInv, TypeOK, NewJob
  <2>4. \A u \in SubIds :
          /\ job[u].state # "absent" => job'[u].state # "absent"
          /\ job'[u].state # "absent" => job[u].state # "absent" \/ Sent(u[1])
    BY <2>2, <2>3
  <2>5. Orderly
    BY <1>1, <2>1, <2>4 DEF Orderly, SubExists, IsCreation
  <2> QED BY <2>5, CourseMove
<1>6. CASE DlqEvent(c)
  <2>1. /\ UNCHANGED <<invoice, sub, job>>
        /\ \E e \in EventIds : \E v :
             event' = [event EXCEPT ![e] = [inv |-> v, type |-> "invoice.created", status |-> "pending"]]
    BY <1>6 DEF DlqEvent, InsertEvent, queues
  <2>2. \A e \in EventIds : event'[e] = event[e] \/ event'[e].type = "invoice.created"
    BY <2>1 DEF IInv, TypeOK
  <2>3. Orderly
    BY <1>1, <2>1, <2>2 DEF Orderly, SubExists, IsCreation
  <2> QED BY <2>3, CourseMove
<1> QED
  BY <1>2, <1>3, <1>4, <1>5, <1>6
     DEF CallerStep, RetryCheck, RetryLatest, DlqRead, DlqResolve, CallerDies, db, queues

\* create commits the rows and the event of an invoice that was not there.
LEMMA CreateCourse ==
  ASSUME IInv, Course, NEW i \in Invoices, CreateInvoice(i)
  PROVE  Course'
<1>1. /\ UNCHANGED <<job, dian>>
      /\ \E st \in {"queued", "draft"} : invoice' = [invoice EXCEPT ![i] = st]
      /\ UNCHANGED sub \/ \E r : sub' = [sub EXCEPT ![<<i, 1>>] = r]
      /\ \E e \in EventIds : \E ty :
           event' = [event EXCEPT ![e] = [inv |-> i, type |-> ty, status |-> "pending"]]
  BY DEF CreateInvoice, SetInvoice, InsertEvent, queues
<1>2. invoice'[i] # "absent" /\ \A v \in Invoices : v # i => invoice'[v] = invoice[v]
  BY <1>1 DEF IInv, TypeOK
<1>3. \A v \in Invoices : v # i => \A k \in 1..MaxSubs : sub'[<<v, k>>] = sub[<<v, k>>]
  BY <1>1 DEF IInv, TypeOK, SubIds
<1>4. \A e \in EventIds : event'[e] = event[e] \/ event'[e].inv = i
  BY <1>1 DEF IInv, TypeOK
<1>5. Orderly
  BY <1>1, <1>2, <1>3, <1>4 DEF Orderly, SubExists, IsCreation
<1> QED BY <1>5, CourseMove

\* Course is inductive on top of IInv and Agreement.
LEMMA CourseHolds == IInv /\ Agreement /\ Course /\ [Next]_vars => Course'
<1> SUFFICES ASSUME IInv, Agreement, Course, [Next]_vars PROVE Course'
  OBVIOUS
<1>1. CASE UNCHANGED vars
  <2>1. Orderly
    BY <1>1 DEF vars, db, queues, Orderly, SubExists, IsCreation
  <2> QED BY <2>1, CourseMove
<1> QED
  BY <1>1, CreateCourse, RelayCourse, SubmissionCourse, StatusCourse, CallerCourse DEF Next

LEMMA CourseStarts == StoreInit => Course
  BY EmissionAssumption
     DEF StoreInit, Course, NoSub, NoEvent, NoJob, NoSend, SubExists, SubIds

\* A step of Delivery or a stutter.
Delivers == DeliveryOf!Next \/ UNCHANGED <<Owed, Work, Ruling, Standing, notified>>

\* The mapping reads each of its parts from one variable.
LEMMA Unmoved ==
  /\ UNCHANGED event => UNCHANGED Owed
  /\ UNCHANGED job => UNCHANGED Work
  /\ UNCHANGED dian => UNCHANGED Ruling
  /\ UNCHANGED invoice => UNCHANGED Standing
<1>1. UNCHANGED event => UNCHANGED Owed
  BY DEF Owed, PendingEvents, IsCreation
<1>2. UNCHANGED job => UNCHANGED Work
  BY DEF Work
<1>3. UNCHANGED dian => UNCHANGED Ruling
  BY DEF Ruling, RequestsOf, Ruled
<1>4. UNCHANGED invoice => UNCHANGED Standing
  BY DEF Standing
<1> QED BY <1>1, <1>2, <1>3, <1>4

\* The dispatch of an invoice moves with the job of its first submission.
LEMMA WorkMoves ==
  ASSUME IInv, NEW s \in SubIds, NEW k, job' = [job EXCEPT ![s] = k]
  PROVE  /\ s[1] \in Invoices /\ Work \in [Invoices -> {"none", "running", "over", "forgotten"}]
         /\ WorkOf(k) = WorkOf(job[s]) => UNCHANGED Work
         /\ s[2] # 1 => UNCHANGED Work
         /\ s[2] = 1 => /\ Work[s[1]] = WorkOf(job[s])
                        /\ Work' = [Work EXCEPT ![s[1]] = WorkOf(k)]
<1>1. PICK a \in Invoices, n \in 1..MaxSubs : s = <<a, n>>
  BY DEF SubIds
<1>2. s[1] = a /\ s[2] = n /\ \A i \in Invoices : <<i, 1>> \in SubIds
  BY <1>1, EmissionAssumption DEF SubIds
<1>3. job'[<<a, n>>] = k /\ \A u \in SubIds : u # <<a, n>> => job'[u] = job[u]
  BY <1>1 DEF IInv, TypeOK
<1>4. Work \in [Invoices -> {"none", "running", "over", "forgotten"}]
  BY DEF Work, WorkOf
<1> HIDE DEF WorkOf
<1>5. WorkOf(k) = WorkOf(job[s]) => UNCHANGED Work
  <2> SUFFICES ASSUME WorkOf(k) = WorkOf(job[s])
               PROVE  \A i \in Invoices : WorkOf(job'[<<i, 1>>]) = WorkOf(job[<<i, 1>>])
    BY DEF Work
  <2> QED BY <1>1, <1>2, <1>3
<1>6. n # 1 => UNCHANGED Work
  BY <1>2, <1>3 DEF Work
<1>7. ASSUME n = 1
      PROVE  Work[a] = WorkOf(job[s]) /\ Work' = [Work EXCEPT ![a] = WorkOf(k)]
  <2>1. \A i \in Invoices :
          job'[<<i, 1>>] = IF i = a THEN k ELSE job[<<i, 1>>]
    BY <1>2, <1>3, <1>7
  <2>2. /\ Work = [i \in Invoices |-> WorkOf(job[<<i, 1>>])]
        /\ Work' = [i \in Invoices |-> WorkOf(job'[<<i, 1>>])]
    BY DEF Work
  <2>3. Work' = [i \in Invoices |-> IF i = a THEN WorkOf(k) ELSE WorkOf(job[<<i, 1>>])]
    BY <2>1, <2>2
  <2>4. Work[a] = WorkOf(job[s])
    BY <1>1, <1>7, <2>2
  <2> QED BY <2>2, <2>3, <2>4
<1> QED BY <1>2, <1>4, <1>5, <1>6, <1>7

\* A job moves and nothing else that the mapping reads.
LEMMA WorkDelivers ==
  ASSUME IInv, NEW s \in SubIds, NEW k, job' = [job EXCEPT ![s] = k],
         UNCHANGED <<event, dian, invoice, notified>>,
         \/ s[2] # 1
         \/ Moves(job[s], k)
         \/ /\ WorkOf(job[s]) \in {"none", "forgotten"} /\ WorkOf(k) = "running"
            /\ WorkOf(job[s]) = "none" => s[1] \in Owed
  PROVE  Delivers
<1>1. UNCHANGED <<Owed, Ruling, Standing, notified>>
  BY Unmoved
<1>2. CASE UNCHANGED Work
  BY <1>1, <1>2 DEF Delivers
<1>3. CASE s[2] = 1 /\ WorkOf(k) # WorkOf(job[s])
  <2>1. /\ s[1] \in Invoices /\ Work[s[1]] = WorkOf(job[s])
        /\ Work' = [Work EXCEPT ![s[1]] = WorkOf(k)]
    BY <1>3, WorkMoves
  <2>2. CASE WorkOf(job[s]) = "running" /\ WorkOf(k) = "over"
    <3>1. DeliveryOf!End(s[1])
      BY <1>1, <2>1, <2>2 DEF DeliveryOf!End
    <3> QED BY <2>1, <3>1 DEF DeliveryOf!Next, Delivers
  <2>3. CASE WorkOf(job[s]) = "over" /\ WorkOf(k) = "forgotten"
    <3>1. DeliveryOf!Forget(s[1])
      BY <1>1, <2>1, <2>3 DEF DeliveryOf!Forget
    <3> QED BY <2>1, <3>1 DEF DeliveryOf!Next, Delivers
  <2>4. CASE /\ WorkOf(job[s]) \in {"none", "forgotten"} /\ WorkOf(k) = "running"
             /\ WorkOf(job[s]) = "none" => s[1] \in Owed
    <3>1. DeliveryOf!Start(s[1])
      BY <1>1, <2>1, <2>4 DEF DeliveryOf!Start
    <3> QED BY <2>1, <3>1 DEF DeliveryOf!Next, Delivers
  <2> QED BY <1>3, <2>2, <2>3, <2>4 DEF Moves
<1> QED BY <1>2, <1>3, WorkMoves

\* An event is settled once the job of its invoice is there.
LEMMA EventDelivers ==
  ASSUME IInv, NEW e \in EventIds, event[e].status # "absent", Dispatched(e),
         NEW st \in {"processed", "failed"}, event' = [event EXCEPT ![e].status = st],
         UNCHANGED <<Work, dian, invoice, notified>>
  PROVE  Delivers
<1> DEFINE i == event[e].inv
<1>1. i \in Invoices /\ Work[i] # "none"
  BY DEF IInv, Outbox, Dispatched, Work, WorkOf, Finished
<1>2. UNCHANGED <<Ruling, Standing, notified>>
  BY Unmoved
<1>3. /\ event'[e].status # "pending"
      /\ \A f \in EventIds : f # e => event'[f] = event[f]
      /\ \A f \in EventIds : event'[f].inv = event[f].inv /\ event'[f].type = event[f].type
  BY DEF IInv, TypeOK
<1>4. \A j \in Invoices : j \in Owed' => j \in Owed
  BY <1>3 DEF Owed, PendingEvents, IsCreation
<1>5. \A j \in Invoices : j \in Owed /\ j # i => j \in Owed'
  BY <1>3 DEF Owed, PendingEvents, IsCreation
<1>6. Owed \subseteq Invoices /\ Owed' \subseteq Invoices
  BY DEF Owed
<1>7. CASE i \in Owed'
  <2>1. Owed' = Owed
    BY <1>4, <1>5, <1>6, <1>7
  <2> QED BY <1>2, <2>1 DEF Delivers
<1>8. CASE i \notin Owed'
  <2>1. Owed' = Owed \ {i}
    BY <1>4, <1>5, <1>6, <1>8
  <2>2. DeliveryOf!Release(i)
    BY <1>1, <1>2, <2>1 DEF DeliveryOf!Release
  <2> QED BY <1>1, <2>2 DEF DeliveryOf!Next, Delivers
<1> QED BY <1>7, <1>8

\* DIAN rules of a request, or receives one it has yet to rule of.
LEMMA RulingDelivers ==
  ASSUME IInv, NEW t \in TrackIds, ~Ruled(t), NEW r, dian' = [dian EXCEPT ![t] = r],
         r.sub \in SubIds, Sent(r.sub[1]), r.verdict \in Verdicts \ {"none"},
         UNCHANGED <<event, Work, invoice, notified>>
  PROVE  Delivers
<1> DEFINE i == r.sub[1]
           v == RulingOf(r.verdict)
<1>1. i \in Invoices /\ Work[i] # "none"
  BY DEF Sent, Work, WorkOf, SubIds, Finished
<1>2. UNCHANGED <<Owed, Standing, notified>>
  BY Unmoved
<1>3. dian'[t] = r /\ \A u \in TrackIds : u # t => dian'[u] = dian[u]
  BY DEF IInv, TypeOK
<1>4. CASE r.verdict = "undecided"
  <2>1. \A u \in TrackIds : Ruled(u)' <=> Ruled(u)
    BY <1>3, <1>4 DEF Ruled
  <2>2. \A j \in Invoices : {u \in RequestsOf(j)' : Ruled(u)'} = {u \in RequestsOf(j) : Ruled(u)}
    BY <1>3, <1>4 DEF Ruled, RequestsOf
  <2>3. \A u \in TrackIds : Ruled(u) => dian'[u] = dian[u]
    BY <1>3
  <2>4. \A j \in Invoices : Ruling'[j] = Ruling[j]
    BY <2>2, <2>3 DEF Ruling, RequestsOf
  <2>5. Ruling' = Ruling
    BY <2>4 DEF Ruling
  <2> QED BY <1>2, <2>5 DEF Delivers
<1>5. CASE r.verdict # "undecided"
  <2>1. v \in {"accepted", "xmlRejected", "rejected"}
    BY <1>5 DEF RulingOf, Verdicts
  <2>2. \A j \in Invoices :
          {u \in RequestsOf(j)' : Ruled(u)'}
            = {u \in RequestsOf(j) : Ruled(u)} \cup (IF j = i THEN {t} ELSE {})
    BY <1>3, <1>5 DEF Ruled, RequestsOf
  <2>3. \A u \in TrackIds : Ruled(u) => dian'[u] = dian[u]
    BY <1>3
  <2>4. ASSUME NEW j \in Invoices
        PROVE  Ruling'[j] = Ruling[j] \cup (IF j = i THEN {v} ELSE {})
    <3> DEFINE Old == {u \in RequestsOf(j) : Ruled(u)}
               New == IF j = i THEN {t} ELSE {}
    <3>1. Ruling[j] = {RulingOf(dian[u].verdict) : u \in Old}
      BY DEF Ruling
    <3>2. Ruling'[j] = {RulingOf(dian'[u].verdict) : u \in {u \in RequestsOf(j)' : Ruled(u)'}}
      BY DEF Ruling
    <3>3. Ruling'[j] = {RulingOf(dian'[u].verdict) : u \in Old \cup New}
      BY <2>2, <3>2
    <3>4. \A u \in Old : u # t /\ dian'[u] = dian[u]
      BY <2>3 DEF RequestsOf
    <3>5. RulingOf(dian'[t].verdict) = v
      BY <1>3
    <3> QED BY <3>1, <3>3, <3>4, <3>5
  <2>5. Ruling' = [Ruling EXCEPT ![i] = @ \cup {v}]
    <3> DEFINE Grown == [Ruling EXCEPT ![i] = @ \cup {v}]
    <3>1. Ruling' = [j \in Invoices |-> Ruling'[j]] /\ Ruling = [j \in Invoices |-> Ruling[j]]
      BY DEF Ruling
    <3>2. Grown = [j \in Invoices |-> Ruling[j] \cup (IF j = i THEN {v} ELSE {})]
      BY <1>1, <3>1
    <3> HIDE DEF Grown
    <3>3. Ruling' = Grown
      BY <2>4, <3>1, <3>2
    <3> QED BY <3>3 DEF Grown
  <2>6. DeliveryOf!Rule(i, v)
    BY <1>1, <1>2, <2>5 DEF DeliveryOf!Rule
  <2> QED BY <1>1, <2>1, <2>6 DEF DeliveryOf!Next, Delivers
<1> QED BY <1>4, <1>5

\* An invoice is settled, or opened again, as DIAN ruled.
LEMMA InvoiceDelivers ==
  ASSUME IInv, NEW i \in Invoices, NEW st \in {"accepted", "rejected", "pending"},
         invoice' = [invoice EXCEPT ![i] = st],
         IF st = "accepted"
         THEN \E t \in RequestsOf(i) : dian[t].verdict \in {"accepted", "xmlRejected"}
         ELSE Refuted(i),
         UNCHANGED <<event, Work, dian, notified>>
  PROVE  Delivers
<1> DEFINE x == IF st = "pending" THEN "open" ELSE st
<1>1. UNCHANGED <<Owed, Ruling, notified>>
  BY Unmoved
<1>2. Standing' = [Standing EXCEPT ![i] = x]
  BY DEF Standing, IInv, TypeOK
<1>3. IF x = "accepted" THEN DeliveryOf!For(i) ELSE DeliveryOf!Against(i)
  <2>1. ASSUME NEW t \in RequestsOf(i), dian[t].verdict \notin {"none", "undecided"}
        PROVE  RulingOf(dian[t].verdict) \in Ruling[i]
    BY <2>1 DEF Ruling, Ruled
  <2>2. CASE st = "accepted"
    <3>1. DeliveryOf!For(i)
      BY <2>1, <2>2 DEF DeliveryOf!For, RulingOf
    <3> QED BY <2>2, <3>1
  <2>3. CASE st # "accepted"
    <3>1. DeliveryOf!Against(i)
      BY <2>1, <2>3 DEF DeliveryOf!Against, RulingOf, Refuted
    <3> QED BY <2>3, <3>1
  <2> QED BY <2>2, <2>3
<1>4. DeliveryOf!Settle(i, x)
  BY <1>1, <1>2, <1>3 DEF DeliveryOf!Settle
<1> QED BY <1>4 DEF DeliveryOf!Next, Delivers

\* Every step of DianSubmissionProcessor, its crash and the retention keep the promise.
LEMMA SubmissionDelivers ==
  ASSUME IInv, Course, NEW s \in SubIds, SubmissionStep(s) \/ SubmissionCrash(s) \/ Evict(s)
  PROVE  Delivers
<1>1. PICK k : /\ job' = [job EXCEPT ![s] = k] /\ k.state # "absent" /\ Moves(job[s], k)
               /\ SendReceived(s) \/ SendRefused(s) \/ RefuseInvoice(s) \/ OnFailedEvent(s)
                    => WorkOf(k) = WorkOf(job[s])
  BY JobMoves
<1>2. Sent(s[1]) /\ s[1] \in Invoices
  BY JobMoves DEF Course, SubIds
<1>3. CASE UNCHANGED <<event, dian, invoice, notified>>
  BY <1>1, <1>3, WorkDelivers
<1>4. CASE SendReceived(s) \/ SendRefused(s)
  <2>1. PICK t \in TrackIds, v \in {"undecided", "refused"} :
          FreshSend(t) /\ dian' = [dian EXCEPT ![t] = [sub |-> s, verdict |-> v]]
    BY <1>4 DEF SendReceived, SendRefused, Received
  <2>2. UNCHANGED <<event, invoice, notified, Work>>
    BY <1>1, <1>4, WorkMoves DEF SendReceived, SendRefused, db
  <2>3. ~Ruled(t) /\ v \in Verdicts \ {"none"}
    BY <2>1 DEF FreshSend, Ruled, Verdicts
  <2> DEFINE r == [sub |-> s, verdict |-> v]
  <2>4. dian' = [dian EXCEPT ![t] = r] /\ r.sub = s /\ r.verdict = v
    BY <2>1
  <2> HIDE DEF r
  <2> QED BY <1>2, <2>2, <2>3, <2>4, RulingDelivers
<1>5. CASE RefuseInvoice(s)
  <2>1. /\ invoice' = [invoice EXCEPT ![s[1]] = "rejected"]
        /\ UNCHANGED <<event, dian, notified, Work>> /\ job[s].pc = "refusedInvoice"
    BY <1>1, <1>5, WorkMoves DEF RefuseInvoice, SetInvoice, AtPc
  <2>2. Refuted(s[1])
    BY <2>1 DEF IInv, Backed, Refuted, RequestsOf
  <2> QED BY <1>2, <2>1, <2>2, InvoiceDelivers
<1>6. CASE OnFailedEvent(s)
  <2>1. /\ UNCHANGED <<invoice, dian, notified, Work>>
        /\ \/ UNCHANGED event
           \/ job[s].event # 0 /\ event' = [event EXCEPT ![job[s].event].status = "failed"]
    BY <1>1, <1>6, WorkMoves DEF OnFailedEvent
  <2>2. CASE UNCHANGED event
    BY <1>3, <2>1, <2>2
  <2>3. CASE job[s].event # 0 /\ event' = [event EXCEPT ![job[s].event].status = "failed"]
    <3>1. job[s].event \in EventIds
      BY <2>3 DEF IInv, TypeOK, JobRecords
    <3>2. event[job[s].event].status # "absent" /\ Dispatched(job[s].event)
      BY <2>3 DEF IInv, Outbox, Dispatched
    <3> QED BY <2>1, <2>3, <3>1, <3>2, EventDelivers
  <2> QED BY <2>1, <2>2, <2>3
<1> QED
  BY <1>3, <1>4, <1>5, <1>6
     DEF SubmissionStep, TakeJob, MarkSubmitting, SendFails, MarkSubmitted, EnqueueStatus,
         CompleteJob, RefuseSub, CatchSub, SubmissionFault, FailJob, OnFailedIgnored,
         OnFailedDlq, OnFailedFault, SubmissionCrash, Evict, db

\* DIAN rules once of a request; the status processor settles and tells what it ruled.
LEMMA StatusDelivers ==
  ASSUME IInv, Agreement, Course, NEW t \in TrackIds,
         DianDecide(t) \/ StatusStep(t) \/ StatusCrash(t)
  PROVE  Delivers
<1>1. UNCHANGED <<event, job>>
  BY DEF DianDecide, StatusStep, TakeStatus, GetStatus, GetStatusFails, PendingSub, AcceptSub,
         RejectSub, CatchStatus, WriteSub, AcceptInvoice, ParseResponse, RejectInvoice,
         SavePath, QueueMail, AcceptedHook, RejectedHook, Notify, CompleteStatus,
         StatusFault, FailStatus, StatusCrash, db, queues
<1>2. UNCHANGED <<Owed, Work>>
  BY <1>1, Unmoved
<1>3. CASE DianDecide(t)
  <2>1. PICK v \in {"accepted", "xmlRejected", "rejected"} : dian' = [dian EXCEPT ![t].verdict = v]
    BY <1>3 DEF DianDecide
  <2> DEFINE r == [dian[t] EXCEPT !.verdict = v]
  <2>2. dian' = [dian EXCEPT ![t] = r] /\ r.sub = dian[t].sub /\ r.verdict = v
    BY <2>1 DEF IInv, TypeOK
  <2>3. dian[t].verdict = "undecided" /\ UNCHANGED <<invoice, notified>>
    BY <1>3 DEF DianDecide, db, queues
  <2>4. r.sub \in SubIds /\ Sent(r.sub[1])
    BY <2>2, <2>3 DEF IInv, Tracked, Course, InvoiceOf
  <2>5. ~Ruled(t) /\ v \in Verdicts \ {"none"}
    BY <2>3 DEF Ruled, Verdicts
  <2> HIDE DEF r
  <2> QED BY <1>1, <1>2, <2>2, <2>3, <2>4, <2>5, RulingDelivers
<1>4. CASE UNCHANGED <<dian, invoice, notified>>
  BY <1>1, <1>4, Unmoved DEF Delivers
\* The requests the status processor handles are DIAN's, of invoices that exist.
<1>5. ASSUME statusJob[t].state = "active"
      PROVE  /\ InvoiceOf(t) \in Invoices /\ t \in RequestsOf(InvoiceOf(t))
             /\ Knows(t) /\ (statusJob[t].pc = "rejectedHook" => dian[t].verdict = "rejected")
  BY <1>5 DEF IInv, Tracked, NoJob, Given, InvoiceOf, SubIds, RequestsOf, Backed, Agreement
<1>6. CASE AcceptInvoice(t) \/ RejectInvoice(t)
  <2>1. PICK st \in {"accepted", "rejected"} :
          /\ invoice' = [invoice EXCEPT ![InvoiceOf(t)] = st]
          /\ statusJob[t].state = "active"
          /\ statusJob[t].pc = IF st = "accepted" THEN "acceptInvoice" ELSE "rejectInvoice"
    BY <1>6 DEF AcceptInvoice, RejectInvoice, SetInvoice, StatusAt
  <2>2. IF st = "accepted" THEN dian[t].verdict \in {"accepted", "xmlRejected"}
                           ELSE dian[t].verdict \in {"rejected", "xmlRejected"}
    BY <1>5, <2>1 DEF Knows
  <2>3. st = "rejected" => Refuted(InvoiceOf(t))
    BY <1>5, <2>1, <2>2 DEF Refuted
  <2>4. UNCHANGED <<dian, notified>>
    BY <1>6 DEF AcceptInvoice, RejectInvoice
  <2> QED BY <1>1, <1>2, <1>5, <2>1, <2>2, <2>3, <2>4, InvoiceDelivers
<1>7. CASE QueueMail(t) \/ AcceptedHook(t) \/ RejectedHook(t)
  <2>1. PICK n \in Notices :
          /\ notified' = [notified EXCEPT ![InvoiceOf(t)] = @ \cup {n}]
          /\ statusJob[t].state = "active"
          /\ statusJob[t].pc = CASE n = "mail" -> "mail"
                                 [] n = "invoice.accepted" -> "acceptedHook"
                                 [] OTHER -> "rejectedHook"
    BY <1>7 DEF QueueMail, AcceptedHook, RejectedHook, Notify, StatusAt, Notices
  <2>2. dian[t].verdict = IF n = "invoice.rejected" THEN "rejected" ELSE "accepted"
    BY <1>5, <2>1 DEF Knows, Notices
  <2>3. dian[t].verdict \in Ruling[InvoiceOf(t)]
    BY <1>5, <2>1, <2>2 DEF Ruling, Ruled, RulingOf
  <2>4. UNCHANGED <<dian, invoice>>
    BY <1>7 DEF QueueMail, AcceptedHook, RejectedHook, Notify, db
  <2>5. DeliveryOf!Tell(InvoiceOf(t), n)
    BY <1>2, <2>1, <2>2, <2>3, <2>4, Unmoved DEF DeliveryOf!Tell
  <2> QED BY <1>5, <2>1, <2>5 DEF DeliveryOf!Next, Delivers, Notices
<1> QED
  BY <1>3, <1>4, <1>6, <1>7
     DEF StatusStep, TakeStatus, GetStatus, GetStatusFails, PendingSub, AcceptSub, RejectSub,
         CatchStatus, WriteSub, ParseResponse, SavePath, CompleteStatus, StatusFault,
         FailStatus, StatusCrash, db, processes, queues

\* The relay starts what is owed or forgotten, and releases what is dispatched.
LEMMA RelayDelivers ==
  ASSUME IInv, NEW r \in Relays,
         RelayStep(r) \/ RelayCrash(r) \/ \E e \in EventIds : RelayFault(r, e)
  PROVE  Delivers
<1>1. UNCHANGED <<invoice, dian, notified>>
  BY DEF RelayStep, RelayTick, RelayAdd, RelaySkip, RelayMark, RelayUnknown, RelayCrash,
         RelayFault, db, queues
<1>2. CASE UNCHANGED <<event, job>>
  BY <1>1, <1>2, Unmoved DEF Delivers
<1>3. ASSUME NEW e \in EventIds, IsHead(r, e) PROVE event[e].status # "absent"
  BY <1>3 DEF IsHead, IInv, Outbox
<1>4. ASSUME NEW e \in EventIds, RelayAdd(r, e) PROVE Delivers
  <2>1. PICK s \in FirstSubmission(event[e].inv) :
          job' = [job EXCEPT ![s] = IF Known(job[s]) THEN job[s] ELSE NewJob(e)]
    BY <1>4 DEF RelayAdd
  <2>2. s \in SubIds /\ s = <<event[e].inv, 1>>
    BY EmissionAssumption DEF FirstSubmission, IInv, Rows, Attempted, SubIds
  <2>3. CASE Known(job[s])
    <3>1. UNCHANGED job
      BY <2>1, <2>2, <2>3 DEF IInv, TypeOK
    <3> QED BY <1>2, <1>4, <3>1 DEF RelayAdd, db
  <2>4. CASE ~Known(job[s])
    <3>1. WorkOf(job[s]) \in {"none", "forgotten"} /\ WorkOf(NewJob(e)) = "running"
      BY <2>4 DEF WorkOf, Known, NewJob, Finished
    <3>2. ASSUME WorkOf(job[s]) = "none" PROVE s[1] \in Owed
      <4>1. job[s].state = "absent"
        BY <3>2 DEF WorkOf, Finished
      <4>2. IsCreation(e) /\ event[e].status # "absent"
        BY <1>3, <1>4 DEF RelayAdd
      <4>3. event[e].status = "pending" /\ event[e].inv \in Invoices
        BY <2>2, <4>1, <4>2
           DEF IInv, TypeOK, EventStatuses, Outbox, OutboxNeverLoses, IsCreation
      <4> QED BY <2>2, <4>2, <4>3 DEF Owed, PendingEvents
    <3>3. UNCHANGED event /\ job' = [job EXCEPT ![s] = NewJob(e)]
      BY <1>4, <2>1, <2>4 DEF RelayAdd, db
    <3> QED BY <1>1, <2>2, <3>1, <3>2, <3>3, WorkDelivers
  <2> QED BY <2>3, <2>4
<1>5. ASSUME NEW e \in EventIds, RelayMark(r, e) PROVE Delivers
  <2>1. Dispatched(e)
    BY <1>5 DEF RelayMark, IsHead, IInv, Outbox, EventIds
  <2>2. /\ event' = [event EXCEPT ![e].status = "processed"]
        /\ UNCHANGED job /\ IsHead(r, e)
    BY <1>5 DEF RelayMark, queues
  <2> QED BY <1>1, <1>3, <2>1, <2>2, Unmoved, EventDelivers
<1>6. ASSUME NEW e \in EventIds, RelayUnknown(r, e) PROVE Delivers
  <2>1. /\ event' = [event EXCEPT ![e].status = "failed"] /\ UNCHANGED job
        /\ ~IsCreation(e)
    BY <1>6 DEF RelayUnknown, queues
  <2>2. UNCHANGED Owed
    BY <2>1 DEF Owed, PendingEvents, IsCreation, IInv, TypeOK
  <2> QED BY <1>1, <2>1, <2>2, Unmoved DEF Delivers
<1> QED
  BY <1>2, <1>4, <1>5, <1>6
     DEF RelayStep, RelayTick, RelaySkip, RelayCrash, RelayFault, db, queues

\* A retry opens an invoice DIAN has ruled against, and its job is no first dispatch.
LEMMA CallerDelivers ==
  ASSUME IInv, Agreement, NEW c \in Callers,
         \/ \E i \in Invoices : RetryCheck(c, i)
         \/ \E d \in DlqIds : DlqRead(c, d)
         \/ CallerStep(c) \/ CallerDies(c)
  PROVE  Delivers
<1> DEFINE i == caller[c].inv
           n == caller[c].n
<1>1. UNCHANGED <<dian, notified>>
  BY DEF CallerStep, RetryCheck, RetryLatest, RetryInsert, RetryUpdate, RetryAdd, DlqRead,
         DlqEvent, DlqResolve, CallerDies, queues
<1>2. CASE UNCHANGED <<event, job, invoice>>
  BY <1>1, <1>2, Unmoved DEF Delivers
<1>3. CASE RetryUpdate(c)
  <2>1. /\ UNCHANGED <<event, job>> /\ invoice' = [invoice EXCEPT ![i] = "pending"]
        /\ Refuted(i) /\ i \in Invoices
    BY <1>3 DEF RetryUpdate, SetInvoice, CallerAt, queues, Agreement, IInv, Retries
  <2> QED BY <1>1, <2>1, Unmoved, InvoiceDelivers
<1>4. CASE RetryAdd(c)
  <2>1. /\ UNCHANGED <<invoice, event>> /\ job' = [job EXCEPT ![<<i, n>>] = NewJob(0)]
        /\ <<i, n>> \in SubIds /\ n # 1
    BY <1>4 DEF RetryAdd, CallerAt, db, IInv, Retries, Owns, HasInserted, OwnRow
  <2> QED BY <1>1, <2>1, WorkDelivers
<1>5. CASE DlqEvent(c)
  <2>1. PICK e \in EventIds :
          /\ FreshEvent(e) /\ UNCHANGED <<invoice, job>>
          /\ event' = [event EXCEPT ![e] = [inv |-> i, type |-> "invoice.created", status |-> "pending"]]
    BY <1>5 DEF DlqEvent, InsertEvent, queues
  <2>2. UNCHANGED Owed
    BY <2>1 DEF Owed, PendingEvents, IsCreation, FreshEvent, IInv, TypeOK
  <2> QED BY <1>1, <2>1, <2>2, Unmoved DEF Delivers
<1> QED
  BY <1>2, <1>3, <1>4, <1>5
     DEF CallerStep, RetryCheck, RetryLatest, RetryInsert, DlqRead, DlqResolve, CallerDies,
         db, queues

\* create commits an invoice that is owed from then on.
LEMMA CreateDelivers ==
  ASSUME IInv, Course, NEW i \in Invoices, CreateInvoice(i)
  PROVE  Delivers
<1>1. /\ UNCHANGED <<job, dian, notified>> /\ invoice[i] = "absent"
      /\ \E st \in {"queued", "draft"} : invoice' = [invoice EXCEPT ![i] = st]
  BY DEF CreateInvoice, SetInvoice, queues
<1>2. PICK e \in EventIds :
        /\ FreshEvent(e)
        /\ event' = [event EXCEPT ![e] = [inv |-> i, type |-> "INVOICE_CREATED", status |-> "pending"]]
  BY DEF CreateInvoice, InsertEvent
<1>3. UNCHANGED <<Work, Ruling>>
  BY <1>1, Unmoved
<1>4. UNCHANGED Standing
  <2>1. \A j \in Invoices : j # i => invoice'[j] = invoice[j]
    BY <1>1 DEF IInv, TypeOK
  <2>2. invoice'[i] \in {"queued", "draft"}
    BY <1>1 DEF IInv, TypeOK
  <2> QED BY <1>1, <2>1, <2>2 DEF Standing
<1>5. i \notin Owed /\ Work[i] = "none"
  <2>1. ~SubExists(<<i, 1>>) /\ <<i, 1>> \in SubIds
    BY <1>1, EmissionAssumption DEF Course, SubIds
  <2>2. job[<<i, 1>>].state = "absent"
    BY <2>1 DEF IInv, Rows
  <2>3. i \notin Owed
    BY <1>1 DEF Course, Owed, PendingEvents
  <2>4. WorkOf(job[<<i, 1>>]) = "none"
    BY <2>2 DEF WorkOf, Finished
  <2> QED BY <2>3, <2>4 DEF Work
<1>6. Owed' = Owed \cup {i}
  <2>1. /\ event'[e] = [inv |-> i, type |-> "INVOICE_CREATED", status |-> "pending"]
        /\ \A f \in EventIds : f # e => event'[f] = event[f]
        /\ event[e].status # "pending"
    BY <1>2 DEF IInv, TypeOK, FreshEvent
  <2>2. \A j \in Invoices : j \in Owed' <=> j \in Owed \/ j = i
    BY <2>1 DEF Owed, PendingEvents, IsCreation
  <2>3. Owed \subseteq Invoices /\ Owed' \subseteq Invoices
    BY DEF Owed
  <2> QED BY <2>2, <2>3
<1>7. DeliveryOf!Owe(i)
  BY <1>1, <1>3, <1>4, <1>5, <1>6 DEF DeliveryOf!Owe
<1> QED BY <1>7 DEF DeliveryOf!Next, Delivers

\* The emission pipeline implements Delivery, whatever dies, is lost, retried or
\* forgotten: what is sent was committed first (create, OutboxRelayService), an event is
\* settled only once its job is there, a job is not run twice (its jobId), and every
\* status, reopening and notice has a ruling of DIAN behind it (DianSubmissionProcessor,
\* DianStatusProcessor, retrySubmission).
THEOREM DeliveryHolds == Spec => ImplementsDelivery
<1>1. StoreInit => DeliveryOf!Init
  <2> SUFFICES ASSUME StoreInit PROVE DeliveryOf!Init
    OBVIOUS
  <2>1. \A i \in Invoices : <<i, 1>> \in SubIds
    BY EmissionAssumption DEF SubIds
  <2>2. Owed = {}
    BY DEF StoreInit, Owed, PendingEvents, NoEvent
  <2>3. Work = [i \in Invoices |-> "none"]
    <3>1. WorkOf(NoJob) = "none"
      BY DEF WorkOf, NoJob, Finished
    <3>2. \A i \in Invoices : job[<<i, 1>>] = NoJob
      BY <2>1 DEF StoreInit
    <3>3. \A i \in Invoices : WorkOf(job[<<i, 1>>]) = "none"
      BY <3>1, <3>2
    <3> QED BY <3>3 DEF Work
  <2>4. Ruling = [i \in Invoices |-> {}] /\ Standing = [i \in Invoices |-> "open"]
    BY DEF StoreInit, Ruling, RequestsOf, Ruled, NoSend, Standing
  <2> QED BY <2>2, <2>3, <2>4 DEF StoreInit, DeliveryOf!Init
<1>2. IInv /\ Agreement /\ Course /\ [Next]_vars
        => [DeliveryOf!Next]_<<Owed, Work, Ruling, Standing, notified>>
  <2> SUFFICES ASSUME IInv, Agreement, Course, [Next]_vars PROVE Delivers
    BY DEF Delivers
  <2>1. CASE UNCHANGED vars
    BY <2>1, Unmoved DEF vars, db, queues, Delivers
  <2> QED
    BY <2>1, CreateDelivers, RelayDelivers, SubmissionDelivers, StatusDelivers,
       CallerDelivers DEF Next
<1>3. StoreInit => Agreement
  BY DEF StoreInit, Agreement, Told, NoJob, CallerIdle
<1> QED
  BY <1>1, <1>2, <1>3, CourseStarts, AgreementHolds, CourseHolds, Invariance, PTL
     DEF Spec, ImplementsDelivery, DeliveryOf!Spec, DeliveryOf!vars
===============================================================================
