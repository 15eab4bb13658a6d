----------------------------- MODULE OutboxRelay -----------------------------
(***************************************************************************)
(* OutboxRelayService: every 10 seconds each API process reads the oldest  *)
(* pending outbox events and adds a dian-submission job for each.          *)
(* isProcessing keeps one process from overlapping with itself; two        *)
(* processes may hold the same event in their batches.                     *)
(***************************************************************************)
EXTENDS EmissionStore

PendingEvents == {e \in EventIds : event[e].status = "pending"}

\* find({ where: pending, order: createdAt ASC, take: 100 })
OldestPending ==
  {e \in PendingEvents : Cardinality({f \in PendingEvents : f < e}) < Batch}

RelayTick(r) ==
  /\ relay[r].todo = {}
  /\ PendingEvents # {}
  /\ relay' = [relay EXCEPT ![r].todo = OldestPending]
  /\ UNCHANGED <<db, queues, dian, caller, budget>>

\* The loop's current event.
IsHead(r, e) == /\ e \in relay[r].todo
                /\ \A f \in relay[r].todo : e <= f

Advance(r, e) ==
  relay' = [relay EXCEPT ![r] = [todo |-> @.todo \ {e}, added |-> FALSE]]

\* submissionRepo.findOne({ invoiceId: aggregateId, attemptNumber: 1 })
FirstSubmission(i) == {s \in SubIds : s[1] = i /\ sub[s].attempt = 1 /\ SubExists(s)}

IsCreation(e) == event[e].type = "INVOICE_CREATED"

\* Faulty variant: no jobId, every add makes a job.
RelayAddAnew(r, e) ==
  /\ IsHead(r, e) /\ ~relay[r].added /\ IsCreation(e)
  /\ \E s \in FirstSubmission(event[e].inv) : job' = [job EXCEPT ![s] = NewJob(e)]
  /\ relay' = [relay EXCEPT ![r].added = TRUE]
  /\ UNCHANGED <<db, statusJob, notified, dian, caller, budget>>

\* The jobId is derived from the event: adding a job whose id Redis still
\* holds, in whatever state, changes nothing.
RelayAdd(r, e) ==
  /\ IsHead(r, e) /\ ~relay[r].added /\ IsCreation(e)
  /\ \E s \in FirstSubmission(event[e].inv) :
       job' = [job EXCEPT ![s] = IF Known(@) THEN @ ELSE NewJob(e)]
  /\ relay' = [relay EXCEPT ![r].added = TRUE]
  /\ UNCHANGED <<db, statusJob, notified, dian, caller, budget>>

\* No submission: the event stays pending and is read again on the next tick.
RelaySkip(r, e) ==
  /\ IsHead(r, e) /\ IsCreation(e)
  /\ FirstSubmission(event[e].inv) = {}
  /\ Advance(r, e)
  /\ UNCHANGED <<db, queues, dian, caller, budget>>

\* Faulty variant: marks the event before the job is added.
RelayMarkEarly(r, e) ==
  /\ IsHead(r, e)
  /\ event' = [event EXCEPT ![e].status = "processed"]
  /\ Advance(r, e)
  /\ UNCHANGED <<invoice, responsePath, sub, dlq, queues, dian, caller, budget>>

RelayMark(r, e) ==
  /\ IsHead(r, e) /\ relay[r].added
  /\ event' = [event EXCEPT ![e].status = "processed"]
  /\ Advance(r, e)
  /\ UNCHANGED <<invoice, responsePath, sub, dlq, queues, dian, caller, budget>>

RelayUnknown(r, e) ==
  /\ IsHead(r, e) /\ ~IsCreation(e)
  /\ event' = [event EXCEPT ![e].status = "failed"]
  /\ Advance(r, e)
  /\ UNCHANGED <<invoice, responsePath, sub, dlq, queues, dian, caller, budget>>

\* A rejected await inside processEvent is logged and the loop goes on.
RelayFault(r, e) ==
  /\ Faults
  /\ IsHead(r, e)
  /\ Advance(r, e)
  /\ UNCHANGED <<db, queues, dian, caller, budget>>

RelayCrash(r) ==
  /\ crashes < MaxCrashes
  /\ relay[r].todo # {}
  /\ relay' = [relay EXCEPT ![r] = RelayIdle]
  /\ crashes' = crashes + 1
  /\ UNCHANGED <<db, queues, dian, caller, evictions>>

RelayStep(r) ==
  \/ RelayTick(r)
  \/ \E e \in EventIds : RelayAdd(r, e) \/ RelaySkip(r, e) \/ RelayMark(r, e)
                           \/ RelayUnknown(r, e)
==============================================================================
