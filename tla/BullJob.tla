------------------------------- MODULE BullJob -------------------------------
(***************************************************************************)
(* A BullMQ job as the processors under src/modules/queue use it: a record *)
(* kept in Redis, a retry counter, a stall counter, and the place its      *)
(* processor has reached while it runs.  BullMQ is a library: these        *)
(* operators are modelled from how the code relies on it ("attempts",      *)
(* "attemptsMade", a deterministic "jobId", the "failed" event).           *)
(***************************************************************************)
EXTENDS Integers

JobStates == {"absent", "waiting", "active", "completed", "failed", "removed"}

JobRecords(pcs, maxMade, maxStalls, tracks, events) ==
  [state: JobStates, pc: pcs \cup {"idle"}, made: 0..maxMade,
   stalls: 0..maxStalls, track: tracks \cup {0}, event: events \cup {0}]

\* No job was ever added under this id.
NoJob == [state |-> "absent", pc |-> "idle", made |-> 0, stalls |-> 0,
          track |-> 0, event |-> 0]

\* queue.add with data that names an outbox event (0: none).
NewJob(cause) == [state |-> "waiting", pc |-> "idle", made |-> 0, stalls |-> 0,
                  track |-> 0, event |-> cause]

\* A worker takes the job and starts its processor at pc.
Taken(j, pc) == [j EXCEPT !.state = "active", !.pc = pc]

At(j, pc) == [j EXCEPT !.pc = pc]

Completed(j) == [j EXCEPT !.state = "completed", !.pc = "idle", !.track = 0]

\* The processor threw: back to the queue while attempts are left, else
\* failed for good; either way the worker emits "failed".
Thrown(j, attempts, onFailed) ==
  IF j.made + 1 < attempts
  THEN [j EXCEPT !.state = "waiting", !.pc = "idle", !.made = @ + 1, !.track = 0]
  ELSE [j EXCEPT !.state = "failed", !.pc = onFailed, !.made = @ + 1, !.track = 0]

\* The worker died while it held the job.  The first maxStalled times the job
\* is queued again without costing an attempt; after that it is failed, and
\* whether the last stall counts as an attempt depends on the library version.
Stalled(j, attempts, maxStalled, onFailed) ==
  IF j.stalls < maxStalled
  THEN {[j EXCEPT !.state = "waiting", !.pc = "idle", !.stalls = @ + 1, !.track = 0]}
  ELSE {[j EXCEPT !.state = "failed", !.pc = onFailed, !.made = m, !.track = 0] :
          m \in {j.made, j.made + 1}}

\* The retention limits deleted a finished job: its id is free again.
RemovedJob == [NoJob EXCEPT !.state = "removed"]
Known(j) == j.state \notin {"absent", "removed"}

Finished(j) == j.state \in {"completed", "failed"}
==============================================================================
