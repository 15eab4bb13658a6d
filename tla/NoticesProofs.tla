----------------------------- MODULE NoticesProofs -----------------------------
(***************************************************************************)
(* Notices for any endpoints, attempts, stalls, workers and faults.        *)
(***************************************************************************)
EXTENDS Notices, TLAPS

\* A job runs while its processor is somewhere, and has an attempt left until
\* it has ended.
Sound(j, attempts) ==
  /\ j.state = "active" <=> j.pc # "idle"
  /\ j.state \in {"waiting", "active"} => j.made < attempts

Jobs ==
  /\ Sound(status, StatusAttempts)
  /\ \A k \in Runs : Sound(mail[k], 1) /\ Sound(hook[k], 1)

Served(k, e) ==
  \E d \in delivery :
    d.job = k /\ d.endpoint = e /\ d.run = hook[k].stalls /\ d.status # "pending"

\* The loop of a processor: who it listed is left to do, being called, or
\* served.
Serving(k) ==
  /\ \A e \in listed[k] : endpoint[e] # "absent"
  /\ at[k] # None => endpoint[at[k]] # "absent"
  /\ hook[k].pc = "loop" => at[k] = None
  /\ hook[k].pc \in {"post", "ok", "bad"} =>
       /\ at[k] # None
       /\ endpoint[at[k]] = "active" => RowOf(k, "pending") \in delivery
  /\ hook[k].pc # "idle" \/ hook[k].state = "completed" =>
       \A e \in listed[k] : endpoint[e] = "active" /\ Wants(e) =>
         \/ hook[k].pc # "idle" /\ (e \in todo[k] \/ at[k] = e)
         \/ Served(k, e)

IInv == TypeOK /\ Jobs /\ \A k \in Runs : Serving(k)

Deliveries ==
  [job : Runs, endpoint : Endpoints, run : 0..MaxStalled, status : {"pending", "success", "failed"}]
StatusJobs == JobRecords({"xml", "save", "mail", "hook", "end"}, StatusAttempts, MaxStalled, {}, {})
HookJobs == JobRecords({"loop", "post", "ok", "bad"}, 1, MaxStalled, {}, {})
MailJobs == JobRecords({"build"}, 1, MaxStalled, {}, {})

\* What the operators of BullJob make of a sound job.
LEMMA JobMoves ==
  ASSUME NEW P, NEW a \in Nat \ {0}, NEW j \in JobRecords(P, a, MaxStalled, {}, {}), Sound(j, a),
         "idle" \notin P
  PROVE  /\ NoJob \in JobRecords(P, a, MaxStalled, {}, {}) /\ Sound(NoJob, a)
         /\ NewJob(0) \in JobRecords(P, a, MaxStalled, {}, {}) /\ Sound(NewJob(0), a)
         /\ NewJob(0).state = "waiting" /\ NewJob(0).pc = "idle"
         /\ NoJob.state = "absent" /\ NoJob.pc = "idle"
         /\ \A p \in P : j.state = "waiting" =>
              /\ Taken(j, p) \in JobRecords(P, a, MaxStalled, {}, {}) /\ Sound(Taken(j, p), a)
              /\ Taken(j, p).pc = p /\ Taken(j, p).stalls = j.stalls /\ Taken(j, p).state = "active"
         /\ \A p \in P : j.pc # "idle" =>
              /\ At(j, p) \in JobRecords(P, a, MaxStalled, {}, {}) /\ Sound(At(j, p), a)
              /\ At(j, p).pc = p /\ At(j, p).stalls = j.stalls /\ At(j, p).state = "active"
         /\ Completed(j) \in JobRecords(P, a, MaxStalled, {}, {}) /\ Sound(Completed(j), a)
         /\ Completed(j).pc = "idle" /\ Completed(j).stalls = j.stalls
         /\ j.state \in {"waiting", "active"} =>
              LET t == Thrown(j, a, "idle") IN
              /\ t \in JobRecords(P, a, MaxStalled, {}, {}) /\ Sound(t, a)
              /\ t.pc = "idle" /\ t.state # "completed"
         /\ j.state = "active" =>
              \A t \in Stalled(j, a, MaxStalled, "idle") :
                /\ t \in JobRecords(P, a, MaxStalled, {}, {}) /\ Sound(t, a)
                /\ t.pc = "idle" /\ t.state # "completed"
<1> USE NoticesAssumption DEF JobRecords, JobStates, Sound
<1> DEFINE R == JobRecords(P, a, MaxStalled, {}, {})
<1>1. /\ NoJob \in R /\ Sound(NoJob, a) /\ NewJob(0) \in R /\ Sound(NewJob(0), a)
      /\ NewJob(0).state = "waiting" /\ NewJob(0).pc = "idle"
      /\ NoJob.state = "absent" /\ NoJob.pc = "idle"
  BY DEF NoJob, NewJob
<1>2. ASSUME NEW p \in P, j.state = "waiting"
      PROVE  /\ Taken(j, p) \in R /\ Sound(Taken(j, p), a)
             /\ Taken(j, p).pc = p /\ Taken(j, p).stalls = j.stalls /\ Taken(j, p).state = "active"
  BY <1>2 DEF Taken
<1>3. ASSUME NEW p \in P, j.pc # "idle"
      PROVE  /\ At(j, p) \in R /\ Sound(At(j, p), a)
             /\ At(j, p).pc = p /\ At(j, p).stalls = j.stalls /\ At(j, p).state = "active"
  BY <1>3 DEF At
<1>4. /\ Completed(j) \in R /\ Sound(Completed(j), a)
      /\ Completed(j).pc = "idle" /\ Completed(j).stalls = j.stalls
  BY DEF Completed
<1>5. ASSUME j.state \in {"waiting", "active"}
      PROVE  LET t == Thrown(j, a, "idle") IN
             t \in R /\ Sound(t, a) /\ t.pc = "idle" /\ t.state # "completed"
  <2>1. j.made + 1 \in 0..a
    BY <1>5
  <2>2. CASE j.made + 1 < a
    BY <2>1, <2>2 DEF Thrown
  <2>3. CASE ~(j.made + 1 < a)
    BY <2>1, <2>3 DEF Thrown
  <2> QED BY <2>2, <2>3
<1>6. ASSUME j.state = "active", NEW t \in Stalled(j, a, MaxStalled, "idle")
      PROVE  t \in R /\ Sound(t, a) /\ t.pc = "idle" /\ t.state # "completed"
  <2>1. j.made + 1 \in 0..a /\ j.made \in 0..a
    BY <1>6
  <2>2. CASE j.stalls < MaxStalled
    <3>1. t = [j EXCEPT !.state = "waiting", !.pc = "idle", !.stalls = @ + 1, !.track = 0]
      BY <1>6, <2>2 DEF Stalled
    <3>2. j.stalls + 1 \in 0..MaxStalled
      BY <2>2
    <3> QED BY <1>6, <3>1, <3>2
  <2>3. CASE ~(j.stalls < MaxStalled)
    <3>1. PICK m \in {j.made, j.made + 1} :
            t = [j EXCEPT !.state = "failed", !.pc = "idle", !.made = m, !.track = 0]
      BY <1>6, <2>3 DEF Stalled
    <3> QED BY <2>1, <3>1
  <2> QED BY <2>2, <2>3
<1> QED BY <1>1, <1>2, <1>3, <1>4, <1>5, <1>6

LEMMA InitIInv == Init => IInv
<1> SUFFICES ASSUME Init PROVE IInv
  OBVIOUS
<1>1. TypeOK
  <2>1. NewJob(0) \in StatusJobs /\ NoJob \in MailJobs /\ NoJob \in HookJobs
    BY NoticesAssumption DEF StatusJobs, MailJobs, HookJobs, JobRecords, JobStates, NewJob, NoJob
  <2>2. path \in BOOLEAN /\ verdict \in Verdicts /\ reply = "none"
    BY DEF Init
  <2>3. faults \in 0..MaxFaults
    BY NoticesAssumption DEF Init
  <2>4. endpoint \in [Endpoints -> {"absent", "active", "deleted"}]
    BY DEF Init
  <2>5. /\ status \in StatusJobs /\ mail \in [Runs -> MailJobs] /\ hook \in [Runs -> HookJobs]
        /\ listed \in [Runs -> SUBSET Endpoints] /\ todo \in [Runs -> SUBSET Endpoints]
        /\ at \in [Runs -> Endpoints \cup {None}] /\ delivery = {}
    BY <2>1 DEF Init
  <2> QED BY <2>2, <2>3, <2>4, <2>5 DEF TypeOK, StatusJobs, MailJobs, HookJobs
<1>2. Jobs
  BY NoticesAssumption DEF Init, Jobs, Sound, NewJob, NoJob
<1>3. \A k \in Runs : Serving(k)
  BY DEF Init, Serving, NoJob
<1> QED BY <1>1, <1>2, <1>3 DEF IInv

\* A processor is not disturbed while its own rows stay.
LEMMA LoopStays ==
  ASSUME TypeOK, NEW k \in Runs, Serving(k), verdict' = verdict, endpoint' = endpoint,
         hook'[k] = hook[k], listed'[k] = listed[k], todo'[k] = todo[k], at'[k] = at[k],
         \A d \in delivery : d.job = k => d \in delivery'
  PROVE  Serving(k)'
<1>1. \A e \in Endpoints : Served(k, e) => Served(k, e)'
  BY DEF Served
<1>2. RowOf(k, "pending")' = RowOf(k, "pending") /\ RowOf(k, "pending").job = k
  BY DEF RowOf, Row
<1>3. \A e \in Endpoints : Wants(e)' <=> Wants(e)
  BY DEF Wants, Event
<1> QED BY <1>1, <1>2, <1>3 DEF Serving, TypeOK

-------------------------------------------------------------------------------
(* The status job and the mail *)

LEMMA StatusKeeps ==
  ASSUME IInv, StatusStep \/ StatusThrows \/ StatusDies PROVE IInv'
<1> USE DEF IInv
<1>1. status \in StatusJobs /\ Sound(status, StatusAttempts) /\ StatusAttempts \in Nat \ {0}
  BY NoticesAssumption DEF TypeOK, Jobs, StatusJobs
<1>2. status' \in StatusJobs /\ Sound(status', StatusAttempts)
  BY <1>1, JobMoves
     DEF StatusJobs, StatusStep, StatusTake, StatusParse, SavePath, AddMail, AddHook, StatusEnds, StatusThrows, StatusDies
<1>3. verdict' = verdict /\ endpoint' = endpoint /\ delivery' = delivery /\ UNCHANGED loop
  BY DEF StatusStep, StatusTake, StatusParse, SavePath, AddMail, AddHook, StatusEnds, StatusThrows, StatusDies, hooks
<1>4. path' \in BOOLEAN /\ faults' \in 0..MaxFaults
  <2>1. path' \in {path, TRUE}
    BY DEF StatusStep, StatusTake, StatusParse, SavePath, AddMail, AddHook, StatusEnds, StatusThrows, StatusDies
  <2>2. faults' = faults \/ Fault
    BY DEF StatusStep, StatusTake, StatusParse, SavePath, AddMail, AddHook, StatusEnds, StatusThrows, StatusDies
  <2>3. Fault => faults' \in 0..MaxFaults
    BY NoticesAssumption DEF TypeOK, Fault
  <2> QED BY <2>1, <2>2, <2>3 DEF TypeOK
<1>4a. reply' \in {"none", "accepted", "bare", "xmlRejected", "rejected"}
  <2>1. reply' \in {reply, "none", "bare", verdict}
    BY DEF StatusStep, StatusTake, StatusParse, SavePath, AddMail, AddHook, StatusEnds,
           StatusThrows, StatusDies
  <2> QED BY <2>1, NoticesAssumption DEF TypeOK
<1>5. status.pc # "idle" => Run \in Runs
  BY <1>1, NoticesAssumption DEF Sound, StatusJobs, JobRecords, Run, Runs
<1>6. NewJob(0) \in MailJobs /\ NewJob(0) \in HookJobs /\ Sound(NewJob(0), 1)
      /\ NewJob(0).pc = "idle" /\ NewJob(0).state = "waiting"
  BY NoticesAssumption DEF NewJob, MailJobs, HookJobs, JobRecords, JobStates, Sound
<1>7. mail' = mail \/ mail' = [mail EXCEPT ![Run] = NewJob(0)]
  BY DEF StatusStep, StatusTake, StatusParse, SavePath, AddMail, AddHook, StatusEnds, StatusThrows, StatusDies
<1>8. hook' = hook \/ hook' = [hook EXCEPT ![Run] = NewJob(0)]
  BY DEF StatusStep, StatusTake, StatusParse, SavePath, AddMail, AddHook, StatusEnds, StatusThrows, StatusDies, hooks
<1>9. TypeOK'
  BY <1>2, <1>3, <1>4, <1>6, <1>7, <1>8, <1>4a DEF TypeOK, StatusJobs, MailJobs, HookJobs, loop
<1>10. Jobs'
  BY <1>2, <1>6, <1>7, <1>8 DEF Jobs, TypeOK
<1>11. ASSUME NEW k \in Runs PROVE Serving(k)'
  <2>1. CASE hook'[k] = hook[k]
    BY <1>3, <2>1, LoopStays DEF loop
  <2>2. CASE hook'[k] # hook[k]
    <3>1. hook'[k] = NewJob(0)
      BY <1>8, <2>2 DEF TypeOK
    <3> QED BY <1>3, <1>6, <3>1 DEF Serving, loop
  <2> QED BY <2>1, <2>2
<1> QED BY <1>9, <1>10, <1>11

LEMMA MailKeeps ==
  ASSUME IInv, NEW k \in Runs, MailStep(k) \/ MailDies(k) PROVE IInv'
<1> USE DEF IInv
<1>1. mail[k] \in MailJobs /\ Sound(mail[k], 1)
  BY DEF TypeOK, Jobs, MailJobs
<1>2. PICK to \in MailJobs : Sound(to, 1) /\ MailGoes(k, to)
  <2>1. CASE MailTake(k)
    <3>1. mail[k].state = "waiting" /\ MailGoes(k, CASE ~Email         -> Completed(mail[k])
                                                     [] Email /\ ~path -> Thrown(mail[k], 1, "idle")
                                                     [] OTHER          -> Taken(mail[k], "build"))
      BY <2>1 DEF MailTake
    <3>2. /\ Completed(mail[k]) \in MailJobs /\ Sound(Completed(mail[k]), 1)
          /\ Thrown(mail[k], 1, "idle") \in MailJobs /\ Sound(Thrown(mail[k], 1, "idle"), 1)
          /\ Taken(mail[k], "build") \in MailJobs /\ Sound(Taken(mail[k], "build"), 1)
      BY <1>1, <3>1, JobMoves DEF MailJobs
    <3>3. CASE ~Email
      BY <3>1, <3>2, <3>3
    <3>4. CASE Email /\ ~path
      BY <3>1, <3>2, <3>4
    <3>5. CASE Email /\ path
      BY <3>1, <3>2, <3>5
    <3> QED BY <3>3, <3>4, <3>5
  <2>2. CASE MailBuild(k)
    <3>1. mail[k].state = "active" /\ MailGoes(k, Thrown(mail[k], 1, "idle"))
      BY <1>1, <2>2 DEF MailBuild, Sound, MailJobs, JobRecords
    <3> QED BY <1>1, <3>1, JobMoves DEF MailJobs
  <2>3. CASE MailDies(k)
    BY <1>1, <2>3, JobMoves DEF MailDies, MailJobs
  <2> QED BY <2>1, <2>2, <2>3 DEF MailStep
<1>3. MailOnly /\ faults' \in 0..MaxFaults
  BY NoticesAssumption DEF TypeOK, MailStep, MailTake, MailBuild, MailDies, Fault
<1>4. TypeOK'
  BY <1>2, <1>3 DEF TypeOK, MailGoes, MailOnly, MailJobs, hooks, loop
<1>5. Jobs'
  BY <1>2, <1>3 DEF Jobs, TypeOK, MailGoes, MailOnly, hooks
<1>6. \A r \in Runs : Serving(r)'
  BY <1>3, LoopStays DEF MailOnly, hooks, loop
<1> QED BY <1>4, <1>5, <1>6

-------------------------------------------------------------------------------
(* The webhooks *)

\* A processor moves: the other runs keep their place, and rows of other jobs.
LEMMA HookMoves ==
  ASSUME IInv, NEW k \in Runs, NEW to \in HookJobs, Sound(to, 1), HookGoes(k, to), HookOnly,
         faults' \in 0..MaxFaults, delivery' \subseteq Deliveries,
         NEW l \in SUBSET Endpoints, NEW t \in SUBSET Endpoints, NEW a \in Endpoints \cup {None},
         listed' = [listed EXCEPT ![k] = l], todo' = [todo EXCEPT ![k] = t], at' = [at EXCEPT ![k] = a],
         \A d \in delivery : d.job # k => d \in delivery',
         Serving(k)'
  PROVE  IInv'
<1> USE DEF IInv
<1>1. TypeOK'
  BY DEF TypeOK, HookGoes, HookOnly, HookJobs, Deliveries
<1>2. Jobs'
  BY DEF Jobs, TypeOK, HookGoes, HookOnly
<1>3. ASSUME NEW r \in Runs, r # k PROVE Serving(r)'
  <2>1. /\ hook'[r] = hook[r] /\ listed'[r] = listed[r] /\ todo'[r] = todo[r] /\ at'[r] = at[r]
        /\ verdict' = verdict /\ endpoint' = endpoint
    BY <1>3 DEF TypeOK, HookGoes, HookOnly
  <2>2. \A d \in delivery : d.job = r => d \in delivery'
    BY <1>3
  <2> QED BY <2>1, <2>2, LoopStays
<1> QED BY <1>1, <1>2, <1>3

\* What a job is in whose processor runs.
LEMMA HookIs ==
  ASSUME IInv, NEW k \in Runs
  PROVE  /\ hook[k] \in HookJobs /\ Sound(hook[k], 1) /\ hook[k].stalls \in 0..MaxStalled
         /\ hook[k].pc # "idle" => hook[k].state = "active"
         /\ listed[k] \in SUBSET Endpoints /\ todo[k] \in SUBSET Endpoints /\ at[k] \in Endpoints \cup {None}
         /\ listed = [listed EXCEPT ![k] = listed[k]] /\ todo = [todo EXCEPT ![k] = todo[k]]
         /\ at = [at EXCEPT ![k] = at[k]]
         /\ delivery \subseteq Deliveries /\ faults \in 0..MaxFaults
BY DEF IInv, TypeOK, Jobs, Sound, HookJobs, JobRecords, Deliveries

\* A run ends early, whatever it was at.
LEMMA HookLeaves ==
  ASSUME IInv, NEW k \in Runs, NEW to \in HookJobs, Sound(to, 1), HookGoes(k, to), HookOnly,
         to.pc = "idle", to.state # "completed", Left(k), delivery' = delivery, faults' \in 0..MaxFaults
  PROVE  IInv'
<1>1. hook'[k] = to /\ listed'[k] = {} /\ at'[k] = None
  BY DEF IInv, TypeOK, HookGoes, Left
<1>2. Serving(k)'
  BY <1>1 DEF Serving
<1> QED BY <1>2, HookIs, HookMoves DEF Left

LEMMA HookEndsEarly ==
  ASSUME IInv, NEW k \in Runs,
         HookThrows(k) \/ HookDies(k) \/ \E e \in Endpoints : InsertRefused(k, e)
  PROVE  IInv'
<1>1. hook[k] \in HookJobs /\ Sound(hook[k], 1) /\ hook[k].state = "active"
  BY HookIs DEF HookThrows, HookDies, InsertRefused, IInv
<1>2. PICK to \in HookJobs : Sound(to, 1) /\ HookGoes(k, to) /\ to.pc = "idle" /\ to.state # "completed"
  BY <1>1, JobMoves DEF HookThrows, HookDies, InsertRefused, HookJobs
<1>3. Left(k) /\ delivery' = delivery /\ HookOnly /\ (faults' = faults \/ Fault)
  BY DEF HookThrows, HookDies, InsertRefused
<1>4. faults' \in 0..MaxFaults
  BY <1>3, NoticesAssumption DEF IInv, TypeOK, Fault
<1> QED BY <1>2, <1>3, <1>4, HookLeaves

LEMMA HookTakeKeeps == ASSUME IInv, NEW k \in Runs, HookTake(k) PROVE IInv'
<1> DEFINE to == Taken(hook[k], "loop")
           l == {e \in Endpoints : endpoint[e] = "active"}
           t == {e \in l : Wants(e)}
<1>1. hook[k] \in HookJobs /\ Sound(hook[k], 1) /\ hook[k].state = "waiting"
  BY HookIs DEF HookTake
<1>2. to \in HookJobs /\ Sound(to, 1) /\ to.pc = "loop" /\ to.state = "active"
  BY <1>1, JobMoves DEF HookJobs
<1>3. listed' = [listed EXCEPT ![k] = l] /\ listed'[k] = l
  BY DEF HookTake, IInv, TypeOK
<1>4. todo' = [todo EXCEPT ![k] = t] /\ at' = [at EXCEPT ![k] = None]
  BY <1>3 DEF HookTake
<1>5. HookGoes(k, to) /\ HookOnly /\ UNCHANGED <<delivery, faults>>
  BY DEF HookTake
<1>6. hook'[k] = to /\ todo'[k] = t /\ at'[k] = None
  BY <1>4, <1>5 DEF IInv, TypeOK, HookGoes
<1>7. endpoint' = endpoint /\ \A e \in Endpoints : Wants(e)' <=> Wants(e)
  BY <1>5 DEF HookOnly, Wants, Event
<1>8. Serving(k)'
  BY <1>2, <1>3, <1>6, <1>7 DEF Serving
<1>9. l \in SUBSET Endpoints /\ t \in SUBSET Endpoints
  OBVIOUS
<1> HIDE DEF to, l, t
<1> QED BY <1>2, <1>3, <1>4, <1>5, <1>8, <1>9, HookIs, HookMoves

LEMMA InsertKeeps == ASSUME IInv, NEW k \in Runs, NEW e \in Endpoints, Insert(k, e) PROVE IInv'
<1> DEFINE to == At(hook[k], "post")
           row == Row(k, e, hook[k].stalls, "pending")
<1>1. hook[k] \in HookJobs /\ Sound(hook[k], 1) /\ hook[k].pc = "loop"
  BY HookIs DEF Insert
<1>2. to \in HookJobs /\ Sound(to, 1) /\ to.pc = "post" /\ to.state = "active" /\ to.stalls = hook[k].stalls
  BY <1>1, JobMoves DEF HookJobs
<1>3. /\ at' = [at EXCEPT ![k] = e] /\ todo' = [todo EXCEPT ![k] = todo[k] \ {e}]
      /\ listed' = listed /\ delivery' = delivery \cup {row} /\ endpoint[e] = "active"
      /\ HookGoes(k, to) /\ HookOnly /\ faults' = faults
  BY DEF Insert
<1>4. row \in Deliveries
  BY HookIs DEF Row, Deliveries
<1>5. hook'[k] = to /\ todo'[k] = todo[k] \ {e} /\ at'[k] = e /\ listed'[k] = listed[k]
  BY <1>3 DEF IInv, TypeOK, HookGoes
<1>6. endpoint' = endpoint /\ \A x \in Endpoints : Wants(x)' <=> Wants(x)
  BY <1>3 DEF HookOnly, Wants, Event
<1>7. \A x \in Endpoints : Served(k, x) => Served(k, x)'
  BY <1>2, <1>3, <1>5 DEF Served
<1>8. RowOf(k, "pending")' = row
  BY <1>2, <1>5 DEF RowOf
<1>9. Serving(k)'
  <2>1. \A x \in listed[k] : endpoint[x] = "active" /\ Wants(x) => x \in todo[k] \/ Served(k, x)
    BY <1>1, NoticesAssumption DEF IInv, Serving, TypeOK
  <2> QED BY <1>1, <1>2, <1>3, <1>5, <1>6, <1>7, <1>8, <2>1, HookIs, NoticesAssumption
          DEF IInv, Serving
<1>10. delivery' \subseteq Deliveries
  BY <1>3, <1>4, HookIs
<1> HIDE DEF to, row
<1> QED BY <1>2, <1>3, <1>9, <1>10, HookIs, HookMoves

LEMMA CallKeeps ==
  ASSUME IInv, NEW k \in Runs, Post(k) \/ MarkSuccessFails(k) PROVE IInv'
<1>1. hook[k] \in HookJobs /\ Sound(hook[k], 1) /\ hook[k].pc \in {"post", "ok"}
  BY HookIs DEF Post, MarkSuccessFails
<1>2. PICK next \in {"ok", "bad"} : HookGoes(k, At(hook[k], next))
  BY DEF Post, MarkSuccessFails
<1> DEFINE to == At(hook[k], next)
<1>3. /\ to \in HookJobs /\ Sound(to, 1) /\ to.pc \in {"ok", "bad"} /\ to.state = "active"
      /\ to.stalls = hook[k].stalls
  BY <1>1, JobMoves DEF HookJobs
<1>4. UNCHANGED <<loop, delivery>> /\ HookOnly /\ (faults' = faults \/ Fault)
  BY DEF Post, MarkSuccessFails
<1>5. faults' \in 0..MaxFaults
  BY <1>4, NoticesAssumption DEF IInv, TypeOK, Fault
<1>6. hook'[k] = to
  BY <1>2 DEF IInv, TypeOK, HookGoes
<1>7. endpoint' = endpoint /\ \A x \in Endpoints : Wants(x)' <=> Wants(x)
  BY <1>4 DEF HookOnly, Wants, Event
<1>8. \A x \in Endpoints : Served(k, x) => Served(k, x)'
  BY <1>3, <1>4, <1>6 DEF Served
<1>9. RowOf(k, "pending")' = RowOf(k, "pending")
  BY <1>3, <1>4, <1>6 DEF RowOf, loop
<1>10. Serving(k)'
  BY <1>1, <1>3, <1>4, <1>6, <1>7, <1>8, <1>9, HookIs DEF IInv, Serving, loop
<1>11. /\ listed' = [listed EXCEPT ![k] = listed[k]] /\ todo' = [todo EXCEPT ![k] = todo[k]]
      /\ at' = [at EXCEPT ![k] = at[k]] /\ delivery' = delivery
  BY <1>4, HookIs DEF loop
<1> HIDE DEF to
<1>12. HookGoes(k, to)
  BY <1>2 DEF to
<1> QED BY <1>3, <1>4, <1>5, <1>10, <1>11, <1>12, HookIs, HookMoves

LEMMA MarkKeeps ==
  ASSUME IInv, NEW k \in Runs, MarkSuccess(k) \/ MarkFailed(k) PROVE IInv'
<1> DEFINE to == At(hook[k], "loop")
           old == RowOf(k, "pending")
<1>1. hook[k] \in HookJobs /\ Sound(hook[k], 1) /\ hook[k].pc \in {"ok", "bad"}
  BY HookIs DEF MarkSuccess, MarkFailed
<1>2. to \in HookJobs /\ Sound(to, 1) /\ to.pc = "loop" /\ to.state = "active" /\ to.stalls = hook[k].stalls
  BY <1>1, JobMoves DEF HookJobs
<1>3. PICK what \in {"success", "failed"} : Mark(k, what)
  BY DEF MarkSuccess, MarkFailed
<1> DEFINE new == RowOf(k, what)
<1>4. /\ at' = [at EXCEPT ![k] = None] /\ todo' = todo /\ listed' = listed
      /\ HookGoes(k, to) /\ HookOnly /\ faults' = faults
  BY DEF MarkSuccess, MarkFailed
<1>5. hook'[k] = to /\ at'[k] = None
  BY <1>4 DEF IInv, TypeOK, HookGoes
<1>6. at[k] # None
  BY <1>1 DEF IInv, Serving
<1>7. /\ old.job = k /\ old.status = "pending"
      /\ new.job = k /\ new.endpoint = at[k] /\ new.run = hook[k].stalls /\ new.status # "pending"
      /\ new \in Deliveries
  BY <1>6, HookIs DEF RowOf, Row, Deliveries
<1>8. /\ \A d \in delivery : d # old => d \in delivery'
      /\ old \in delivery => new \in delivery'
      /\ delivery' \subseteq delivery \cup {new}
  BY <1>3 DEF Mark
<1> HIDE DEF to, old, new
<1>9. \A x \in Endpoints : Served(k, x) => Served(k, x)'
  BY <1>2, <1>5, <1>7, <1>8 DEF Served
<1>10. at[k] \in Endpoints /\ \A x \in Endpoints : x = at[k] /\ endpoint[x] = "active" => Served(k, x)'
  <2>1. endpoint[at[k]] = "active" => old \in delivery
    BY <1>1 DEF IInv, Serving, old
  <2> QED BY <1>2, <1>5, <1>6, <1>7, <1>8, <2>1, HookIs DEF Served
<1>11. endpoint' = endpoint /\ \A x \in Endpoints : Wants(x)' <=> Wants(x)
  BY <1>4 DEF HookOnly, Wants, Event
<1>12. Serving(k)'
  BY <1>1, <1>2, <1>4, <1>5, <1>9, <1>10, <1>11, HookIs DEF IInv, Serving
<1>13. delivery' \subseteq Deliveries /\ \A d \in delivery : d.job # k => d \in delivery'
  BY <1>7, <1>8, HookIs
<1> QED BY <1>2, <1>4, <1>12, <1>13, HookIs, HookMoves

LEMMA HookEndsKeeps == ASSUME IInv, NEW k \in Runs, HookEnds(k) PROVE IInv'
<1> DEFINE to == Completed(hook[k])
<1>1. hook[k] \in HookJobs /\ Sound(hook[k], 1) /\ hook[k].pc = "loop" /\ todo[k] = {} /\ at[k] = None
  BY HookIs DEF HookEnds, IInv, Serving
<1>2. to \in HookJobs /\ Sound(to, 1) /\ to.pc = "idle" /\ to.stalls = hook[k].stalls
  BY <1>1, JobMoves DEF HookJobs
<1>3. UNCHANGED <<loop, delivery, faults>> /\ HookOnly /\ HookGoes(k, to)
  BY DEF HookEnds
<1>4. hook'[k] = to
  BY <1>3 DEF IInv, TypeOK, HookGoes
<1>5. endpoint' = endpoint /\ \A x \in Endpoints : Wants(x)' <=> Wants(x)
  BY <1>3 DEF HookOnly, Wants, Event
<1>6. \A x \in Endpoints : Served(k, x) => Served(k, x)'
  BY <1>2, <1>3, <1>4 DEF Served
<1>7. \A x \in listed[k] : endpoint[x] = "active" /\ Wants(x) => Served(k, x)
  BY <1>1, HookIs, NoticesAssumption DEF IInv, Serving
<1>8. Serving(k)'
  BY <1>1, <1>2, <1>3, <1>4, <1>5, <1>6, <1>7, HookIs DEF IInv, Serving, loop
<1>9. /\ listed' = [listed EXCEPT ![k] = listed[k]] /\ todo' = [todo EXCEPT ![k] = todo[k]]
      /\ at' = [at EXCEPT ![k] = at[k]] /\ delivery' = delivery
  BY <1>3, HookIs DEF loop
<1> HIDE DEF to
<1> QED BY <1>2, <1>3, <1>8, <1>9, HookIs, HookMoves

LEMMA EndpointKeeps ==
  ASSUME IInv, NEW e \in Endpoints, Create(e) \/ Delete(e) PROVE IInv'
<1> USE DEF IInv
<1>1. /\ endpoint' \in [Endpoints -> {"absent", "active", "deleted"}]
      /\ \A x \in Endpoints : endpoint[x] # "absent" /\ endpoint'[x] = "active" =>
           endpoint[x] = "active" /\ \A d \in delivery : d.endpoint = x => d \in delivery'
      /\ \A x \in Endpoints : endpoint[x] # "absent" => endpoint'[x] # "absent"
      /\ delivery' \subseteq delivery
      /\ UNCHANGED <<verdict, reply, path, status, mail, hook, loop, faults>>
  BY DEF TypeOK, Create, Delete, hooks
<1>2. TypeOK' /\ Jobs'
  BY <1>1 DEF TypeOK, Jobs, loop
<1>3. ASSUME NEW k \in Runs PROVE Serving(k)'
  <2>1. \A x \in Endpoints : endpoint[x] # "absent" /\ endpoint'[x] = "active" =>
          (Served(k, x) => Served(k, x)')
    BY <1>1 DEF Served
  <2>2. RowOf(k, "pending")' = RowOf(k, "pending") /\ RowOf(k, "pending").endpoint = at[k]
    BY <1>1 DEF RowOf, Row, loop
  <2>3. \A x \in Endpoints : Wants(x)' <=> Wants(x)
    BY <1>1 DEF Wants, Event
  <2>4. Serving(k)
    OBVIOUS
  <2> QED BY <1>1, <2>1, <2>2, <2>3, <2>4, HookIs DEF Serving, loop
<1> QED BY <1>2, <1>3

LEMMA StepIInv == IInv /\ [Next]_vars => IInv'
<1> SUFFICES ASSUME IInv, [Next]_vars PROVE IInv'
  OBVIOUS
<1>1. CASE StatusStep \/ StatusThrows \/ StatusDies
  BY <1>1, StatusKeeps
<1>2. ASSUME NEW k \in Runs,
             \/ MailStep(k) \/ MailDies(k)
             \/ HookStep(k) \/ MarkSuccessFails(k) \/ HookThrows(k) \/ HookDies(k)
      PROVE  IInv'
  BY <1>2, MailKeeps, HookTakeKeeps, InsertKeeps, CallKeeps, MarkKeeps, HookEndsKeeps, HookEndsEarly
     DEF HookStep
<1>3. CASE (\E e \in Endpoints : Create(e)) \/ (\E e \in Removable : Delete(e))
  BY <1>3, EndpointKeeps, NoticesAssumption
<1>4. CASE UNCHANGED vars
  <2>1. UNCHANGED <<verdict, reply, path, status, mail, endpoint, hook, listed, todo, at, delivery, faults>>
    BY <1>4 DEF vars, hooks, loop
  <2>2. TypeOK' /\ Jobs'
    BY <2>1 DEF IInv, TypeOK, Jobs
  <2> QED BY <2>1, <2>2, LoopStays DEF IInv
<1> QED BY <1>1, <1>2, <1>3, <1>4 DEF Next

\* Every processor is where its loop says, whatever fails or is deleted.
THEOREM Invariance == Spec => []IInv
BY InitIInv, StepIInv, PTL DEF Spec

\* The types of every variable.
THEOREM TypeCorrect == Spec => []TypeOK
BY Invariance, PTL DEF IInv

\* One endpoint that fails costs no other its delivery.
THEOREM ServesAll == Spec => []CompletedServesAll
<1>1. IInv => CompletedServesAll
  BY DEF IInv, Serving, Served, Jobs, Sound, CompletedServesAll
<1> QED BY <1>1, Invariance, PTL

\* A list read before a deletion calls nobody after it.
THEOREM DeletedSilent == Spec => DeletedHearsNoMore
<1>1. TypeOK /\ [Next]_vars =>
        [\A k \in Runs, e \in Endpoints : endpoint[e] = "deleted" /\ at[k] # e => at'[k] # e]_vars
  <2> SUFFICES ASSUME TypeOK, Next, NEW k \in Runs, NEW e \in Endpoints,
                      endpoint[e] = "deleted", at[k] # e
               PROVE  at'[k] # e
    BY DEF vars
  <2>1. CASE \E r \in Runs, x \in Endpoints : Insert(r, x)
    BY <2>1 DEF Insert, TypeOK
  <2>2. CASE at' = at
    BY <2>2
  <2>3. CASE \E r \in Runs : at' = [at EXCEPT ![r] = None]
    BY <2>3, NoticesAssumption DEF TypeOK
  <2> QED BY <2>1, <2>2, <2>3
          DEF Next, StatusStep, StatusTake, StatusParse, SavePath, AddMail, AddHook, StatusEnds, StatusThrows,
              StatusDies, MailStep, MailTake, MailBuild, MailDies, MailOnly, HookStep,
              HookTake, InsertRefused, Post, MarkSuccess, MarkSuccessFails, MarkFailed, HookEnds,
              HookThrows, HookDies, Left, Create, Delete, hooks, loop
<1> QED BY <1>1, TypeCorrect, PTL DEF Spec, DeletedHearsNoMore
================================================================================
