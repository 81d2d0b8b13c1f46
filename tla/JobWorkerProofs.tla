--------------------------- MODULE JobWorkerProofs ---------------------------
(***************************************************************************)
(* Theorems about JobWorker, for any number of workers, recipients and     *)
(* jobs, any size of a poll, and under every fault.                        *)
(***************************************************************************)
EXTENDS JobWorker, TLAPS

-----------------------------------------------------------------------------
\* The invariant.

\* What a worker holds at each await: a mail while it works on one, a job while
\* it works on one, a verdict before it writes it, nothing while it sleeps.
WorkerOK ==
    \A w \in Workers :
        /\ pc[w] \in {"reload", "ledger", "send", "record"} => key[w] \in Key
        /\ pc[w] \in {"idle", "next", "down"} => job[w] = 0
        /\ pc[w] \in {"reload", "ledger", "send", "record", "finish"} => job[w] # 0
        /\ pc[w] = "finish" => result[w] \in {"COMPLETED", "FAILED"}
        /\ pc[w] \in {"idle", "down"} => batch[w] = {}
        /\ job[w] \notin batch[w]

QueueInv == TypeOK /\ WorkerOK /\ ClaimedByOne

\* A new status makes a job row of a job row and changes nothing else of it.
LEMMA WithStatusType ==
    ASSUME NEW j \in JobType, NEW s \in JobStatus
    PROVE  /\ WithStatus(j, s) \in JobType
           /\ WithStatus(j, s).booking = j.booking /\ WithStatus(j, s).type = j.type
           /\ WithStatus(j, s).at = j.at /\ WithStatus(j, s).status = s
BY DEF WithStatus, Job, JobType

\* A sequence of jobs is a function on 1..n to job rows.
LEMMA JobsDomain ==
    ASSUME TypeOK
    PROVE  /\ Len(jobs) \in Nat /\ DOMAIN jobs = 1..Len(jobs) /\ 0 \notin DOMAIN jobs
           /\ \A i \in DOMAIN jobs : jobs[i] \in JobType
BY DEF TypeOK

\* What a claim makes of the jobs: those that are claimed are PROCESSING.
LEMMA ClaimedType ==
    ASSUME TypeOK, NEW S \in SUBSET (DOMAIN jobs)
    PROVE  /\ Claimed(S) \in Seq(JobType)
           /\ DOMAIN Claimed(S) = DOMAIN jobs
           /\ \A i \in S : Claimed(S)[i].status = "PROCESSING"
           /\ \A i \in DOMAIN jobs \ S : Claimed(S)[i] = jobs[i]
<1>1. \A i \in DOMAIN jobs : WithStatus(jobs[i], "PROCESSING") \in JobType
                            /\ WithStatus(jobs[i], "PROCESSING").status = "PROCESSING"
  BY JobsDomain, WithStatusType DEF JobStatus
<1>2. \A i \in DOMAIN jobs : Claimed(S)[i] \in JobType
  BY <1>1, JobsDomain DEF Claimed
<1>3. Claimed(S) = [i \in 1..Len(jobs) |-> Claimed(S)[i]]
  BY JobsDomain DEF Claimed
<1>4. Claimed(S) \in Seq(JobType)
  BY <1>2, <1>3, JobsDomain
<1> QED
  BY <1>1, <1>4, JobsDomain DEF Claimed

\* Jobs that only workers hold stay as they are when the other jobs change.
LEMMA HeldStay ==
    ASSUME ClaimedByOne, \A w \in Workers : Held(w)' \subseteq Held(w),
           DOMAIN jobs \subseteq DOMAIN jobs',
           \A w \in Workers : \A i \in Held(w)' : jobs'[i].status = jobs[i].status
    PROVE  ClaimedByOne'
BY DEF ClaimedByOne

\* A worker that goes on with less than it held.
LEMMA WorkerStay ==
    ASSUME QueueInv, NEW w \in Workers, UNCHANGED jobs,
           batch' \in [Workers -> SUBSET Nat], job' \in [Workers -> Nat],
           \A v \in Workers \ {w} : batch'[v] = batch[v] /\ job'[v] = job[v],
           Held(w)' \subseteq Held(w)
    PROVE  ClaimedByOne'
<1>1. \A v \in Workers : Held(v)' \subseteq Held(v)
  BY DEF Held
<1> QED
  BY <1>1, HeldStay DEF QueueInv

\* The initial state.
LEMMA InitQueue == Init => QueueInv
BY WorkerAssumption
   DEF Init, QueueInv, TypeOK, WorkerOK, ClaimedByOne, Held, Pcs

\* Polling.
LEMMA ClaimQueue ==
    ASSUME QueueInv, NEW w \in Workers, NEW S \in SUBSET (DOMAIN jobs), Claim(w, S)
    PROVE  QueueInv'
<1>1. TypeOK'
  <2>1. jobs' \in Seq(JobType)
    BY ClaimedType DEF Claim, QueueInv
  <2>2. S \in SUBSET Nat
    BY JobsDomain DEF QueueInv
  <2> QED
    BY <2>1, <2>2 DEF Claim, QueueInv, TypeOK, Pcs
<1>2. WorkerOK'
  BY JobsDomain DEF Claim, QueueInv, WorkerOK, TypeOK
<1>3. ClaimedByOne'
  <2>1. /\ DOMAIN jobs' = DOMAIN jobs
        /\ \A i \in S : jobs'[i].status = "PROCESSING"
        /\ \A i \in DOMAIN jobs \ S : jobs'[i] = jobs[i]
    BY ClaimedType DEF Claim, QueueInv
  <2>2. Held(w)' = S
    BY DEF Claim, QueueInv, WorkerOK, TypeOK, Held
  <2>3. \A v \in Workers \ {w} : Held(v)' = Held(v)
    BY DEF Claim, QueueInv, TypeOK, Held
  <2>4. \A v \in Workers : Held(v) \cap S = {}
    BY DEF Claim, Due, QueueInv, ClaimedByOne
  <2> QED
    BY <2>1, <2>2, <2>3, <2>4 DEF QueueInv, ClaimedByOne
<1> QED
  BY <1>1, <1>2, <1>3 DEF QueueInv

\* A worker takes a job out of its batch.
LEMMA BeginQueue ==
    ASSUME QueueInv, NEW w \in Workers, NEW i \in batch[w], pc[w] = "next",
           NEW at \in {"reload", "ledger", "send", "finish"}, NEW k \in Key \cup {NoKey},
           NEW r \in {"none", "COMPLETED", "FAILED"},
           at # "finish" => k \in Key, at = "finish" => r # "none",
           Begin(w, i, at, k, r), UNCHANGED <<tables, now>>
    PROVE  QueueInv'
<1>1. i \in Nat /\ i # 0 /\ i \in Held(w)
  BY JobsDomain DEF QueueInv, ClaimedByOne, Held, TypeOK
<1>2. TypeOK'
  BY <1>1 DEF QueueInv, TypeOK, Begin, tables, Pcs
<1>3. WorkerOK'
  BY <1>1 DEF QueueInv, TypeOK, WorkerOK, Begin
<1>4. ClaimedByOne'
  <2>1. Held(w)' \subseteq Held(w)
    BY <1>1 DEF QueueInv, TypeOK, Begin, Held
  <2> QED
    BY <2>1, <1>1, <1>2, WorkerStay DEF QueueInv, TypeOK, Begin, tables
<1> QED
  BY <1>2, <1>3, <1>4 DEF QueueInv

\* process_job goes on, with its job and its batch.
LEMMA SameJobQueue ==
    ASSUME QueueInv, NEW w \in Workers, UNCHANGED <<jobs, batch, job>>, TypeOK', WorkerOK'
    PROVE  QueueInv'
<1>1. \A v \in Workers : Held(v)' = Held(v)
  BY DEF Held
<1> QED
  BY <1>1, HeldStay DEF QueueInv

\* The memory of the worker is lost.
LEMMA ResetQueue ==
    ASSUME QueueInv, NEW w \in Workers, NEW at \in {"idle", "down"}, Reset(w, at),
           UNCHANGED <<tables, now>>
    PROVE  QueueInv'
<1>1. TypeOK' /\ WorkerOK'
  BY DEF QueueInv, TypeOK, WorkerOK, Reset, tables, Pcs
<1>2. Held(w)' = {}
  BY DEF QueueInv, TypeOK, Reset, Held
<1> QED
  BY <1>1, <1>2, WorkerStay DEF QueueInv, TypeOK, Reset, tables

\* A mail that process_job has loaded is a key of the ledger.
LEMMA MailType ==
    ASSUME NEW b \in Recipients, NEW t \in Triggers \cup Campaigns, NEW s \in StartTimes
    PROVE  Mail(b, t, s) \in Key
BY DEF Mail, Key

\* The jobs of a batch are rows about a recipient.
LEMMA BatchRow ==
    ASSUME QueueInv, NEW w \in Workers, NEW i \in batch[w]
    PROVE  i \in DOMAIN jobs /\ jobs[i] \in JobType /\ jobs[i].booking \in Recipients
<1>1. i \in DOMAIN jobs
  BY DEF QueueInv, ClaimedByOne, Held
<1> QED
  BY <1>1, JobsDomain DEF QueueInv, JobType

\* The first awaits of process_job.
LEMMA LoadQueue ==
    ASSUME QueueInv, NEW w \in Workers, NEW i \in batch[w],
           LoadStandard(w, i) \/ LoadCampaign(w, i)
    PROVE  QueueInv'
<1> DEFINE b == jobs[i].booking
           trigger == ResolvedTrigger(jobs[i].type, jobs[i].at, rows[b])
<1>0. /\ b \in Recipients /\ rows[b] \in StartTimes \cup {NoRow}
      /\ RuleTriggers \subseteq Triggers
  BY BatchRow, WorkerAssumption DEF QueueInv, TypeOK
<1>1. CASE LoadStandard(w, i)
  <2>1. CASE /\ rows[b] # NoRow /\ trigger \in RuleTriggers
             /\ Begin(w, i, "ledger", Mail(b, trigger, rows[b]), "none")
    <3>1. Mail(b, trigger, rows[b]) \in Key
      BY <1>0, <2>1, MailType
    <3> QED
      BY <1>1, <2>1, <3>1, BeginQueue DEF LoadStandard
  <2>2. CASE Begin(w, i, "finish", NoKey, "COMPLETED")
    BY <1>1, <2>2, BeginQueue DEF LoadStandard
  <2>3. CASE Begin(w, i, "finish", NoKey, "FAILED")
    BY <1>1, <2>3, BeginQueue DEF LoadStandard
  <2> QED
    BY <1>1, <2>1, <2>2, <2>3 DEF LoadStandard
<1>2. CASE LoadCampaign(w, i)
  <2>1. CASE /\ rows[b] # NoRow
             /\ Begin(w, i, IF jobs[i].type = "CAMPAIGN:BOOKING" THEN "reload" ELSE "send",
                      Mail(b, jobs[i].type, rows[b]), "none")
    <3>1. Mail(b, jobs[i].type, rows[b]) \in Key
      BY <1>0, <1>2, <2>1, MailType DEF LoadCampaign
    <3> QED
      BY <1>2, <2>1, <3>1, BeginQueue DEF LoadCampaign
  <2>2. CASE Begin(w, i, "finish", NoKey, "FAILED")
    BY <1>2, <2>2, BeginQueue DEF LoadCampaign
  <2> QED
    BY <1>2, <2>1, <2>2 DEF LoadCampaign
<1> QED
  BY <1>1, <1>2

\* The other awaits of process_job, and the sleep of the loop.
LEMMA ProcessQueue ==
    ASSUME QueueInv, NEW w \in Workers,
           \/ Sleep(w) \/ Reload(w) \/ CheckLedger(w) \/ Send(w) \/ SendFails(w) \/ Record(w)
    PROVE  QueueInv'
<1>1. CASE Sleep(w)
  <2>1. TypeOK' /\ WorkerOK'
    BY <1>1 DEF QueueInv, TypeOK, WorkerOK, Sleep, tables, Pcs
  <2> QED
    BY <1>1, <2>1, SameJobQueue DEF Sleep, tables
<1>2. CASE Reload(w)
  <2>0. key[w] \in Key
    BY <1>2 DEF Reload, QueueInv, WorkerOK
  <2>1. CASE Reset(w, "down")
    BY <1>2, <2>1, ResetQueue DEF Reload
  <2>2. CASE Ends(w, "FAILED")
    <3>1. TypeOK' /\ WorkerOK'
      BY <1>2, <2>2 DEF QueueInv, TypeOK, WorkerOK, Reload, Ends, tables, Pcs
    <3> QED
      BY <1>2, <2>2, <3>1, SameJobQueue DEF Reload, Ends, tables
  <2>3. CASE /\ rows[key[w].booking] # NoRow
             /\ pc' = [pc EXCEPT ![w] = "send"]
             /\ key' = [key EXCEPT ![w] = Mail(key[w].booking, key[w].template,
                                              rows[key[w].booking])]
             /\ UNCHANGED <<batch, job, result>>
    <3>1. Mail(key[w].booking, key[w].template, rows[key[w].booking]) \in Key
      <4>1. /\ key[w].booking \in Recipients /\ key[w].template \in Triggers \cup Campaigns
        BY <2>0 DEF Key
      <4>2. rows[key[w].booking] \in StartTimes
        BY <2>3, <4>1 DEF QueueInv, TypeOK
      <4> QED
        BY <4>1, <4>2, MailType
    <3>2. TypeOK' /\ WorkerOK'
      BY <1>2, <2>3, <3>1 DEF QueueInv, TypeOK, WorkerOK, Reload, tables, Pcs
    <3> QED
      BY <1>2, <2>3, <3>2, SameJobQueue DEF Reload, tables
  <2> QED
    BY <1>2, <2>1, <2>2, <2>3 DEF Reload
<1>3. CASE CheckLedger(w)
  <2>1. TypeOK' /\ WorkerOK'
    BY <1>3 DEF QueueInv, TypeOK, WorkerOK, CheckLedger, Goto, Ends, tables, Pcs
  <2> QED
    BY <1>3, <2>1, SameJobQueue DEF CheckLedger, Goto, Ends, tables
<1>4. CASE Send(w) \/ SendFails(w)
  <2>1. SentMails(w) \in Seq([job : Nat, key : Key])
    BY <1>4 DEF QueueInv, TypeOK, WorkerOK, Send, SendFails, SentMails
  <2>2. TypeOK'
    BY <1>4, <2>1 DEF QueueInv, TypeOK, WorkerOK, Send, SendFails, Goto, Ends, Pcs
  <2>3. WorkerOK'
    BY <1>4 DEF QueueInv, TypeOK, WorkerOK, Send, SendFails, Goto, Ends
  <2> QED
    BY <1>4, <2>2, <2>3, SameJobQueue DEF Send, SendFails, Goto, Ends
<1>5. CASE Record(w)
  <2>1. TypeOK' /\ WorkerOK'
    BY <1>5 DEF QueueInv, TypeOK, WorkerOK, Record, Ends, Pcs
  <2> QED
    BY <1>5, <2>1, SameJobQueue DEF Record, Ends
<1> QED
  BY <1>1, <1>2, <1>3, <1>4, <1>5

\* update_status: only the job of the worker changes, and the worker lets it go.
LEMMA FinishQueue ==
    ASSUME QueueInv, NEW w \in Workers, Finish(w)
    PROVE  QueueInv'
<1>1. /\ job[w] \in DOMAIN jobs /\ jobs[job[w]] \in JobType /\ job[w] \in Held(w)
      /\ FinalStatus(w) \in JobStatus
  BY JobsDomain DEF Finish, QueueInv, WorkerOK, ClaimedByOne, Held, FinalStatus, JobStatus
<1>2. /\ jobs' \in Seq(JobType) /\ DOMAIN jobs' = DOMAIN jobs
      /\ \A i \in DOMAIN jobs : i # job[w] => jobs'[i] = jobs[i]
  <2>1. WithStatus(jobs[job[w]], FinalStatus(w)) \in JobType
    BY <1>1, WithStatusType
  <2>2. CASE UNCHANGED jobs
    BY <2>2 DEF QueueInv, TypeOK
  <2>3. CASE jobs' = [jobs EXCEPT ![job[w]] = WithStatus(jobs[job[w]], FinalStatus(w))]
    <3>1. jobs' = [i \in 1..Len(jobs) |->
                      IF i = job[w] THEN WithStatus(jobs[i], FinalStatus(w)) ELSE jobs[i]]
      BY <2>3, JobsDomain DEF QueueInv
    <3>2. jobs' \in Seq(JobType)
      BY <3>1, <2>1, JobsDomain DEF QueueInv
    <3> QED
      BY <3>1, <3>2, JobsDomain DEF QueueInv
  <2> QED
    BY <2>2, <2>3 DEF Finish
<1>3. TypeOK' /\ WorkerOK'
  <2>1. TypeOK'
    BY <1>2 DEF Finish, TakeNext, QueueInv, TypeOK, Pcs
  <2>2. \A v \in Workers : 0 \notin batch[v]
    BY JobsDomain DEF QueueInv, ClaimedByOne, Held
  <2>3. WorkerOK'
    BY <2>2 DEF Finish, TakeNext, QueueInv, TypeOK, WorkerOK
  <2> QED
    BY <2>1, <2>3
<1>4. \A v \in Workers : Held(v)' \subseteq Held(v) \ {job[w]}
  <2>1. Held(w)' \subseteq Held(w) \ {job[w]}
    BY <1>1 DEF Finish, TakeNext, QueueInv, TypeOK, WorkerOK, Held
  <2>2. \A v \in Workers \ {w} : Held(v)' = Held(v)
    BY DEF Finish, TakeNext, QueueInv, TypeOK, Held
  <2>3. \A v \in Workers \ {w} : job[w] \notin Held(v)
    BY <1>1 DEF QueueInv, ClaimedByOne
  <2> QED
    BY <2>1, <2>2, <2>3
<1>5. ClaimedByOne'
  BY <1>2, <1>4 DEF QueueInv, ClaimedByOne
<1> QED
  BY <1>3, <1>5 DEF QueueInv

\* What the withdrawal makes of the jobs: a claimed job stays as it is.
LEMMA CancelJobs ==
    ASSUME TypeOK, NEW b \in Recipients, CancelJobsForBooking(b)
    PROVE  /\ jobs' \in Seq(JobType) /\ DOMAIN jobs' = DOMAIN jobs
           /\ \A i \in DOMAIN jobs :
                 \/ jobs'[i] = jobs[i]
                 \/ jobs[i].status = "PENDING" /\ jobs'[i] = WithStatus(jobs[i], "CANCELLED")
<1> DEFINE new(i) == IF Withdraws(jobs[i], b) THEN WithStatus(jobs[i], "CANCELLED") ELSE jobs[i]
<1>1. \A i \in DOMAIN jobs : new(i) \in JobType
  BY JobsDomain, WithStatusType DEF JobStatus
<1>2. jobs' = [i \in 1..Len(jobs) |-> new(i)]
  BY JobsDomain DEF CancelJobsForBooking
<1>3. jobs' \in Seq(JobType)
  BY <1>1, <1>2, JobsDomain
<1> QED
  BY <1>2, <1>3, JobsDomain DEF Withdraws

\* The handlers change no job that a worker holds.
LEMMA HandlersQueue ==
    ASSUME QueueInv, Handlers
    PROVE  QueueInv'
<1>1. ASSUME NEW b \in Recipients, NEW t \in QueuedTypes, NEW at \in now..LastTime,
             Enqueue(b, t, at)
      PROVE  QueueInv'
  <2>1. Job(b, t, at, "PENDING") \in JobType
    BY WorkerAssumption DEF Job, JobType, JobStatus, QueueInv, TypeOK
  <2>2. /\ jobs' \in Seq(JobType) /\ DOMAIN jobs \subseteq DOMAIN jobs'
        /\ \A i \in DOMAIN jobs : jobs'[i] = jobs[i]
    BY <1>1, <2>1 DEF Enqueue, QueueInv, TypeOK
  <2>3. TypeOK' /\ WorkerOK'
    BY <1>1, <2>2 DEF Enqueue, locals, QueueInv, TypeOK, WorkerOK
  <2>4. ClaimedByOne'
    BY <1>1, <2>2 DEF Enqueue, locals, QueueInv, ClaimedByOne, Held
  <2> QED
    BY <2>3, <2>4 DEF QueueInv
<1>2. ASSUME NEW b \in Recipients, CancelJobsForBooking(b)
      PROVE  QueueInv'
  <2>1. TypeOK' /\ WorkerOK'
    BY <1>2, CancelJobs DEF CancelJobsForBooking, locals, QueueInv, TypeOK, WorkerOK
  <2>2. \A i \in DOMAIN jobs : jobs[i].status = "PROCESSING" => jobs'[i] = jobs[i]
    BY <1>2, CancelJobs DEF QueueInv
  <2>3. ClaimedByOne'
    BY <1>2, <2>2, CancelJobs DEF CancelJobsForBooking, locals, QueueInv, ClaimedByOne, Held
  <2> QED
    BY <2>1, <2>3 DEF QueueInv
<1>3. ASSUME NEW b \in Recipients, DeleteRow(b) \/ \E s \in StartTimes : MoveBooking(b, s)
      PROVE  QueueInv'
  BY <1>3 DEF DeleteRow, MoveBooking, locals, QueueInv, TypeOK, WorkerOK, ClaimedByOne, Held
<1> QED
  BY <1>1, <1>2, <1>3 DEF Handlers

\* Every step keeps the invariant.
LEMMA NextQueue == QueueInv /\ [Next]_vars => QueueInv'
<1> SUFFICES ASSUME QueueInv, [Next]_vars PROVE QueueInv'
  OBVIOUS
<1>1. ASSUME NEW w \in Workers, Poll(w) PROVE QueueInv'
  BY <1>1, ClaimQueue DEF Poll
<1>2. ASSUME NEW w \in Workers, WorkerStep(w) PROVE QueueInv'
  BY <1>2, ProcessQueue, FinishQueue, LoadQueue DEF WorkerStep
<1>3. ASSUME NEW w \in Workers, Crash(w) \/ Restart(w) PROVE QueueInv'
  BY <1>3, ResetQueue DEF Crash, Restart
<1>4. CASE Tick
  BY <1>4 DEF Tick, locals, QueueInv, TypeOK, WorkerOK, ClaimedByOne, Held
<1>5. CASE UNCHANGED vars
  BY <1>5 DEF vars, tables, locals, QueueInv, TypeOK, WorkerOK, ClaimedByOne, Held
<1> QED
  BY <1>1, <1>2, <1>3, <1>4, <1>5, HandlersQueue DEF Next

\* The tables and what the workers hold stay well typed.
THEOREM WorkerTypeCorrect == Spec => []TypeOK
<1>1. QueueInv => TypeOK
  BY DEF QueueInv
<1> QED
  BY <1>1, InitQueue, NextQueue, PTL DEF Spec

\* find_pending hands a job to one worker, which keeps it until the job ends,
\* whatever fails and whoever withdraws jobs meanwhile.
THEOREM JobsClaimedByOne == Spec => []ClaimedByOne
<1>1. QueueInv => ClaimedByOne
  BY DEF QueueInv
<1> QED
  BY <1>1, InitQueue, NextQueue, PTL DEF Spec

-----------------------------------------------------------------------------
\* The jobs table keeps its promise, and mails and ledger only grow.

Grow ==
    /\ \A i \in DOMAIN jobs : i \in DOMAIN jobs' /\ Queue!Follows(jobs[i], jobs'[i])
    /\ \A i \in DOMAIN jobs' \ DOMAIN jobs : jobs'[i].status = "PENDING"
    /\ \A m \in DOMAIN mails : m \in DOMAIN mails' /\ mails'[m] = mails[m]
    /\ ledger \subseteq ledger'

\* A job that does not change follows itself.
LEMMA FollowsSelf == ASSUME NEW j PROVE Queue!Follows(j, j)
BY DEF Queue!Follows

\* A status of the lifecycle is a legal step of a job.
LEMMA FollowsStatus ==
    ASSUME NEW j \in JobType, NEW s \in JobStatus, <<j.status, s>> \in Queue!Lifecycle
    PROVE  Queue!Follows(j, WithStatus(j, s))
BY WithStatusType DEF Queue!Follows

\* A step that leaves the jobs alone.
LEMMA SameJobsGrow ==
    ASSUME UNCHANGED jobs, ledger \subseteq ledger',
           \A m \in DOMAIN mails : m \in DOMAIN mails' /\ mails'[m] = mails[m]
    PROVE  Grow
BY FollowsSelf DEF Grow

\* What Send and SendFails add is at the end.
LEMMA SentGrow ==
    ASSUME QueueInv, NEW w \in Workers
    PROVE  /\ \A m \in DOMAIN mails : m \in DOMAIN SentMails(w) /\ SentMails(w)[m] = mails[m]
           /\ Len(mails) \in Nat /\ DOMAIN mails = 1..Len(mails)
           /\ DOMAIN SentMails(w) = DOMAIN mails \cup {Len(mails) + 1}
           /\ SentMails(w)[Len(mails) + 1] = [job |-> job[w], key |-> key[w]]
BY DEF QueueInv, TypeOK, SentMails

\* The steps of a worker respect the lifecycle: it claims PENDING jobs only and
\* ends only the job it holds.
LEMMA WorkerGrow ==
    ASSUME QueueInv, NEW w \in Workers, WorkerStep(w) \/ Crash(w) \/ Restart(w) \/ Poll(w)
    PROVE  Grow
<1>1. ASSUME NEW S \in SUBSET (DOMAIN jobs), Claim(w, S) PROVE Grow
  <2>1. \A i \in S : Queue!Follows(jobs[i], WithStatus(jobs[i], "PROCESSING"))
    BY <1>1, JobsDomain, FollowsStatus DEF QueueInv, Claim, Due, JobStatus, Queue!Lifecycle
  <2>2. /\ DOMAIN jobs' = DOMAIN jobs
        /\ \A i \in DOMAIN jobs : jobs'[i] = IF i \in S THEN WithStatus(jobs[i], "PROCESSING")
                                             ELSE jobs[i]
    BY <1>1 DEF Claim, Claimed
  <2> QED
    BY <1>1, <2>1, <2>2, FollowsSelf DEF Claim, Grow
<1>2. CASE Finish(w)
  <2>1. /\ job[w] \in DOMAIN jobs /\ jobs[job[w]] \in JobType
        /\ jobs[job[w]].status = "PROCESSING" /\ FinalStatus(w) \in {"COMPLETED", "FAILED"}
    BY <1>2, JobsDomain DEF Finish, QueueInv, WorkerOK, ClaimedByOne, Held, FinalStatus
  <2>2. Queue!Follows(jobs[job[w]], WithStatus(jobs[job[w]], FinalStatus(w)))
    BY <2>1, FollowsStatus DEF JobStatus, Queue!Lifecycle
  <2>3. /\ DOMAIN jobs' = DOMAIN jobs
        /\ \A i \in DOMAIN jobs : Queue!Follows(jobs[i], jobs'[i])
    BY <1>2, <2>1, <2>2, FollowsSelf DEF Finish
  <2> QED
    BY <1>2, <2>3 DEF Finish, Grow
<1>3. CASE Send(w) \/ SendFails(w)
  BY <1>3, SentGrow, SameJobsGrow DEF Send, SendFails
<1>4. CASE \/ Sleep(w) \/ Reload(w) \/ CheckLedger(w) \/ Record(w) \/ Crash(w)
           \/ Restart(w)
           \/ \E i \in batch[w] : LoadStandard(w, i) \/ LoadCampaign(w, i)
  BY <1>4, SameJobsGrow
     DEF Sleep, Reload, CheckLedger, Record, Crash, Restart, LoadStandard, LoadCampaign, tables
<1> QED
  BY <1>1, <1>2, <1>3, <1>4 DEF WorkerStep, Poll

\* So do the handlers: new jobs are PENDING and only PENDING jobs are withdrawn.
LEMMA HandlersGrow ==
    ASSUME QueueInv, Handlers
    PROVE  Grow
<1>1. ASSUME NEW b \in Recipients, NEW t \in QueuedTypes, NEW at \in now..LastTime,
             Enqueue(b, t, at)
      PROVE  Grow
  <2>1. /\ DOMAIN jobs' = DOMAIN jobs \cup {Len(jobs) + 1}
        /\ \A i \in DOMAIN jobs : jobs'[i] = jobs[i]
        /\ jobs'[Len(jobs) + 1].status = "PENDING"
    BY <1>1, JobsDomain DEF Enqueue, QueueInv, TypeOK, Job
  <2> QED
    BY <1>1, <2>1, FollowsSelf DEF Enqueue, Grow
<1>2. ASSUME NEW b \in Recipients, CancelJobsForBooking(b)
      PROVE  Grow
  <2>1. \A i \in DOMAIN jobs : Queue!Follows(jobs[i], jobs'[i])
    BY <1>2, CancelJobs, JobsDomain, FollowsSelf, FollowsStatus
       DEF QueueInv, JobStatus, Queue!Lifecycle
  <2> QED
    BY <1>2, <2>1, CancelJobs DEF CancelJobsForBooking, Grow, QueueInv
<1>3. ASSUME NEW b \in Recipients, DeleteRow(b) \/ \E s \in StartTimes : MoveBooking(b, s)
      PROVE  Grow
  BY <1>3, SameJobsGrow DEF DeleteRow, MoveBooking
<1> QED
  BY <1>1, <1>2, <1>3 DEF Handlers

\* Every step respects the lifecycle.
LEMMA NextGrow == QueueInv /\ [Next]_vars => Grow
<1> SUFFICES ASSUME QueueInv, [Next]_vars PROVE Grow
  OBVIOUS
<1>1. CASE Tick \/ UNCHANGED vars
  BY <1>1, SameJobsGrow DEF Tick, vars, tables
<1> QED
  BY <1>1, WorkerGrow, HandlersGrow DEF Next

\* Workers, handlers and faults together implement JobQueue: a job is withdrawn
\* or claimed once, ends once, and what it is about never changes.
THEOREM WorkerImplementsJobQueue == Spec => ImplementsJobQueue
<1>1. Init => Queue!Init
  BY DEF Init, Queue!Init
<1>2. QueueInv /\ QueueInv' /\ [Next]_vars => [Queue!Step]_jobs
  <2> SUFFICES ASSUME QueueInv, QueueInv', [Next]_vars PROVE Queue!Step
    OBVIOUS
  <2>1. Grow
    BY NextGrow
  <2>2. /\ Len(jobs) \in Nat /\ DOMAIN jobs = 1..Len(jobs)
        /\ Len(jobs') \in Nat /\ DOMAIN jobs' = 1..Len(jobs')
    BY DEF QueueInv, TypeOK
  <2>3. Len(jobs) <= Len(jobs')
    BY <2>1, <2>2 DEF Grow
  <2> QED
    BY <2>1, <2>2, <2>3 DEF Grow, Queue!Step
<1> QED
  BY <1>1, <1>2, InitQueue, NextQueue, PTL DEF Spec, ImplementsJobQueue, Queue!Spec

-----------------------------------------------------------------------------
\* One mail per job.

\* A mailed job has been claimed, waits in no batch, and the worker that still
\* works on it is past its send.
MailInv ==
    /\ \A m \in DOMAIN mails :
          /\ mails[m].job \in DOMAIN jobs
          /\ jobs[mails[m].job].status \notin {"PENDING", "CANCELLED"}
          /\ \A w \in Workers :
                /\ mails[m].job \notin batch[w]
                /\ mails[m].job = job[w] => pc[w] \in {"record", "finish"}
    /\ OneMailPerJob

\* What worker w holds after a step that sends nothing: jobs it had in its batch
\* or claims in this step, and a job it has mailed only past its send.
Keeps(w) ==
    /\ \A i \in batch'[w] : i \in batch[w] \/ (i \in DOMAIN jobs /\ jobs[i].status = "PENDING")
    /\ \/ job'[w] = 0 \/ job'[w] \in batch[w]
       \/ /\ job'[w] = job[w]
          /\ pc[w] \in {"record", "finish"} => pc'[w] \in {"record", "finish"}

\* A step without a mail.
LEMMA NoMail ==
    ASSUME QueueInv, MailInv, Grow, UNCHANGED mails, \A w \in Workers : Keeps(w)
    PROVE  MailInv'
<1>1. OneMailPerJob'
  BY DEF MailInv, OneMailPerJob
<1>2. ASSUME NEW m \in DOMAIN mails
      PROVE  /\ mails[m].job \in DOMAIN jobs'
             /\ jobs'[mails[m].job].status \notin {"PENDING", "CANCELLED"}
             /\ \A w \in Workers :
                   /\ mails[m].job \notin batch'[w]
                   /\ mails[m].job = job'[w] => pc'[w] \in {"record", "finish"}
  <2>1. /\ mails[m].job \in DOMAIN jobs' /\ mails[m].job # 0
        /\ Queue!Follows(jobs[mails[m].job], jobs'[mails[m].job])
    BY <1>2, JobsDomain DEF MailInv, Grow, QueueInv
  <2>2. jobs'[mails[m].job].status \notin {"PENDING", "CANCELLED"}
    BY <1>2, <2>1 DEF MailInv, Queue!Follows, Queue!Lifecycle
  <2> QED
    BY <1>2, <2>1, <2>2 DEF MailInv, Keeps
<1> QED
  BY <1>1, <1>2 DEF MailInv

\* A step with a mail: the worker holds the job, and nobody has mailed it.
LEMMA OneMail ==
    ASSUME QueueInv, MailInv, NEW w \in Workers, pc[w] = "send",
           mails' = SentMails(w), pc' = [pc EXCEPT ![w] = pc'[w]],
           pc'[w] \in {"record", "finish"}, UNCHANGED <<jobs, batch, job>>
    PROVE  MailInv'
<1>0. /\ Len(mails) \in Nat /\ DOMAIN mails = 1..Len(mails)
      /\ DOMAIN mails' = DOMAIN mails \cup {Len(mails) + 1}
      /\ \A m \in DOMAIN mails : mails'[m] = mails[m]
      /\ mails'[Len(mails) + 1].job = job[w]
  BY DEF SentMails, QueueInv, TypeOK
<1>1. /\ job[w] # 0 /\ job[w] \in Held(w) /\ job[w] \in DOMAIN jobs
      /\ jobs[job[w]].status = "PROCESSING" /\ job[w] \notin batch[w]
  BY DEF QueueInv, WorkerOK, ClaimedByOne, Held
<1>2. \A v \in Workers \ {w} : job[w] \notin batch[v] /\ job[w] # job[v]
  BY <1>1 DEF QueueInv, ClaimedByOne, Held
<1>3. \A m \in DOMAIN mails : mails[m].job # job[w]
  BY DEF MailInv
<1>4. OneMailPerJob'
  BY <1>0, <1>3 DEF MailInv, OneMailPerJob
<1>5. \A v \in Workers : pc'[v] = pc[v] \/ v = w
  BY DEF QueueInv, TypeOK
<1>6. ASSUME NEW m \in DOMAIN mails'
      PROVE  /\ mails'[m].job \in DOMAIN jobs
             /\ jobs[mails'[m].job].status \notin {"PENDING", "CANCELLED"}
             /\ \A v \in Workers :
                   /\ mails'[m].job \notin batch[v]
                   /\ mails'[m].job = job[v] => pc'[v] \in {"record", "finish"}
  <2>1. CASE m \in DOMAIN mails
    BY <2>1, <1>0, <1>3, <1>5 DEF MailInv
  <2>2. CASE m = Len(mails) + 1
    <3>1. mails'[m].job = job[w]
      BY <2>2, <1>0
    <3> QED
      BY <3>1, <1>1, <1>2
  <2> QED
    BY <1>6, <2>1, <2>2, <1>0
<1> QED
  BY <1>4, <1>6 DEF MailInv

\* Initially nothing is mailed.
LEMMA InitMail == Init => MailInv
BY DEF Init, MailInv, OneMailPerJob

\* The steps of a worker keep the invariant.
LEMMA WorkerMail ==
    ASSUME QueueInv, MailInv, Grow, NEW w \in Workers,
           WorkerStep(w) \/ Crash(w) \/ Restart(w) \/ Poll(w)
    PROVE  MailInv'
<1>1. CASE Send(w)
  BY <1>1, OneMail DEF Send, Goto, QueueInv, TypeOK
<1>2. CASE SendFails(w) /\ mails' = SentMails(w)
  BY <1>2, OneMail DEF SendFails, Ends, QueueInv, TypeOK
<1>3. CASE SendFails(w) /\ UNCHANGED mails
  <2>1. \A v \in Workers : Keeps(v)
    BY <1>3 DEF SendFails, Ends, Keeps, QueueInv, TypeOK
  <2> QED
    BY <1>3, <2>1, NoMail
<1>4. CASE Finish(w) \/ Record(w) \/ CheckLedger(w) \/ Sleep(w)
  <2>1. \A v \in Workers : Keeps(v)
    BY <1>4 DEF Finish, TakeNext, Record, CheckLedger, Sleep, Goto, Ends, Keeps, QueueInv, TypeOK
  <2> QED
    BY <1>4, <2>1, NoMail DEF Finish, Record, CheckLedger, Sleep, tables
<1>5. CASE Reload(w) \/ Crash(w) \/ Restart(w)
  <2>1. \A v \in Workers : Keeps(v)
    BY <1>5 DEF Reload, Crash, Restart, Reset, Ends, Keeps, QueueInv, TypeOK
  <2> QED
    BY <1>5, <2>1, NoMail DEF Reload, Crash, Restart, tables
<1>6. ASSUME NEW i \in batch[w], LoadStandard(w, i) \/ LoadCampaign(w, i)
      PROVE  MailInv'
  <2>1. \A v \in Workers : Keeps(v)
    BY <1>6 DEF LoadStandard, LoadCampaign, Begin, Keeps, QueueInv, TypeOK
  <2> QED
    BY <1>6, <2>1, NoMail DEF LoadStandard, LoadCampaign, tables
<1>7. ASSUME NEW S \in SUBSET (DOMAIN jobs), Claim(w, S)
      PROVE  MailInv'
  <2>1. \A v \in Workers : Keeps(v)
    BY <1>7 DEF Claim, Due, Keeps, QueueInv, TypeOK
  <2> QED
    BY <1>7, <2>1, NoMail DEF Claim
<1> QED
  BY <1>1, <1>2, <1>3, <1>4, <1>5, <1>6, <1>7 DEF WorkerStep, Poll, SendFails

\* So does every step.
LEMMA NextMail == QueueInv /\ MailInv /\ [Next]_vars => MailInv'
<1> SUFFICES ASSUME QueueInv, MailInv, [Next]_vars PROVE MailInv'
  OBVIOUS
<1>1. Grow
  BY NextGrow
<1>2. CASE Handlers \/ Tick \/ UNCHANGED vars
  <2>1. UNCHANGED <<mails, pc, batch, job>>
    BY <1>2 DEF Handlers, Enqueue, CancelJobsForBooking, MoveBooking, DeleteRow, Tick, vars,
                tables, locals
  <2>2. \A w \in Workers : Keeps(w)
    BY <2>1 DEF Keeps
  <2> QED
    BY <1>1, <2>1, <2>2, NoMail
<1> QED
  BY <1>1, <1>2, WorkerMail DEF Next

\* No job is mailed twice, whatever crashes or fails between its claim, its mail,
\* its ledger entry and its final status.
THEOREM JobsMailedOnce == Spec => []OneMailPerJob
<1>1. MailInv => OneMailPerJob
  BY DEF MailInv
<1> QED
  BY <1>1, InitQueue, NextQueue, InitMail, NextMail, PTL DEF Spec

\* A job withdrawn by cancel_jobs_for_booking is never mailed.
THEOREM WithdrawnNotMailed == Spec => []CancelledJobNotMailed
<1>1. MailInv => CancelledJobNotMailed
  BY DEF MailInv, CancelledJobNotMailed, Mailed
<1> QED
  BY <1>1, InitQueue, NextQueue, InitMail, NextMail, PTL DEF Spec

-----------------------------------------------------------------------------
\* COMPLETED is true.

\* The reasons for which a job may be COMPLETED.
Handled(i) ==
    \/ Mailed(i)
    \/ \E k \in ledger : /\ k.booking = jobs[i].booking
                       /\ k.template \in PossibleTriggers(jobs[i]) \ Campaigns
    \/ jobs[i].type \notin Campaigns /\ ~(PossibleTriggers(jobs[i]) \subseteq RuleTriggers)

\* What worker w knows of its job at each await.
Knows(w) ==
    /\ pc[w] = "ledger" => /\ key[w].booking = jobs[job[w]].booking
                          /\ key[w].template \in PossibleTriggers(jobs[job[w]]) \ Campaigns
    /\ pc[w] = "record" => Mailed(job[w])
    /\ pc[w] = "finish" /\ result[w] = "COMPLETED" => Handled(job[w])

HandledInv ==
    /\ \A w \in Workers : Knows(w)
    /\ \A i \in DOMAIN jobs : jobs[i].status = "COMPLETED" => Handled(i)

\* A reason once given stays: jobs keep what they are about, mails and ledger grow.
LEMMA HandledGrows ==
    ASSUME Grow, NEW i \in DOMAIN jobs
    PROVE  /\ jobs'[i].booking = jobs[i].booking
           /\ PossibleTriggers(jobs[i])' = PossibleTriggers(jobs[i])
           /\ Mailed(i) => Mailed(i)'
           /\ Handled(i) => Handled(i)'
<1>1. /\ jobs'[i].booking = jobs[i].booking /\ jobs'[i].type = jobs[i].type
      /\ jobs'[i].at = jobs[i].at
  BY DEF Grow, Queue!Follows
<1>2. PossibleTriggers(jobs[i])' = PossibleTriggers(jobs[i])
  BY <1>1 DEF PossibleTriggers
<1>3. Mailed(i) => Mailed(i)'
  BY DEF Grow, Mailed
<1>4. ledger \subseteq ledger'
  BY DEF Grow
<1> QED
  BY <1>1, <1>2, <1>3, <1>4 DEF Handled

\* A step after which each worker that moved knows what it should, and in which
\* whatever becomes COMPLETED has its reason.
LEMMA HandledStep ==
    ASSUME QueueInv, HandledInv, Grow,
           \A v \in Workers : \/ Knows(v)'
                             \/ /\ pc'[v] = pc[v] /\ job'[v] = job[v]
                                /\ key'[v] = key[v] /\ result'[v] = result[v],
           \A i \in DOMAIN jobs : jobs'[i].status = "COMPLETED"
                                   => jobs[i].status = "COMPLETED" \/ Handled(i)
    PROVE  HandledInv'
<1>1. ASSUME NEW v \in Workers, pc'[v] = pc[v], job'[v] = job[v], key'[v] = key[v],
             result'[v] = result[v]
      PROVE  Knows(v)'
  <2>1. pc[v] \in {"ledger", "record", "finish"} => job[v] \in DOMAIN jobs
    BY DEF QueueInv, WorkerOK, ClaimedByOne, Held
  <2>2. CASE pc[v] \in {"ledger", "record", "finish"}
    <3>1. /\ jobs'[job[v]].booking = jobs[job[v]].booking
          /\ PossibleTriggers(jobs[job[v]])' = PossibleTriggers(jobs[job[v]])
          /\ Mailed(job[v]) => Mailed(job[v])'
          /\ Handled(job[v]) => Handled(job[v])'
      BY <1>1, <2>1, <2>2, HandledGrows
    <3> QED
      BY <1>1, <3>1 DEF HandledInv, Knows
  <2>3. CASE pc[v] \notin {"ledger", "record", "finish"}
    BY <1>1, <2>3 DEF Knows
  <2> QED
    BY <2>2, <2>3
<1>2. ASSUME NEW i \in DOMAIN jobs', jobs'[i].status = "COMPLETED"
      PROVE  Handled(i)'
  <2>1. i \in DOMAIN jobs
    BY <1>2 DEF Grow
  <2>2. Handled(i)
    BY <1>2, <2>1 DEF HandledInv
  <2> QED
    BY <2>1, <2>2, HandledGrows
<1> QED
  BY <1>1, <1>2 DEF HandledInv

\* Initially there is no job.
LEMMA InitHandled == Init => HandledInv
BY DEF Init, HandledInv, Knows

\* A mail of a standard job is one its type may resolve to, and without a rule
\* for it the job needs none.
LEMMA LoadKnows ==
    ASSUME QueueInv, NEW w \in Workers, NEW i \in batch[w], LoadStandard(w, i)
    PROVE  Knows(w)'
<1> DEFINE b == jobs[i].booking
           trigger == ResolvedTrigger(jobs[i].type, jobs[i].at, rows[b])
<1>1. b \in Recipients /\ rows[b] \in StartTimes \cup {NoRow}
  BY BatchRow DEF QueueInv, TypeOK
<1>2. rows[b] # NoRow => trigger \in PossibleTriggers(jobs[i])
  BY <1>1 DEF PossibleTriggers
<1>3. RuleTriggers \cap Campaigns = {}
  BY WorkerAssumption DEF Triggers, ReminderTypes, Campaigns
<1>4. UNCHANGED jobs /\ job'[w] = i
  BY DEF LoadStandard, tables, Begin, QueueInv, TypeOK
<1>5. CASE /\ rows[b] # NoRow /\ trigger \in RuleTriggers
           /\ Begin(w, i, "ledger", Mail(b, trigger, rows[b]), "none")
  <2>1. pc'[w] = "ledger" /\ key'[w] = Mail(b, trigger, rows[b])
    BY <1>5 DEF Begin, QueueInv, TypeOK
  <2>2. key'[w].booking = b /\ key'[w].template = trigger
    BY <2>1 DEF Mail
  <2>3. PossibleTriggers(jobs[job[w]])' = PossibleTriggers(jobs[i])
    BY <1>4 DEF PossibleTriggers
  <2> QED
    BY <1>2, <1>3, <1>4, <1>5, <2>1, <2>2, <2>3 DEF Knows
<1>6. CASE /\ rows[b] # NoRow /\ trigger \notin RuleTriggers
           /\ Begin(w, i, "finish", NoKey, "COMPLETED")
  <2>1. pc'[w] = "finish"
    BY <1>6 DEF Begin, QueueInv, TypeOK
  <2>2. jobs[i].type \notin Campaigns /\ ~(PossibleTriggers(jobs[i]) \subseteq RuleTriggers)
    BY <1>2, <1>6 DEF LoadStandard
  <2>3. /\ jobs'[job'[w]].type \notin Campaigns
        /\ ~(PossibleTriggers(jobs[job[w]])' \subseteq RuleTriggers)
    BY <1>4, <2>2 DEF PossibleTriggers
  <2> QED
    BY <2>1, <2>3 DEF Knows, Handled
<1>7. CASE Begin(w, i, "finish", NoKey, "FAILED")
  BY <1>7 DEF Begin, Knows, QueueInv, TypeOK
<1> QED
  BY <1>5, <1>6, <1>7 DEF LoadStandard

\* What the other steps of a worker let it know.
LEMMA StepKnows ==
    ASSUME QueueInv, HandledInv, Grow, NEW w \in Workers,
           WorkerStep(w) \/ Crash(w) \/ Restart(w) \/ Poll(w)
    PROVE  Knows(w)'
<1>1. ASSUME NEW i \in batch[w], LoadCampaign(w, i) PROVE Knows(w)'
  BY <1>1 DEF LoadCampaign, Begin, Knows, QueueInv, TypeOK
<1>2. CASE Send(w)
  <2>1. pc'[w] = "record" /\ job'[w] = job[w]
    BY <1>2 DEF Send, Goto, QueueInv, TypeOK
  <2>2. mails'[Len(mails) + 1].job = job[w] /\ Len(mails) + 1 \in DOMAIN mails'
    BY <1>2 DEF Send, SentMails, QueueInv, TypeOK
  <2>3. Mailed(job[w])'
    BY <2>1, <2>2 DEF Mailed
  <2> QED
    BY <2>1, <2>3 DEF Knows
<1>3. CASE CheckLedger(w)
  <2>1. CASE key[w] \notin ledger /\ Goto(w, "send")
    BY <2>1 DEF Goto, Knows, QueueInv, TypeOK
  <2>2. CASE key[w] \in ledger /\ Ends(w, "COMPLETED")
    <3>1. pc'[w] = "finish" /\ UNCHANGED <<jobs, job, ledger>>
      BY <1>3, <2>2 DEF CheckLedger, Ends, tables, QueueInv, TypeOK
    <3>2. /\ key[w] \in ledger /\ key[w].booking = jobs[job[w]].booking
          /\ key[w].template \in PossibleTriggers(jobs[job[w]]) \ Campaigns
      BY <1>3, <2>2 DEF CheckLedger, HandledInv, Knows
    <3>3. PossibleTriggers(jobs[job[w]])' = PossibleTriggers(jobs[job[w]])
      BY <3>1 DEF PossibleTriggers
    <3>4. Handled(job[w])'
      BY <3>1, <3>2, <3>3 DEF Handled
    <3> QED
      BY <3>1, <3>4 DEF Knows
  <2>3. CASE Ends(w, "FAILED")
    BY <2>3 DEF Ends, Knows, QueueInv, TypeOK
  <2> QED
    BY <1>3, <2>1, <2>2, <2>3 DEF CheckLedger
<1>4. CASE Record(w)
  <2>1. pc'[w] = "finish" /\ UNCHANGED <<job, mails>>
    BY <1>4 DEF Record, Ends, QueueInv, TypeOK
  <2>2. Mailed(job[w])'
    BY <1>4, <2>1 DEF Record, HandledInv, Knows, Mailed
  <2> QED
    BY <2>1, <2>2 DEF Knows, Handled
<1>5. CASE SendFails(w) \/ Finish(w) \/ Sleep(w)
  BY <1>5 DEF SendFails, Ends, Finish, TakeNext, Sleep, Knows, QueueInv, TypeOK
<1>6. CASE Reload(w) \/ Crash(w) \/ Restart(w)
  BY <1>6 DEF Reload, Crash, Restart, Reset, Ends, Knows, QueueInv, TypeOK
<1>7. ASSUME NEW S \in SUBSET (DOMAIN jobs), Claim(w, S) PROVE Knows(w)'
  BY <1>7 DEF Claim, Knows, QueueInv, TypeOK
<1> QED
  BY <1>1, <1>2, <1>3, <1>4, <1>5, <1>6, <1>7, LoadKnows DEF WorkerStep, Poll

\* Only Finish makes a job COMPLETED, and its worker has the reason.
LEMMA NewlyCompleted ==
    ASSUME QueueInv, HandledInv, [Next]_vars, NEW i \in DOMAIN jobs,
           jobs'[i].status = "COMPLETED"
    PROVE  jobs[i].status = "COMPLETED" \/ Handled(i)
<1>1. ASSUME NEW w \in Workers, Finish(w)
      PROVE  jobs[i].status = "COMPLETED" \/ Handled(i)
  <2>1. CASE jobs'[i] = jobs[i]
    BY <2>1
  <2>2. CASE i = job[w] /\ jobs'[i] = WithStatus(jobs[i], FinalStatus(w))
    <3>1. jobs[i] \in JobType /\ FinalStatus(w) \in JobStatus
      BY <1>1, JobsDomain DEF Finish, QueueInv, WorkerOK, FinalStatus, JobStatus
    <3>2. result[w] = "COMPLETED"
      BY <2>2, <3>1, WithStatusType DEF FinalStatus
    <3> QED
      BY <1>1, <2>2, <3>2 DEF Finish, HandledInv, Knows
  <2> QED
    BY <1>1, <2>1, <2>2 DEF Finish
<1>2. ASSUME NEW w \in Workers, NEW S \in SUBSET (DOMAIN jobs), Claim(w, S)
      PROVE  jobs[i].status = "COMPLETED"
  BY <1>2, ClaimedType DEF Claim, QueueInv
<1>3. ASSUME NEW b \in Recipients, CancelJobsForBooking(b)
      PROVE  jobs[i].status = "COMPLETED"
  <2>1. jobs[i] \in JobType
    BY JobsDomain DEF QueueInv
  <2>2. WithStatus(jobs[i], "CANCELLED").status = "CANCELLED"
    BY <2>1, WithStatusType DEF JobStatus
  <2> QED
    BY <1>3, <2>2, CancelJobs DEF QueueInv
<1>4. ASSUME NEW b \in Recipients, NEW t \in QueuedTypes, NEW at \in now..LastTime,
             Enqueue(b, t, at)
      PROVE  jobs[i].status = "COMPLETED"
  BY <1>4 DEF Enqueue, QueueInv, TypeOK
<1>5. ASSUME NEW w \in Workers, WorkerStep(w) \/ Crash(w) \/ Restart(w), ~Finish(w)
      PROVE  UNCHANGED jobs
  BY <1>5 DEF WorkerStep, Sleep, Reload, CheckLedger, Send, SendFails, Record, LoadStandard,
              LoadCampaign, Crash, Restart, tables
<1>6. ASSUME \/ Tick \/ UNCHANGED vars
             \/ \E b \in Recipients : DeleteRow(b) \/ \E s \in StartTimes : MoveBooking(b, s)
      PROVE  UNCHANGED jobs
  BY <1>6 DEF Tick, vars, tables, DeleteRow, MoveBooking
<1> QED
  BY <1>1, <1>2, <1>3, <1>4, <1>5, <1>6 DEF Next, Poll, Handlers

\* A step of a worker leaves the memory of the others alone.
LEMMA OtherWorkers ==
    ASSUME QueueInv, NEW w \in Workers, WorkerStep(w) \/ Crash(w) \/ Restart(w) \/ Poll(w),
           NEW v \in Workers \ {w}
    PROVE  pc'[v] = pc[v] /\ job'[v] = job[v] /\ key'[v] = key[v] /\ result'[v] = result[v]
BY DEF WorkerStep, Crash, Restart, Poll, Sleep, Reload, CheckLedger, Send, SendFails, Record, Finish,
       LoadStandard, LoadCampaign, Claim, Reset, Goto, Ends, TakeNext, Begin, QueueInv, TypeOK

\* Every step keeps the invariant.
LEMMA NextHandled == QueueInv /\ HandledInv /\ [Next]_vars => HandledInv'
<1> SUFFICES ASSUME QueueInv, HandledInv, [Next]_vars PROVE HandledInv'
  OBVIOUS
<1>1. /\ Grow
      /\ \A i \in DOMAIN jobs : jobs'[i].status = "COMPLETED"
                                  => jobs[i].status = "COMPLETED" \/ Handled(i)
  BY NextGrow, NewlyCompleted
<1>2. ASSUME NEW w \in Workers, WorkerStep(w) \/ Crash(w) \/ Restart(w) \/ Poll(w)
      PROVE  HandledInv'
  <2>1. \A v \in Workers \ {w} : /\ pc'[v] = pc[v] /\ job'[v] = job[v]
                               /\ key'[v] = key[v] /\ result'[v] = result[v]
    BY <1>2, OtherWorkers
  <2>2. Knows(w)'
    BY <1>1, <1>2, StepKnows
  <2> QED
    BY <1>1, <2>1, <2>2, HandledStep
<1>3. CASE Handlers \/ Tick \/ UNCHANGED vars
  <2>1. UNCHANGED locals
    BY <1>3 DEF Handlers, Enqueue, CancelJobsForBooking, MoveBooking, DeleteRow, Tick, vars
  <2> QED
    BY <1>1, <2>1, HandledStep DEF locals
<1> QED
  BY <1>2, <1>3 DEF Next

\* A job is COMPLETED only if it was mailed, an equal mail was in the ledger, or
\* the event has no rule for it, under every fault.
THEOREM CompletedIsTrue == Spec => []CompletedMeansHandled
<1>1. HandledInv => CompletedMeansHandled
  BY DEF HandledInv, CompletedMeansHandled, Handled
<1> QED
  BY <1>1, InitQueue, NextQueue, InitHandled, NextHandled, PTL DEF Spec

-----------------------------------------------------------------------------
\* The ledger against duplicate mails.

Standard(k) == k \in Key /\ k.template \notin Campaigns

\* No two workers are busy with equal mails at the same time; true of one server
\* process.
MailsApart ==
    \A v, w \in Workers : key[v] = key[w] /\ Standard(key[v]) => v = w

\* A standard mail that was sent is in the ledger, or its worker is about to enter
\* it; one that is about to be sent is new, and only campaigns get there without
\* asking the ledger.
LedgerInv ==
    /\ \A m \in DOMAIN mails : Standard(mails[m].key) =>
          \/ mails[m].key \in ledger
          \/ \E w \in Workers : pc[w] = "record" /\ key[w] = mails[m].key
    /\ \A w \in Workers :
          /\ pc[w] = "send" /\ Standard(key[w]) => \A m \in DOMAIN mails : mails[m].key # key[w]
          /\ pc[w] = "reload" => ~Standard(key[w])
    /\ NoDuplicateMail

\* A step without a mail keeps the invariant when it leaves no mail unrecorded and
\* starts to send a campaign's mail or one that was not sent.
LEMMA NoNewMail ==
    ASSUME LedgerInv, UNCHANGED mails, ledger \subseteq ledger',
           \A v \in Workers : pc[v] = "record" /\ Standard(key[v]) =>
              key[v] \in ledger' \/ (pc'[v] = "record" /\ key'[v] = key[v]),
           \A v \in Workers : pc'[v] = "send" /\ Standard(key'[v]) =>
              \A m \in DOMAIN mails : mails[m].key # key'[v],
           \A v \in Workers : pc'[v] = "reload" => ~Standard(key'[v])
    PROVE  LedgerInv'
<1>1. ASSUME NEW m \in DOMAIN mails, Standard(mails[m].key)
      PROVE  \/ mails[m].key \in ledger'
             \/ \E w \in Workers : pc'[w] = "record" /\ key'[w] = mails[m].key
  BY <1>1 DEF LedgerInv
<1>2. NoDuplicateMail'
  BY DEF LedgerInv, NoDuplicateMail
<1> QED
  BY <1>1, <1>2 DEF LedgerInv, Standard

\* Mails are sent for keys.
LEMMA MailKeys ==
    ASSUME QueueInv, NEW m \in DOMAIN mails
    PROVE  mails[m].key \in Key
<1>1. PICK T : T = [job : Nat, key : Key]
  OBVIOUS
<1>2. mails \in Seq(T)
  BY <1>1 DEF QueueInv, TypeOK
<1>3. mails[m] \in T
  BY <1>2
<1> QED
  BY <1>1, <1>3

\* The steps of a worker, when no mail is lost between the proxy and the ledger.
LEMMA WorkerLedger ==
    ASSUME QueueInv, LedgerInv, MailsApart, Faults \cap {"send", "record", "crash"} = {},
           NEW w \in Workers, WorkerStep(w) \/ Crash(w) \/ Restart(w) \/ Poll(w)
    PROVE  LedgerInv'
<1>0. \A v \in Workers \ {w} : pc'[v] = pc[v] /\ key'[v] = key[v]
  BY OtherWorkers
<1>1. ~SendFails(w) /\ ~Crash(w)
  BY DEF SendFails, Crash
<1>2. CASE Send(w)
  <2>1. /\ pc[w] = "send" /\ pc'[w] = "record" /\ key' = key /\ ledger' = ledger
        /\ mails' = SentMails(w)
    BY <1>2 DEF Send, Goto, QueueInv, TypeOK
  <2>2. /\ DOMAIN mails' = DOMAIN mails \cup {Len(mails) + 1}
        /\ \A m \in DOMAIN mails : mails'[m] = mails[m]
        /\ mails'[Len(mails) + 1].key = key[w]
    <3>1. [job |-> job[w], key |-> key[w]].key = key[w]
      OBVIOUS
    <3> QED
      BY <2>1, <3>1, SentGrow
  <2>3. ASSUME NEW m \in DOMAIN mails', Standard(mails'[m].key)
        PROVE  \/ mails'[m].key \in ledger'
               \/ \E v \in Workers : pc'[v] = "record" /\ key'[v] = mails'[m].key
    <3>1. CASE m = Len(mails) + 1
      BY <2>1, <2>2, <3>1
    <3>2. CASE m \in DOMAIN mails
      BY <1>0, <2>1, <2>2, <2>3, <3>2 DEF LedgerInv
    <3> QED
      BY <2>2, <3>1, <3>2
  <2>4. ASSUME NEW v \in Workers, pc'[v] = "send", Standard(key'[v]), NEW m \in DOMAIN mails'
        PROVE  mails'[m].key # key'[v]
    <3>1. v # w /\ pc[v] = "send" /\ Standard(key[v])
      BY <1>0, <2>1, <2>4
    <3>2. key[v] # key[w]
      BY <3>1 DEF MailsApart
    <3> QED
      BY <2>1, <2>2, <3>1, <3>2 DEF LedgerInv
  <2>5. ASSUME NEW v \in Workers, pc'[v] = "reload"
        PROVE  ~Standard(key'[v])
    BY <1>0, <2>1, <2>5 DEF LedgerInv
  <2>6. NoDuplicateMail'
    <3>1. \A m \in DOMAIN mails : mails[m].key # key[w] \/ key[w].template \in Campaigns
      BY <2>1, MailKeys DEF LedgerInv, Standard
    <3> QED
      BY <2>2, <3>1 DEF LedgerInv, NoDuplicateMail
  <2> QED
    BY <2>3, <2>4, <2>5, <2>6 DEF LedgerInv, Standard
<1>3. CASE CheckLedger(w)
  <2>1. UNCHANGED <<mails, ledger, key>> /\ pc[w] = "ledger" /\ pc'[w] \in {"send", "finish"}
    BY <1>3 DEF CheckLedger, Goto, Ends, tables, QueueInv, TypeOK
  <2>2. ASSUME pc'[w] = "send", Standard(key[w]), NEW m \in DOMAIN mails, mails[m].key = key[w]
        PROVE  FALSE
    <3>1. key[w] \notin ledger
      BY <1>3, <2>2 DEF CheckLedger, Ends, QueueInv, TypeOK
    <3>2. PICK v \in Workers : pc[v] = "record" /\ key[v] = key[w]
      BY <2>2, <3>1 DEF LedgerInv
    <3> QED
      BY <2>1, <2>2, <3>2 DEF MailsApart
  <2>3. \A v \in Workers : pc'[v] = "send" /\ Standard(key'[v]) =>
           \A m \in DOMAIN mails : mails[m].key # key'[v]
    BY <1>0, <2>1, <2>2 DEF LedgerInv
  <2>4. \A v \in Workers : pc[v] = "record" => pc'[v] = "record" /\ key'[v] = key[v]
    BY <1>0, <2>1
  <2>5. \A v \in Workers : pc'[v] = "reload" => ~Standard(key'[v])
    BY <1>0, <2>1 DEF LedgerInv
  <2> QED
    BY <2>1, <2>3, <2>4, <2>5, NoNewMail
<1>4. CASE Record(w)
  <2>1. UNCHANGED <<mails, key>> /\ ledger' = ledger \cup {key[w]} /\ pc'[w] = "finish"
    BY <1>4 DEF Record, Ends, QueueInv, TypeOK
  <2>2. \A v \in Workers : pc[v] = "record" =>
           key[v] \in ledger' \/ (pc'[v] = "record" /\ key'[v] = key[v])
    BY <1>0, <2>1
  <2>3. \A v \in Workers : pc'[v] = "send" /\ Standard(key'[v]) =>
           \A m \in DOMAIN mails : mails[m].key # key'[v]
    BY <1>0, <2>1 DEF LedgerInv
  <2>4. \A v \in Workers : pc'[v] = "reload" => ~Standard(key'[v])
    BY <1>0, <2>1 DEF LedgerInv
  <2> QED
    BY <2>1, <2>2, <2>3, <2>4, NoNewMail
<1>5. ASSUME UNCHANGED <<mails, ledger>>, pc[w] # "record",
             pc'[w] \in {"send", "reload"} => ~Standard(key'[w])
      PROVE  LedgerInv'
  <2>1. \A v \in Workers : pc[v] = "record" => pc'[v] = "record" /\ key'[v] = key[v]
    BY <1>0, <1>5
  <2>2. \A v \in Workers : pc'[v] = "send" /\ Standard(key'[v]) =>
           \A m \in DOMAIN mails : mails[m].key # key'[v]
    BY <1>0, <1>5 DEF LedgerInv
  <2>3. \A v \in Workers : pc'[v] = "reload" => ~Standard(key'[v])
    BY <1>0, <1>5 DEF LedgerInv
  <2> QED
    BY <1>5, <2>1, <2>2, <2>3, NoNewMail
<1>6. CASE Sleep(w) \/ Finish(w) \/ Poll(w) \/ Restart(w)
  BY <1>5, <1>6 DEF Sleep, Restart, Reset, Finish, TakeNext, Poll, Claim, tables, QueueInv, TypeOK
<1>7. ASSUME NEW i \in batch[w], LoadStandard(w, i)
      PROVE  LedgerInv'
  BY <1>5, <1>7 DEF LoadStandard, Begin, tables, QueueInv, TypeOK
<1>8. ASSUME NEW i \in batch[w], LoadCampaign(w, i)
      PROVE  LedgerInv'
  <2>1. ASSUME NEW at, NEW k, NEW r, Begin(w, i, at, k, r)
        PROVE  pc'[w] = at /\ key'[w] = k
    BY <2>1 DEF Begin, QueueInv, TypeOK
  <2>2. ~Standard(Mail(jobs[i].booking, jobs[i].type, rows[jobs[i].booking]))
    BY <1>8 DEF LoadCampaign, Standard, Mail
  <2> QED
    BY <1>5, <1>8, <2>1, <2>2 DEF LoadCampaign, tables
<1>9. CASE Reload(w)
  <2>1. pc[w] = "reload" /\ UNCHANGED <<mails, ledger>>
    BY <1>9 DEF Reload, tables
  <2>2. key[w] \in Key /\ key[w].template \in Campaigns
    BY <2>1 DEF LedgerInv, QueueInv, WorkerOK, Standard
  <2>3. ~Standard(Mail(key[w].booking, key[w].template, rows[key[w].booking]))
    BY <2>2 DEF Standard, Mail
  <2>4. pc'[w] \in {"send", "reload"} => ~Standard(key'[w])
    BY <1>9, <2>3 DEF Reload, Reset, Ends, QueueInv, TypeOK
  <2> QED
    BY <1>5, <2>1, <2>4
<1> QED
  BY <1>1, <1>2, <1>3, <1>4, <1>6, <1>7, <1>8, <1>9 DEF WorkerStep

\* A notification with the same recipient, template and content is sent once, when no
\* two workers are busy with it at once and nothing is lost between the acceptance of
\* the mail and its ledger entry: reads and status updates may fail.
THEOREM LedgerPreventsDuplicates ==
    ASSUME Faults \cap {"send", "record", "crash"} = {}
    PROVE  Spec /\ []MailsApart => []NoDuplicateMail
<1>1. Init => LedgerInv
  BY DEF Init, LedgerInv, NoDuplicateMail
<1>2. QueueInv /\ LedgerInv /\ MailsApart /\ [Next]_vars => LedgerInv'
  <2> SUFFICES ASSUME QueueInv, LedgerInv, MailsApart, [Next]_vars PROVE LedgerInv'
    OBVIOUS
  <2>1. CASE Handlers \/ Tick \/ UNCHANGED vars
    <3>1. UNCHANGED <<mails, ledger, pc, key>>
      BY <2>1 DEF Handlers, Enqueue, CancelJobsForBooking, MoveBooking, DeleteRow, Tick, vars,
                  tables, locals
    <3> QED
      BY <3>1 DEF LedgerInv, NoDuplicateMail
  <2> QED
    BY <2>1, WorkerLedger DEF Next
<1>3. LedgerInv => NoDuplicateMail
  BY DEF LedgerInv
<1> QED
  BY <1>1, <1>2, <1>3, InitQueue, NextQueue, PTL DEF Spec
=============================================================================
