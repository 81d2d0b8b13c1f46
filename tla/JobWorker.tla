------------------------------ MODULE JobWorker ------------------------------
(***************************************************************************)
(* The background worker (background.rs) over the jobs table, the rows its *)
(* jobs are about and the mail ledger.  Every server process runs one      *)
(* worker; each step of a worker ends at an await of process_job.  A       *)
(* process that is down is a worker whose pc is "down": the release        *)
(* profile aborts on a panic, so no worker dies alone.                     *)
(* The HTTP handlers appear as what they do to the shared tables: they     *)
(* queue and withdraw jobs and move and delete bookings while some process *)
(* is up to serve them.                                                    *)
(***************************************************************************)
EXTENDS Integers, Sequences, FiniteSets

CONSTANTS
    Workers,        \* one per server process
    Recipients,     \* ids that payload.booking_id may hold
    QueuedTypes,    \* types of the jobs that are queued
    RuleTriggers,   \* triggers for which the event has a notification rule
    StartTimes,     \* start times of bookings
    NoRow,          \* in place of the start time of a deleted row
    NoKey,          \* in place of the mail of a worker that has none
    LongLead,       \* 23 hours: what tells a 24h reminder from a 1h reminder
    Limit,          \* jobs claimed per poll, 10 in the code
    Faults,         \* the faults considered: a subset of AllFaults
    MaxJobs,        \* bound on the jobs queued
    LastTime        \* bound on the clock

AllFaults == {"read", "send", "record", "status", "crash"}
Campaigns == {"CAMPAIGN:BOOKING", "CAMPAIGN:INVITEE"}
ReminderTypes == {"REMINDER_24H", "REMINDER_1H", "REMINDER_M"}
JobTypes == Campaigns \cup ReminderTypes
            \cup {"CONFIRMATION", "CANCELLATION", "RESCHEDULE", "REMINDER"}
Triggers == ReminderTypes \cup {"ON_BOOKING", "ON_CANCEL", "ON_RESCHEDULE"}

ASSUME WorkerAssumption ==
    /\ QueuedTypes \subseteq JobTypes
    /\ RuleTriggers \subseteq Triggers
    /\ StartTimes \subseteq Int /\ StartTimes # {}
    /\ NoRow \notin StartTimes
    /\ NoKey \notin [booking : Recipients, template : Triggers \cup Campaigns, start : StartTimes]
    /\ LongLead \in Int
    /\ Limit \in Nat \ {0}
    /\ Faults \subseteq AllFaults
    /\ MaxJobs \in Nat
    /\ LastTime \in Nat

VARIABLES
    jobs,     \* table jobs, in the order of creation
    rows,     \* start time of the booking (or invitee) jobs are about; NoRow: deleted
    ledger,   \* mail_logs with status SENT, as the keys has_mail_been_sent asks for
    mails,    \* mails handed to the mail proxy, in order
    now,      \* Utc::now()
    pc,       \* what each worker does next
    batch,    \* the jobs it has claimed and not yet begun
    job,      \* the job it processes; 0: none
    key,      \* the mail it is about to send
    result    \* what process_job returned

tables == <<jobs, rows, ledger, mails>>
locals == <<pc, batch, job, key, result>>
vars == <<tables, now, locals>>

-----------------------------------------------------------------------------
JobStatus == {"PENDING", "PROCESSING", "COMPLETED", "FAILED", "CANCELLED"}
JobType == [booking : Recipients, type : JobTypes, at : Int, status : JobStatus]

\* Recipient, template and context hash: a template belongs to a trigger (or to
\* a campaign), and of the context only the start time changes.
Key == [booking : Recipients, template : Triggers \cup Campaigns, start : StartTimes]

Pcs == {"idle", "next", "reload", "ledger", "send", "record", "finish", "down"}

\* The type of the tables and of what a worker keeps across awaits.
TypeOK ==
    /\ jobs \in Seq(JobType)
    /\ rows \in [Recipients -> StartTimes \cup {NoRow}]
    /\ ledger \in SUBSET Key
    /\ mails \in Seq([job : Nat, key : Key])
    /\ now \in Nat
    /\ pc \in [Workers -> Pcs]
    /\ batch \in [Workers -> SUBSET Nat]
    /\ job \in [Workers -> Nat]
    /\ key \in [Workers -> Key \cup {NoKey}]
    /\ result \in [Workers -> {"none", "COMPLETED", "FAILED"}]

Init ==
    /\ jobs = <<>>
    /\ rows \in [Recipients -> StartTimes]
    /\ ledger = {}
    /\ mails = <<>>
    /\ now = 0
    /\ pc = [w \in Workers |-> "idle"]
    /\ batch = [w \in Workers |-> {}]
    /\ job = [w \in Workers |-> 0]
    /\ key = [w \in Workers |-> NoKey]
    /\ result = [w \in Workers |-> "none"]

Job(b, type, at, status) == [booking |-> b, type |-> type, at |-> at, status |-> status]
WithStatus(j, status) == Job(j.booking, j.type, j.at, status)

-----------------------------------------------------------------------------
\* find_pending

\* mutant: failed jobs are polled again
DueOrFailed(i) == jobs[i].status \in {"PENDING", "FAILED"} /\ jobs[i].at <= now

Due(i) == jobs[i].status = "PENDING" /\ jobs[i].at <= now

\* mutant: a SELECT that leaves the rows PENDING
Selected(claimed) == jobs

Claimed(claimed) ==
    [i \in DOMAIN jobs |-> IF i \in claimed THEN WithStatus(jobs[i], "PROCESSING") ELSE jobs[i]]

\* One UPDATE claims at most Limit due jobs; SKIP LOCKED and the missing ORDER
\* BY of the sqlite query leave open which.  No statement claims fewer jobs than
\* it could.
Claim(w, claimed) ==
    /\ pc[w] = "idle"
    /\ claimed # {} /\ claimed \subseteq DOMAIN jobs
    /\ \A i \in claimed : Due(i)
    /\ Cardinality(claimed) <= Limit
    /\ Cardinality(claimed) = Limit \/ \A i \in DOMAIN jobs : Due(i) => i \in claimed
    /\ jobs' = Claimed(claimed)
    /\ pc' = [pc EXCEPT ![w] = "next"]
    /\ batch' = [batch EXCEPT ![w] = claimed]
    /\ UNCHANGED <<rows, ledger, mails, now, job, key, result>>

\* mutant: break instead of another round of the loop
SleepForever(w) ==
    /\ pc[w] = "next" /\ batch[w] = {}
    /\ pc' = [pc EXCEPT ![w] = "stopped"]
    /\ UNCHANGED <<tables, now, batch, job, key, result>>

\* The batch is done: sleep(5s) and poll again.
Sleep(w) ==
    /\ pc[w] = "next" /\ batch[w] = {}
    /\ pc' = [pc EXCEPT ![w] = "idle"]
    /\ UNCHANGED <<tables, now, batch, job, key, result>>

-----------------------------------------------------------------------------
\* process_job

ResolvedTrigger(type, at, start) ==
    CASE type = "CONFIRMATION" -> "ON_BOOKING"
      [] type = "CANCELLATION" -> "ON_CANCEL"
      [] type = "RESCHEDULE" -> "ON_RESCHEDULE"
      [] type = "REMINDER" -> IF start - at >= LongLead THEN "REMINDER_24H" ELSE "REMINDER_1H"
      [] OTHER -> type

\* Worker w takes job i out of its batch, and process_job reaches the await at
\* with the mail k in hand, or returns r.
Begin(w, i, at, k, r) ==
    /\ pc' = [pc EXCEPT ![w] = at]
    /\ batch' = [batch EXCEPT ![w] = batch[w] \ {i}]
    /\ job' = [job EXCEPT ![w] = i]
    /\ key' = [key EXCEPT ![w] = k]
    /\ result' = [result EXCEPT ![w] = r]

\* process_job goes on to the await at.
Goto(w, at) ==
    /\ pc' = [pc EXCEPT ![w] = at]
    /\ UNCHANGED <<batch, job, key, result>>

\* process_job returns r.
Ends(w, r) ==
    /\ pc' = [pc EXCEPT ![w] = "finish"]
    /\ result' = [result EXCEPT ![w] = r]
    /\ UNCHANGED <<batch, job, key>>

Mail(b, template, start) == [booking |-> b, template |-> template, start |-> start]

\* Tenant, booking and event, then rules and template.  The status of the
\* booking is not looked at.  No rule: the job is done without a mail.
LoadStandard(w, i) ==
    LET b == jobs[i].booking
        trigger == ResolvedTrigger(jobs[i].type, jobs[i].at, rows[b])
    IN  /\ pc[w] = "next" /\ i \in batch[w]
        /\ jobs[i].type \notin Campaigns
        /\ \/ /\ rows[b] # NoRow
              /\ IF trigger \in RuleTriggers
                 THEN Begin(w, i, "ledger", Mail(b, trigger, rows[b]), "none")
                 ELSE Begin(w, i, "finish", NoKey, "COMPLETED")
           \/ /\ rows[b] = NoRow \/ "read" \in Faults
              /\ Begin(w, i, "finish", NoKey, "FAILED")
        /\ UNCHANGED <<tables, now>>

\* A campaign reads its booking twice, an invitee once; no idempotency check.
LoadCampaign(w, i) ==
    LET b == jobs[i].booking
    IN  /\ pc[w] = "next" /\ i \in batch[w]
        /\ jobs[i].type \in Campaigns
        /\ \/ /\ rows[b] # NoRow
              /\ Begin(w, i, IF jobs[i].type = "CAMPAIGN:BOOKING" THEN "reload" ELSE "send",
                       Mail(b, jobs[i].type, rows[b]), "none")
           \/ /\ rows[b] = NoRow \/ "read" \in Faults
              /\ Begin(w, i, "finish", NoKey, "FAILED")
        /\ UNCHANGED <<tables, now>>

\* The process of w ends or starts: what its worker had in memory is lost.
Reset(w, at) ==
    /\ pc' = [pc EXCEPT ![w] = at]
    /\ batch' = [batch EXCEPT ![w] = {}]
    /\ job' = [job EXCEPT ![w] = 0]
    /\ key' = [key EXCEPT ![w] = NoKey]
    /\ result' = [result EXCEPT ![w] = "none"]

\* find_by_id(..).await?.unwrap(): a booking deleted since the first read ends the
\* process, which is built to abort on a panic.
Reload(w) ==
    LET start == rows[key[w].booking]
    IN  /\ pc[w] = "reload"
        /\ \/ /\ start # NoRow
              /\ pc' = [pc EXCEPT ![w] = "send"]
              /\ key' = [key EXCEPT ![w] = Mail(key[w].booking, key[w].template, start)]
              /\ UNCHANGED <<batch, job, result>>
           \/ start = NoRow /\ Reset(w, "down")
           \/ "read" \in Faults /\ Ends(w, "FAILED")
        /\ UNCHANGED <<tables, now>>

\* has_mail_been_sent; a duplicate is logged as SKIPPED_DUPLICATE.
CheckLedger(w) ==
    /\ pc[w] = "ledger"
    /\ \/ key[w] \notin ledger /\ Goto(w, "send")
       \/ key[w] \in ledger /\ Ends(w, "COMPLETED")
       \/ "read" \in Faults /\ Ends(w, "FAILED")
    /\ UNCHANGED <<tables, now>>

SentMails(w) == Append(mails, [job |-> job[w], key |-> key[w]])

\* email_service.send
Send(w) ==
    /\ pc[w] = "send"
    /\ mails' = SentMails(w)
    /\ Goto(w, "record")
    /\ UNCHANGED <<jobs, rows, ledger, now>>

\* mutant: the result of send is dropped
SendFailsSilently(w) ==
    /\ "send" \in Faults
    /\ pc[w] = "send"
    /\ mails' = mails \/ mails' = SentMails(w)
    /\ Ends(w, "COMPLETED")
    /\ UNCHANGED <<jobs, rows, ledger, now>>

\* A template that does not render, a refusal, or an answer that is lost after
\* the proxy accepted the mail.
SendFails(w) ==
    /\ "send" \in Faults
    /\ pc[w] = "send"
    /\ mails' = mails \/ mails' = SentMails(w)
    /\ Ends(w, "FAILED")
    /\ UNCHANGED <<jobs, rows, ledger, now>>

\* mutant: the ledger is not written
RecordNothing(w) ==
    /\ pc[w] = "record"
    /\ Ends(w, "COMPLETED")
    /\ UNCHANGED <<tables, now>>

\* comm_service.record_success
Record(w) ==
    /\ pc[w] = "record"
    /\ \/ ledger' = ledger \cup {key[w]} /\ Ends(w, "COMPLETED")
       \/ "record" \in Faults /\ Ends(w, "FAILED") /\ UNCHANGED ledger
    /\ UNCHANGED <<jobs, rows, mails, now>>

\* mutant: the rest of the batch is dropped after the first job
TakeNoMore(w) == Reset(w, "next")

\* The loop takes the next job of the batch.
TakeNext(w) ==
    /\ pc' = [pc EXCEPT ![w] = "next"]
    /\ job' = [job EXCEPT ![w] = 0]
    /\ key' = [key EXCEPT ![w] = NoKey]
    /\ result' = [result EXCEPT ![w] = "none"]
    /\ UNCHANGED batch

\* mutants: a failed job is put back for another attempt; a misspelt status
FinalOrRetry(w) == IF result[w] = "FAILED" THEN "PENDING" ELSE result[w]
FinalMisspelt(w) == IF result[w] = "COMPLETED" THEN "COMPLETE" ELSE result[w]

\* Ok(()) becomes COMPLETED and Err(_) FAILED.
FinalStatus(w) == result[w]

\* update_status; its error is logged and the job stays PROCESSING.
Finish(w) ==
    /\ pc[w] = "finish"
    /\ \/ jobs' = [jobs EXCEPT ![job[w]] = WithStatus(jobs[job[w]], FinalStatus(w))]
       \/ "status" \in Faults /\ UNCHANGED jobs
    /\ TakeNext(w)
    /\ UNCHANGED <<rows, ledger, mails, now>>

\* The process is killed.
Crash(w) ==
    /\ "crash" \in Faults
    /\ pc[w] # "down"
    /\ Reset(w, "down")
    /\ UNCHANGED <<tables, now>>

\* An operator starts the process again, as anew: start_background_worker looks at
\* no job that an earlier process left PROCESSING.
Restart(w) ==
    /\ pc[w] = "down"
    /\ Reset(w, "idle")
    /\ UNCHANGED <<tables, now>>

WorkerStep(w) ==
    \/ Sleep(w) \/ Reload(w) \/ CheckLedger(w) \/ Send(w) \/ SendFails(w)
    \/ Record(w) \/ Finish(w)
    \/ \E i \in batch[w] : LoadStandard(w, i) \/ LoadCampaign(w, i)

Poll(w) == \E claimed \in SUBSET (DOMAIN jobs) : Claim(w, claimed)

-----------------------------------------------------------------------------
\* The other users of the tables.

\* job_repo.create, by create_booking, reschedule_booking, cancel_booking and
\* send_campaign
Enqueue(b, type, at) ==
    /\ Len(jobs) < MaxJobs
    /\ jobs' = Append(jobs, Job(b, type, at, "PENDING"))
    /\ UNCHANGED <<rows, ledger, mails, now, locals>>

\* mutant: jobs that a worker has claimed are withdrawn too
WithdrawsClaimed(j, b) == j.booking = b /\ j.status \in {"PENDING", "PROCESSING"}

Withdraws(j, b) == j.booking = b /\ j.status = "PENDING"

CancelJobsForBooking(b) ==
    /\ jobs' = [i \in DOMAIN jobs |->
            IF Withdraws(jobs[i], b) THEN WithStatus(jobs[i], "CANCELLED") ELSE jobs[i]]
    /\ UNCHANGED <<rows, ledger, mails, now, locals>>

MoveBooking(b, start) ==
    /\ rows[b] # NoRow
    /\ rows' = [rows EXCEPT ![b] = start]
    /\ UNCHANGED <<jobs, ledger, mails, now, locals>>

DeleteRow(b) ==
    /\ rows[b] # NoRow
    /\ rows' = [rows EXCEPT ![b] = NoRow]
    /\ UNCHANGED <<jobs, ledger, mails, now, locals>>

Tick ==
    /\ now < LastTime
    /\ now' = now + 1
    /\ UNCHANGED <<jobs, rows, ledger, mails, locals>>

\* No process is up.
AllDown == \A w \in Workers : pc[w] = "down"

Handlers ==
    /\ ~AllDown
    /\ \/ \E b \in Recipients, t \in QueuedTypes, at \in now..LastTime : Enqueue(b, t, at)
       \/ \E b \in Recipients : CancelJobsForBooking(b)
       \/ \E b \in Recipients, s \in StartTimes : MoveBooking(b, s)
       \/ \E b \in Recipients : DeleteRow(b)

Next ==
    \/ \E w \in Workers : Poll(w) \/ WorkerStep(w) \/ Crash(w) \/ Restart(w)
    \/ Handlers
    \/ Tick

Spec == Init /\ [][Next]_vars

\* The worker of a process that is up is never blocked for good: its loop polls every
\* five seconds and every call it makes returns.  Time passes.  Nothing in the
\* repository starts a process again, and crashes and requests owe nothing.
FairSpec ==
    /\ Spec
    /\ WF_vars(Tick)
    /\ \A w \in Workers : WF_vars(Poll(w)) /\ WF_vars(WorkerStep(w))

-----------------------------------------------------------------------------
\* Properties

\* The jobs a worker has claimed and not yet ended.
Held(w) == batch[w] \cup ({job[w]} \ {0})

\* find_pending hands a job to one worker: no job is held by two workers, and
\* what a worker holds is PROCESSING until that worker ends it, so neither a
\* second poll nor cancel_jobs_for_booking touches it meanwhile.
ClaimedByOne ==
    /\ \A v, w \in Workers : v # w => Held(v) \cap Held(w) = {}
    /\ \A w \in Workers : \A i \in Held(w) :
          i \in DOMAIN jobs /\ jobs[i].status = "PROCESSING"

\* No job is mailed twice, whatever crashes between its claim, its mail, its
\* ledger entry and its final status: nothing makes a claimed job PENDING again.
OneMailPerJob ==
    \A m, n \in DOMAIN mails : mails[m].job = mails[n].job => m = n

\* test_email_idempotency_ledger, "Should not send duplicate email": a
\* notification with the same recipient, template and content is sent once.
NoDuplicateMail ==
    \A m, n \in DOMAIN mails :
        mails[m].key = mails[n].key /\ mails[m].key.template \notin Campaigns => m = n

\* The triggers process_job may resolve the job to, as its booking moves.
PossibleTriggers(j) == {ResolvedTrigger(j.type, j.at, s) : s \in StartTimes}

Mailed(i) == \E m \in DOMAIN mails : mails[m].job = i

\* A job is COMPLETED only if it sent its mail, or an equal one was in the
\* ledger, or the event has no rule for its trigger; a failure on the way is
\* never reported as success.
CompletedMeansHandled ==
    \A i \in DOMAIN jobs : jobs[i].status = "COMPLETED" =>
        \/ Mailed(i)
        \/ \E k \in ledger : /\ k.booking = jobs[i].booking
                           /\ k.template \in PossibleTriggers(jobs[i]) \ Campaigns
        \/ jobs[i].type \notin Campaigns /\ ~(PossibleTriggers(jobs[i]) \subseteq RuleTriggers)

\* A withdrawn job is never mailed: cancel_jobs_for_booking and the claim both
\* act on PENDING rows, so one of them wins.
CancelledJobNotMailed ==
    \A i \in DOMAIN jobs : jobs[i].status = "CANCELLED" => ~Mailed(i)

\* The worker and the handlers together keep the promise of the jobs table.
Queue == INSTANCE JobQueue
ImplementsJobQueue == Queue!Spec

\* "Not all jobs were processed": a job that is due does not stay PENDING while a
\* process is up, although polls take Limit jobs at a time and other jobs of the
\* batch fail.
DueJobsAreTaken ==
    \A i \in 1..MaxJobs :
        (i \in DOMAIN jobs /\ Due(i))
            ~> ((i \in DOMAIN jobs /\ jobs[i].status # "PENDING") \/ AllDown)

\* A worker ends every job of its batch, whatever becomes of the bookings meanwhile,
\* unless its process goes down; then the jobs it held stay PROCESSING.
ClaimedJobsEnd ==
    \A i \in 1..MaxJobs, w \in Workers :
        (i \in DOMAIN jobs /\ i \in Held(w))
            ~> ((i \in DOMAIN jobs /\ jobs[i].status \in {"COMPLETED", "FAILED"})
                \/ pc[w] = "down")
=============================================================================
