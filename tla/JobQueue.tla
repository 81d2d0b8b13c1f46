------------------------------ MODULE JobQueue ------------------------------
(***************************************************************************)
(* What the jobs table promises the rest of the system, whoever works on   *)
(* it: a job is created PENDING, is withdrawn or claimed once, and a       *)
(* claimed job ends once, COMPLETED or FAILED.  What a job is about never  *)
(* changes and no job disappears.                                          *)
(***************************************************************************)
EXTENDS Sequences, Naturals

VARIABLE jobs   \* in the order of creation: [booking, type, at, status]

Lifecycle ==
    {<<"PENDING", "PROCESSING">>, <<"PENDING", "CANCELLED">>,
     <<"PROCESSING", "COMPLETED">>, <<"PROCESSING", "FAILED">>}

Init == jobs = <<>>

\* A job before and after a step.
Follows(before, after) ==
    /\ after.booking = before.booking
    /\ after.type = before.type
    /\ after.at = before.at
    /\ \/ after.status = before.status
       \/ <<before.status, after.status>> \in Lifecycle

Step ==
    /\ Len(jobs) <= Len(jobs')
    /\ \A i \in 1..Len(jobs) : Follows(jobs[i], jobs'[i])
    /\ \A i \in (Len(jobs) + 1)..Len(jobs') : jobs'[i].status = "PENDING"

Spec == Init /\ [][Step]_jobs
=============================================================================
