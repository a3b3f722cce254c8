------------------------------ MODULE ServiceJobs ------------------------------
(***************************************************************************)
(* A repair job and the dispute about it: app/services/job_service.py and  *)
(* app/api/v1/disputes.py.  No operation looks at the status it finds, so  *)
(* that every status follows every other.                                  *)
(*                                                                         *)
(* A request loads the row, decides, and writes the columns whose value it *)
(* has changed: two actions, with other requests committing in between.    *)
(* Times are new with every request, so that they are always a change.     *)
(***************************************************************************)
EXTENDS OpenRequests, FiniteSets

CONSTANT Providers   \* users who may be assigned; anybody will do

VARIABLES
    job,      \* the row of jobs, NULL before it is requested
    dispute   \* the row of disputes with its job_id, which is unique

jobVars == <<job, dispute, request>>

JobStatus == {"SCHEDULED", "ACTIVE", "COMPLETED", "DISPUTED", "CANCELLED"}
DisputeStatus == {"open", "in_review", "resolved", "escalated"}

\* completed_at and resolved_at: whether there is one; work_report: whose it is.
Job == [status: JobStatus, provider_id: Providers \cup {NULL},
        completed_at: BOOLEAN, work_report: Providers \cup {NULL}]
Dispute == [status: DisputeStatus, resolved_at: BOOLEAN]

ASSUME JobConstants == NULL \notin Providers \cup Job \cup Dispute

\* What a request is about to write: each column's value, or KEPT.
JobRequest ==
         [at: {"IDLE"}]
    \cup [at: {"JOB"}, status: JobStatus \cup {"KEPT"},
          provider_id: Providers \cup {"KEPT"}, completed_at: BOOLEAN,
          work_report: Providers \cup {NULL}, overtaken: BOOLEAN]
    \cup [at: {"DISPUTE"}, status: DisputeStatus \cup {"KEPT"}, resolved_at: BOOLEAN]

JobTypeOK ==
    /\ job \in Job \cup {NULL}
    /\ dispute \in Dispute \cup {NULL}
    /\ request \in [Requests -> JobRequest]

-----------------------------------------------------------------------------
(***************************************************************************)
(* Mutations a careless edit could introduce.                              *)
(***************************************************************************)

\* The time is set on the first completion only: the status alone tells.
DatedNever(status) == FALSE

\* Every provider may report.
MayReportAny(p) == TRUE

-----------------------------------------------------------------------------
(***************************************************************************)
(* Jobs.                                                                   *)
(***************************************************************************)

\* create
RequestJob ==
    /\ job = NULL
    /\ job' = [status |-> "SCHEDULED", provider_id |-> NULL,
               completed_at |-> FALSE, work_report |-> NULL]
    /\ UNCHANGED <<dispute, request>>

LoadsJob(r, status, provider, completed, report) ==
    /\ job # NULL
    /\ request[r] = Idle
    /\ request' = [request EXCEPT ![r] =
                    [at |-> "JOB", status |-> Changed(job.status, status),
                     provider_id |-> Changed(job.provider_id, provider),
                     completed_at |-> completed, work_report |-> report,
                     overtaken |-> FALSE]]
    /\ UNCHANGED <<job, dispute>>

Dated(status) == status \in {"COMPLETED", "resolved"}

\* update_status
UpdateStatus(r, status) ==
    /\ job # NULL
    /\ LoadsJob(r, status, job.provider_id, Dated(status), NULL)

\* assign_provider: the job is ACTIVE again, with its report and its time.
AssignProvider(r, p) ==
    /\ job # NULL
    /\ LoadsJob(r, "ACTIVE", p, FALSE, NULL)

MayReport(p) == job.provider_id = p

\* submit_work_report
SubmitWorkReport(r, p) ==
    /\ job # NULL
    /\ MayReport(p)
    /\ LoadsJob(r, "COMPLETED", job.provider_id, Dated("COMPLETED"), p)

OvertakeJob(req) == IF req.at = "JOB" THEN [req EXCEPT !.overtaken = TRUE] ELSE req

WriteJob(r) ==
    LET mine == request[r] IN
    /\ mine.at = "JOB"
    /\ job' = [status |-> Merge(job.status, mine.status),
               provider_id |-> Merge(job.provider_id, mine.provider_id),
               completed_at |-> job.completed_at \/ mine.completed_at,
               work_report |-> IF mine.work_report = NULL THEN job.work_report
                               ELSE mine.work_report]
    /\ request' = [q \in Requests |->
                    IF q = r THEN Idle
                    ELSE IF mine.provider_id = "KEPT" THEN request[q]
                    ELSE OvertakeJob(request[q])]
    /\ UNCHANGED dispute

-----------------------------------------------------------------------------
(***************************************************************************)
(* Disputes.  The job's own status is never touched.                       *)
(***************************************************************************)

\* create_dispute: the second one of a job meets the unique job_id.
CreateDispute ==
    /\ job # NULL
    /\ dispute = NULL
    /\ dispute' = [status |-> "open", resolved_at |-> FALSE]
    /\ UNCHANGED <<job, request>>

\* update_dispute with a status, and propose_settlement, which is "resolved"
UpdateDispute(r, status) ==
    /\ dispute # NULL
    /\ request[r] = Idle
    /\ request' = [request EXCEPT ![r] =
                    [at |-> "DISPUTE", status |-> Changed(dispute.status, status),
                     resolved_at |-> Dated(status)]]
    /\ UNCHANGED <<job, dispute>>

WriteDispute(r) ==
    LET mine == request[r] IN
    /\ mine.at = "DISPUTE"
    /\ dispute' = [status |-> Merge(dispute.status, mine.status),
                   resolved_at |-> dispute.resolved_at \/ mine.resolved_at]
    /\ request' = [request EXCEPT ![r] = Idle]
    /\ UNCHANGED job

FailRequest(r) ==
    /\ request[r] # Idle
    /\ request' = [request EXCEPT ![r] = Idle]
    /\ UNCHANGED <<job, dispute>>

-----------------------------------------------------------------------------
JobInit ==
    /\ job = NULL
    /\ dispute = NULL
    /\ request = [r \in Requests |-> Idle]

JobNext ==
    \/ RequestJob \/ CreateDispute
    \/ \E r \in Requests :
         \/ \E status \in JobStatus : UpdateStatus(r, status)
         \/ \E p \in Providers : AssignProvider(r, p) \/ SubmitWorkReport(r, p)
         \/ \E status \in DisputeStatus : UpdateDispute(r, status)
         \/ WriteJob(r) \/ WriteDispute(r) \/ FailRequest(r)

JobSpec == JobInit /\ [][JobNext]_jobVars

-----------------------------------------------------------------------------
(***************************************************************************)
(* Properties.                                                             *)
(***************************************************************************)

\* What is closed has the time it was closed at, whichever requests overlap: a
\* request that finds the job completed writes no status but still the time, and
\* nobody takes one away (update_status, submit_work_report, update_dispute,
\* propose_settlement).
ClosedIsDated ==
    /\ job # NULL /\ job.status = "COMPLETED" => job.completed_at
    /\ dispute # NULL /\ dispute.status = "resolved" => dispute.resolved_at

\* A report is the assignee's when it arrives, unless the job was given to
\* another one while this very report was under way ("Only the assigned provider
\* can submit reports").
ReportIsAssignees ==
    [][job # NULL /\ job' # NULL /\ job'.work_report # job.work_report
        => \/ job.provider_id = job'.work_report
           \/ \E r \in Requests : /\ request[r] # Idle /\ request'[r] = Idle
                                 /\ request[r].at = "JOB" /\ request[r].overtaken]_jobVars
=============================================================================
