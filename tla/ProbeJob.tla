------------------------------ MODULE ProbeJob -------------------------------
(***************************************************************************)
(* Checks of proxy accounts in the background                              *)
(* (relay/opencode_account_probe.go, opencode_account_probe_job.go).  A    *)
(* job writes its accounts to the ledger first, then checks them with a    *)
(* bounded number of workers; it ends by itself, at its deadline, or when  *)
(* newer jobs push it out of the store, and accounts not checked by then   *)
(* are reported as cancelled.  The daily check is a job nobody watches.    *)
(***************************************************************************)
EXTENDS Naturals, FiniteSets, Sequences, SequencesExt

CONSTANTS
  Jobs, AutoJob,     \* background jobs; AutoJob is the daily check
  JobAccounts,
  JobConcurrency,
  JobKeepCount,      \* ocProbeJobKeepCount
  MaxProbeDay        \* bound

ASSUME JobAssumption == AutoJob \in Jobs /\ IsFiniteSet(JobAccounts)

VARIABLES
  rows,        \* the ledger: account -> [known, at]: LastProbeAt
  store,       \* ocProbeJobs.order
  job,         \* job -> its entry
  work,        \* job -> account -> where its goroutine is
  ctxDone,     \* jobs whose context ended
  probeDay

jobVars == <<rows, store, job, work, ctxDone, probeDay>>

Outcomes == {"healthy", "rejected", "error"}
NewEntry(S) == [state |-> "running", accounts |-> S, results |-> [a \in S |-> "none"],
                probed |-> 0, tally |-> [o \in Outcomes |-> 0]]
Over == {"left", "panicked"}   \* a worker that is done with the wait group
NoJob == [NewEntry({}) EXCEPT !.state = "none"]

JobInit ==
  /\ rows = [a \in JobAccounts |-> [known |-> FALSE, at |-> 0]]
  /\ store = <<>>
  /\ job = [j \in Jobs |-> NoJob]
  /\ work = [j \in Jobs |-> [a \in JobAccounts |-> "none"]]
  /\ ctxDone = {} /\ probeDay = 1

\* prepareAccountProbe: unknown accounts enter the ledger untested, known rows stay as they are.
Prepared(S) == [a \in JobAccounts |-> IF a \in S THEN [rows[a] EXCEPT !.known = TRUE] ELSE rows[a]]
Begin(j, S) ==
  /\ job' = [job EXCEPT ![j] = NewEntry(S)]
  /\ work' = [work EXCEPT ![j] = [a \in JobAccounts |-> IF a \in S THEN "queued" ELSE "none"]]
  /\ rows' = Prepared(S)

\* The store keeps the newest jobs; a job pushed out is cancelled.
StartOpencodeAccountProbe(j) ==
  LET order == Append(store, j)
      gone == IF Len(order) > JobKeepCount THEN {order[1]} ELSE {}
  IN /\ job[j].state = "none" /\ j # AutoJob
     /\ \E S \in SUBSET JobAccounts \ {{}} : Begin(j, S)
     /\ store' = SelectSeq(order, LAMBDA i : i \notin gone)
     /\ ctxDone' = ctxDone \cup gone
     /\ UNCHANGED probeDay

\* ocAutoProbeDueAccounts: every known account not checked within a day.
Due == {a \in JobAccounts : rows[a].known /\ (rows[a].at = 0 \/ probeDay > rows[a].at)}
AutoProbeOpencodeAccounts ==
  /\ job[AutoJob].state # "running" /\ Due # {}
  /\ Begin(AutoJob, Due)
  /\ ctxDone' = ctxDone \ {AutoJob}
  /\ UNCHANGED <<store, probeDay>>

\* A worker waits for a slot or for the end of the context, and looks at the context again.
Acquire(j, a) ==
  /\ work[j][a] = "queued"
  /\ \/ /\ Cardinality({b \in JobAccounts : work[j][b] \in {"probing", "answered"}}) < JobConcurrency
        /\ work' = [work EXCEPT ![j][a] = IF j \in ctxDone THEN "left" ELSE "probing"]
     \/ j \in ctxDone /\ work' = [work EXCEPT ![j][a] = "left"]
  /\ UNCHANGED <<rows, store, job, ctxDone, probeDay>>

\* ocProbeOne: the conclusion goes to the ledger; a probe cut short by its context is an error.
\* Nobody reads the report of the daily check.
ocProbeOne(j, a) ==
  /\ work[j][a] = "probing"
  /\ \E o \in (IF j \in ctxDone THEN {"error"} ELSE Outcomes) :
       job' = IF j = AutoJob THEN job ELSE [job EXCEPT ![j].results[a] = o]
  /\ rows' = [rows EXCEPT ![a] = [known |-> TRUE, at |-> probeDay]]
  /\ work' = [work EXCEPT ![j][a] = "answered"]
  /\ UNCHANGED <<store, ctxDone, probeDay>>

\* The progress callback counts the result under the job's lock.
Progress(j, a) ==
  /\ work[j][a] = "answered"
  /\ job' = IF j = AutoJob THEN job
            ELSE [job EXCEPT ![j].probed = @ + 1, ![j].tally[job[j].results[a]] = @ + 1]
  /\ work' = [work EXCEPT ![j][a] = "left"]
  /\ UNCHANGED <<rows, store, ctxDone, probeDay>>

\* A probe that panics: goSafe recovers the worker, whose slot is free and whose place is done
\* again, but no result is recorded and nothing is counted.  The ledger may be written already.
WorkerPanics(j, a) ==
  /\ work[j][a] = "probing"
  /\ work' = [work EXCEPT ![j][a] = "panicked"]
  /\ rows' \in {rows, [rows EXCEPT ![a] = [known |-> TRUE, at |-> probeDay]]}
  /\ UNCHANGED <<store, job, ctxDone, probeDay>>

\* The job's deadline, or the end of the daily task.
Deadline(j) ==
  /\ job[j].state = "running" /\ j \notin ctxDone /\ ctxDone' = ctxDone \cup {j}
  /\ UNCHANGED <<rows, store, job, work, probeDay>>

\* Fault: the job ends at its deadline without waiting for its workers.
FinishAtDeadline(j) ==
  /\ job[j].state = "running" /\ (j \in ctxDone \/ \A a \in job[j].accounts : work[j][a] \in Over)
  /\ job' = [job EXCEPT ![j].results = [a \in job[j].accounts |->
                                          IF @[a] = "none" THEN "cancelled" ELSE @[a]],
                        ![j].state = IF j \in ctxDone THEN "cancelled" ELSE "done"]
  /\ ctxDone' = ctxDone \cup {j}
  /\ UNCHANGED <<rows, store, work, probeDay>>

\* run: once all workers left, accounts without a result are cancelled and the state is final.
FinishJob(j) ==
  /\ job[j].state = "running" /\ \A a \in job[j].accounts : work[j][a] \in Over
  /\ job' = [job EXCEPT ![j].results = [a \in job[j].accounts |->
                                          IF @[a] = "none" THEN "cancelled" ELSE @[a]],
                        ![j].state = IF j \in ctxDone THEN "cancelled" ELSE "done"]
  /\ ctxDone' = ctxDone \cup {j}
  /\ UNCHANGED <<rows, store, work, probeDay>>

ProbeDayPasses == /\ probeDay < MaxProbeDay /\ probeDay' = probeDay + 1
                  /\ UNCHANGED <<rows, store, job, work, ctxDone>>

JobNext ==
  \/ \E j \in Jobs : \/ StartOpencodeAccountProbe(j) \/ Deadline(j) \/ FinishJob(j)
                     \/ \E a \in JobAccounts : \/ Acquire(j, a) \/ ocProbeOne(j, a)
                                               \/ Progress(j, a) \/ WorkerPanics(j, a)
  \/ AutoProbeOpencodeAccounts \/ ProbeDayPasses
JobSpec == JobInit /\ [][JobNext]_jobVars

-----------------------------------------------------------------------------
\* The progress a console saw adds up with the final report: every account of an ended job was
\* either counted once by its outcome or is reported as cancelled, and a job that says it is done
\* cancelled only accounts whose worker panicked -- whenever its deadline, its workers and the
\* push-out of the store fell.
ReportAddsUp ==
  \A j \in Jobs \ {AutoJob} : job[j].state \in {"done", "cancelled"} =>
    LET with(o) == {a \in job[j].accounts : job[j].results[a] = o}
    IN /\ \A o \in Outcomes : job[j].tally[o] = Cardinality(with(o))
       /\ job[j].probed + Cardinality(with("cancelled")) = Cardinality(job[j].accounts)
       /\ job[j].state = "done" => \A a \in with("cancelled") : work[j][a] = "panicked"
=============================================================================
