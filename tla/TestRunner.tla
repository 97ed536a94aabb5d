------------------------------- MODULE TestRunner -------------------------------
(***************************************************************************)
(* test.py: the main thread dispatches test suites and examples to worker  *)
(* threads through one queue, collects them from another, writes the XML   *)
(* results file and turns the counts into an exit status.                  *)
(*                                                                         *)
(*   src/test.py, and of src/src/core/model/test.cc how a suite ends       *)
(*                                                                         *)
(* A job is its place in the list of everything to run; 0 is a job with    *)
(* is_break that tells a worker to stop. A child process ends with an exit *)
(* code (3 stands for all codes and signals beyond 0, 1 and 2), with       *)
(* output that is or is not UTF-8, and a suite with a temporary XML file   *)
(* that is complete, empty or missing.                                     *)
(***************************************************************************)
EXTENDS Integers, Sequences, FiniteSets

CONSTANTS
  Workers,   \* the worker threads, one per processor
  JobList    \* the kinds of the jobs: suites, then examples, then Python examples

ASSUME TestRunnerAssumption ==
  /\ IsFiniteSet(Workers) /\ Workers # {}
  /\ JobList \in Seq({"suite", "example", "pyexample"})

VARIABLES
  main,           \* where the main thread is
  jobs,           \* jobs dispatched (total_tests is the same number)
  breaks,         \* jobs with is_break dispatched
  input_queue, output_queue,
  pc,             \* where each worker is
  job,            \* the job each worker holds
  thread_exit,    \* the flag of sigint_hook
  is_skip, is_break, returncode,   \* members of the jobs
  child,          \* how the child process of each job ended
  rounds,         \* rounds of the collecting loop
  collected,      \* how often each job came back through the output queue
  count,          \* the summary statistics
  results,        \* the entries of the XML results file
  closed,         \* </Results> is written
  status          \* what run_tests returned

vars == <<main, jobs, breaks, input_queue, output_queue, pc, job, thread_exit,
          is_skip, is_break, returncode, child, rounds, collected, count, results,
          closed, status>>

jobVars    == <<is_skip, is_break, returncode, child>>
reportVars == <<rounds, collected, count, results, closed, status>>
workerVars == <<pc, job>>

Ids      == 1 .. Len(JobList)
Statuses == {"PASS", "FAIL", "VALGR", "CRASH", "SKIP"}
None     == 0

Suite(j) == JobList[j] = "suite"

(* How a child can end. The test-runner opens the file of a suite after it  *)
(* has read its arguments and prints into it only after the suite has run.  *)
(* Missing with 0: an argument it does not know, for which it prints help,  *)
(* and NS_LOG=print-list; valgrind may make that 2. Empty with 1: no test   *)
(* of that name, and a test that calls exit (1); valgrind may make that 2.  *)
(* A crash comes before, during or after the suite. Left out: a child       *)
(* killed, or a disk that fills up, in the middle of printing.              *)
Ends(j) ==
  LET ends == [code : 0 .. 3, utf8 : BOOLEAN, xml : {"complete", "empty", "missing"}]
  IN {end \in ends :
        IF Suite(j)
        THEN (end.xml = "missing" => end.code # 1) /\ (end.xml = "empty" => end.code # 0)
        ELSE end.xml = "missing"}

NoEnd == [code |-> 0, utf8 |-> TRUE, xml |-> "none"]

Init ==
  /\ main = "dispatch"
  /\ jobs = 0 /\ breaks = 0
  /\ input_queue = <<>> /\ output_queue = <<>>
  /\ pc = [w \in Workers |-> "get"]
  /\ job = [w \in Workers |-> None]
  /\ thread_exit = FALSE
  /\ is_skip = [j \in Ids |-> FALSE]
  /\ is_break = [j \in Ids |-> FALSE]
  /\ returncode = [j \in Ids |-> 0]
  /\ child = [j \in Ids |-> NoEnd]
  /\ rounds = 0
  /\ collected = [j \in Ids |-> 0]
  /\ count = [s \in Statuses |-> 0]
  /\ results = <<>>
  /\ closed = FALSE
  /\ status = "none"

-----------------------------------------------------------------------------
(* The main thread.                                                         *)

(* Whether a job is to be skipped depends on the valgrind option, the lists *)
(* of tests and the bindings; skipped jobs are dispatched all the same.     *)
Dispatch ==
  /\ main = "dispatch" /\ jobs < Len(JobList)
  /\ jobs' = jobs + 1
  /\ \E s \in BOOLEAN : is_skip' = [is_skip EXCEPT ![jobs + 1] = s]
  /\ input_queue' = Append(input_queue, jobs + 1)
  /\ UNCHANGED <<main, breaks, output_queue, thread_exit, is_break, returncode,
                 child, reportVars, workerVars>>

(* Defect: one worker too few is told to stop. *)
DispatchBreakMutant ==
  /\ main = "dispatch" /\ jobs = Len(JobList)
  /\ breaks' = breaks + 1
  /\ input_queue' = IF breaks = 0 THEN input_queue ELSE Append(input_queue, None)
  /\ main' = IF breaks' = Cardinality(Workers) THEN "collect" ELSE main
  /\ UNCHANGED <<jobs, output_queue, thread_exit, jobVars, reportVars, workerVars>>

DispatchBreak ==
  /\ main = "dispatch" /\ jobs = Len(JobList)
  /\ breaks' = breaks + 1
  /\ input_queue' = Append(input_queue, None)
  /\ main' = IF breaks' = Cardinality(Workers) THEN "collect" ELSE main
  /\ UNCHANGED <<jobs, output_queue, thread_exit, jobVars, reportVars, workerVars>>

StatusOf(j) ==
  CASE is_skip[j] -> "SKIP"
    [] ~is_skip[j] /\ returncode[j] = 0 -> "PASS"
    [] ~is_skip[j] /\ returncode[j] = 1 -> "FAIL"
    [] ~is_skip[j] /\ returncode[j] = 2 -> "VALGR"
    [] OTHER -> "CRASH"

Copied(j) == Suite(j) /\ ~is_skip[j] /\ returncode[j] \in 0 .. 2

(* One round of the loop over the jobs. A job that was interrupted leaves   *)
(* no trace. An example, a skipped and a crashed suite get an entry of      *)
(* their own; of any other suite the temporary file is copied, which adds   *)
(* nothing when it is empty, and opening it raises an exception when the    *)
(* suite has not written one.                                               *)
Collect ==
  /\ main = "collect" /\ rounds < jobs /\ output_queue # <<>>
  /\ rounds' = rounds + 1
  /\ LET j == Head(output_queue)
     IN /\ output_queue' = Tail(output_queue)
        /\ collected' = [collected EXCEPT ![j] = @ + 1]
        /\ \/ is_break[j] /\ UNCHANGED <<main, count, results>>
           \/ /\ ~is_break[j]
              /\ count' = [count EXCEPT ![StatusOf(j)] = @ + 1]
              /\ \/ /\ ~Copied(j)
                    /\ results' = Append(results, [job |-> j, entry |-> StatusOf(j)])
                    /\ UNCHANGED main
                 \/ /\ Copied(j) /\ child[j].xml = "complete"
                    /\ results' = Append(results, [job |-> j, entry |-> "complete"])
                    /\ UNCHANGED main
                 \/ /\ Copied(j) /\ child[j].xml = "empty"
                    /\ UNCHANGED <<main, results>>
                 \/ /\ Copied(j) /\ child[j].xml = "missing"
                    /\ main' = "raised"
                    /\ UNCHANGED results
  /\ UNCHANGED <<jobs, breaks, input_queue, thread_exit, jobVars, closed,
                 status, workerVars>>

(* Defect: one round of the loop is missing. *)
JoinMutant ==
  /\ main = "collect" /\ rounds + 1 = jobs
  /\ \A w \in Workers : pc[w] \in {"ended", "died"}
  /\ closed' = TRUE
  /\ main' = "finish"
  /\ UNCHANGED <<jobs, breaks, input_queue, output_queue, thread_exit, jobVars,
                 rounds, collected, count, results, status, workerVars>>

(* after the loop: every worker is joined, then the document is closed *)
Join ==
  /\ main = "collect" /\ rounds = jobs
  /\ \A w \in Workers : pc[w] \in {"ended", "died"}
  /\ closed' = TRUE
  /\ main' = "finish"
  /\ UNCHANGED <<jobs, breaks, input_queue, output_queue, thread_exit, jobVars,
                 rounds, collected, count, results, status, workerVars>>

(* Defect: success is the absence of failures. *)
ExitStatusMutant == IF count["FAIL"] + count["CRASH"] + count["VALGR"] = 0 THEN 0 ELSE 1

ExitStatus == IF count["PASS"] + count["SKIP"] = jobs THEN 0 ELSE 1

(* the summary, the translations asked for and the exit status *)
Finish ==
  /\ main = "finish"
  /\ main' = "returned"
  /\ status' = IF ExitStatus = 0 THEN "success" ELSE "error"
  /\ UNCHANGED <<jobs, breaks, input_queue, output_queue, thread_exit, jobVars,
                 rounds, collected, count, results, closed, workerVars>>

-----------------------------------------------------------------------------
(* The signal handler: it runs in the main thread, wherever that is.        *)
sigint_hook ==
  /\ main # "returned" /\ ~thread_exit
  /\ thread_exit' = TRUE
  /\ UNCHANGED <<main, jobs, breaks, input_queue, output_queue, jobVars,
                 reportVars, workerVars>>

-----------------------------------------------------------------------------
(* The workers.                                                             *)
GetJob(w) ==
  /\ pc[w] = "get" /\ input_queue # <<>>
  /\ input_queue' = Tail(input_queue)
  /\ job' = [job EXCEPT ![w] = Head(input_queue)]
  /\ pc' = [pc EXCEPT ![w] = IF Head(input_queue) = None THEN "ended" ELSE "got"]
  /\ UNCHANGED <<main, jobs, breaks, output_queue, thread_exit, jobVars,
                 reportVars>>

PutBack(w) ==
  /\ output_queue' = Append(output_queue, job[w])
  /\ job' = [job EXCEPT ![w] = None]
  /\ pc' = [pc EXCEPT ![w] = "get"]

(* Defect: no "continue": the job is handed back and run as well. *)
InterruptedMutant(w) ==
  /\ pc[w] = "got" /\ thread_exit
  /\ is_break' = [is_break EXCEPT ![job[w]] = TRUE]
  /\ output_queue' = Append(output_queue, job[w])
  /\ pc' = [pc EXCEPT ![w] = "launch"]
  /\ UNCHANGED <<main, jobs, breaks, input_queue, thread_exit, is_skip, returncode,
                 child, reportVars, job>>

(* Defect: the job is not handed back. *)
InterruptedSilentMutant(w) ==
  /\ pc[w] = "got" /\ thread_exit
  /\ is_break' = [is_break EXCEPT ![job[w]] = TRUE]
  /\ pc' = [pc EXCEPT ![w] = "get"]
  /\ job' = [job EXCEPT ![w] = None]
  /\ UNCHANGED <<main, jobs, breaks, input_queue, output_queue, thread_exit, is_skip,
                 returncode, child, reportVars>>

Interrupted(w) ==
  /\ pc[w] = "got" /\ thread_exit
  /\ is_break' = [is_break EXCEPT ![job[w]] = TRUE]
  /\ PutBack(w)
  /\ UNCHANGED <<main, jobs, breaks, input_queue, thread_exit, is_skip, returncode,
                 child, reportVars>>

Skip(w) ==
  /\ pc[w] = "got" /\ ~thread_exit /\ is_skip[job[w]]
  /\ PutBack(w)
  /\ UNCHANGED <<main, jobs, breaks, input_queue, thread_exit, jobVars,
                 reportVars>>

(* between this look at the flag and Popen an interrupt may come *)
Decide(w) ==
  /\ pc[w] = "got" /\ ~thread_exit /\ ~is_skip[job[w]]
  /\ pc' = [pc EXCEPT ![w] = "launch"]
  /\ UNCHANGED <<main, jobs, breaks, input_queue, output_queue, thread_exit,
                 jobVars, reportVars, job>>

(* Popen starts the child, or raises and ends the worker with its job.      *)
Popen(w) ==
  /\ pc[w] = "launch"
  /\ \E p \in {"child", "died"} : pc' = [pc EXCEPT ![w] = p]
  /\ UNCHANGED <<main, jobs, breaks, input_queue, output_queue, thread_exit,
                 jobVars, reportVars, job>>

(* Defect: output that cannot be decoded makes the code 0. *)
CodeMutant(end) == IF end.utf8 THEN end.code ELSE 0

Code(end) == IF end.utf8 THEN end.code ELSE 1

ChildEnds(w, end) ==
  /\ pc[w] = "child"
  /\ child' = [child EXCEPT ![job[w]] = end]
  /\ returncode' = [returncode EXCEPT ![job[w]] = Code(end)]
  /\ PutBack(w)
  /\ UNCHANGED <<main, jobs, breaks, input_queue, thread_exit, is_skip, is_break,
                 reportVars>>

-----------------------------------------------------------------------------
MainStep == Dispatch \/ DispatchBreak \/ Collect \/ Join \/ Finish

WorkerStep(w) ==
  \/ GetJob(w) \/ Interrupted(w) \/ Skip(w) \/ Decide(w) \/ Popen(w)
  \/ pc[w] = "child" /\ \E end \in Ends(job[w]) : ChildEnds(w, end)

Next == MainStep \/ sigint_hook \/ \E w \in Workers : WorkerStep(w)

Spec == Init /\ [][Next]_vars

FairSpec == Spec /\ WF_vars(MainStep) /\ \A w \in Workers : WF_vars(WorkerStep(w))
-----------------------------------------------------------------------------
Times(queue, j) == Cardinality({i \in DOMAIN queue : queue[i] = j})
Holders(j)      == Cardinality({w \in Workers : job[w] = j})
Entries(j)      == Cardinality({i \in DOMAIN results : results[i].job = j})

(* Through dispatching, working, interrupts and collecting, a dispatched    *)
(* job is always in exactly one place: a queue, the hands of one worker     *)
(* (which may have died with it), or what the main thread has collected.    *)
JobsAccounted ==
  \A j \in Ids :
    Times(input_queue, j) + Holders(j) + Times(output_queue, j) + collected[j]
      = IF j <= jobs THEN 1 ELSE 0

(* test.py reports success only when every job was skipped or its process   *)
(* really ended with code 0 and readable output: not when the run was       *)
(* interrupted, whatever the jobs that did run returned.                    *)
SuccessIsHonest ==
  status = "success" =>
    \A j \in Ids : ~is_break[j] /\ (is_skip[j] \/ (child[j] # NoEnd /\ child[j].code = 0
                                                   /\ child[j].utf8))

(* When the results file is closed it has one entry for every job, except   *)
(* none for a job that was interrupted and for a suite that left its file   *)
(* empty and whose code, its own or the 1 put in its place when its output  *)
(* could not be decoded, is not that of a crash. The comment of the loop    *)
(* (test.py:1796) has it that a code of 0, 1 or 2 means a valid file, and   *)
(* promises (:1799-1804) a second entry, VALGR, after that of a suite with  *)
(* code 2, which the code never writes.                                     *)
ReportIsComplete ==
  closed =>
    \A j \in Ids :
      Entries(j) = IF is_break[j] \/ (Copied(j) /\ child[j].xml = "empty") THEN 0 ELSE 1

(* When test.py reports success the results file is closed and shows it:    *)
(* one entry for every job, that of a suite that ran being the complete     *)
(* file it wrote itself, that of an example PASS, of a skipped job SKIP. A  *)
(* suite that crashed, was not found or only printed help is never behind   *)
(* a success, whatever it wrote to its output.                              *)
SuccessIsReported ==
  status = "success" =>
    /\ closed
    /\ \A j \in Ids :
         /\ Entries(j) = 1
         /\ \A i \in DOMAIN results : results[i].job = j =>
              results[i].entry = CASE is_skip[j] -> "SKIP"
                                   [] ~is_skip[j] /\ Suite(j) -> "complete"
                                   [] OTHER -> "PASS"

(* Interrupted or not, run_tests comes to an end, provided every child does *)
(* and no worker has died in Popen, taking a job with it.                   *)
RunReturns ==
  <>(main \in {"returned", "raised"} \/ \E w \in Workers : pc[w] = "died")

(* Every worker ends, also when the main thread died of an exception or     *)
(* another worker did: the process does not hang at exit on a thread.       *)
WorkersEnd == <>(\A w \in Workers : pc[w] \in {"ended", "died"})
=============================================================================
