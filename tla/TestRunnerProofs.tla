---------------------------- MODULE TestRunnerProofs ----------------------------
(***************************************************************************)
(* Proofs about TestRunner, for every number of workers and every list of  *)
(* jobs: no job is lost or handled twice, and the exit status and the      *)
(* results file say what happened.                                         *)
(***************************************************************************)
EXTENDS TestRunner, FunctionTheorems, FiniteSetTheorems, TLAPS

Entry == [job : Ids, entry : Statuses \cup {"complete"}]

Types ==
  /\ main \in {"dispatch", "collect", "finish", "raised", "returned"}
  /\ jobs \in 0 .. Len(JobList) /\ rounds \in Nat
  /\ input_queue \in Seq(Ids \cup {None}) /\ output_queue \in Seq(Ids)
  /\ pc \in [Workers -> {"get", "got", "launch", "child", "ended", "died"}]
  /\ job \in [Workers -> Ids \cup {None}]
  /\ is_skip \in [Ids -> BOOLEAN] /\ is_break \in [Ids -> BOOLEAN]
  /\ returncode \in [Ids -> 0 .. 3]
  /\ child \in [Ids -> [code : 0 .. 3, utf8 : BOOLEAN,
                        xml : {"complete", "empty", "missing", "none"}]]
  /\ collected \in [Ids -> Nat] /\ count \in [Statuses -> Nat]
  /\ results \in Seq(Entry)

(* A worker has a job in hand from Queue.get until it puts it back. *)
Holding ==
  \A w \in Workers :
    IF pc[w] \in {"got", "launch", "child", "died"} THEN job[w] \in Ids ELSE job[w] = None

(* How often a job has left the workers. *)
Out(j) == Times(output_queue, j) + collected[j]

AllDispatched == main # "dispatch" => jobs = Len(JobList)

(* A job that has left the workers, was not interrupted and is not skipped  *)
(* carries the code of its own child process.                               *)
Settled ==
  \A j \in Ids : Out(j) > 0 /\ ~is_break[j] /\ ~is_skip[j] =>
    child[j] \in Ends(j) /\ returncode[j] = Code(child[j])

Collected == {j \in Ids : collected[j] > 0}
Fine      == {j \in Collected : ~is_break[j] /\ StatusOf(j) \in {"PASS", "SKIP"}}

(* A round of the loop collects one job, and each job is counted once. *)
RoundsCount == rounds = Cardinality(Collected)
FineCount   == count["PASS"] + count["SKIP"] = Cardinality(Fine)

(* A collected job that has an entry in the results. *)
Reported(j) == j \in Collected /\ ~is_break[j] /\ ~(Copied(j) /\ child[j].xml = "empty")

(* Unless it was left by an exception, the loop has written one entry for    *)
(* every job it collected that was not interrupted and left no empty file.   *)
EntriesWritten ==
  main # "raised" => \A j \in Ids : Entries(j) = IF Reported(j) THEN 1 ELSE 0

(* What stands in the results is what became of the job. *)
EntryOf(j) == IF Copied(j) THEN "complete" ELSE StatusOf(j)

EntriesTrue ==
  \A i \in DOMAIN results :
    results[i].job \in Collected /\ results[i].entry = EntryOf(results[i].job)

ClosedIsAll ==
  /\ closed => Collected = Ids
  /\ closed <=> main \in {"finish", "returned"}

SuccessIsAll == status = "success" => closed /\ Fine = Ids

JInv ==
  /\ Types /\ Holding /\ JobsAccounted /\ AllDispatched /\ Settled
  /\ RoundsCount /\ FineCount /\ EntriesWritten /\ EntriesTrue
  /\ ClosedIsAll /\ SuccessIsAll

-----------------------------------------------------------------------------
(* Counting. *)
Is(x, j) == IF x = j THEN 1 ELSE 0

LEMMA TimesNat ==
  ASSUME NEW S, NEW q \in Seq(S), NEW j
  PROVE  /\ IsFiniteSet({i \in DOMAIN q : q[i] = j})
         /\ Times(q, j) \in Nat
         /\ (\E i \in DOMAIN q : q[i] = j) => Times(q, j) > 0
<1> DEFINE A == {i \in DOMAIN q : q[i] = j}
<1>1. IsFiniteSet(DOMAIN q)
  <2>1. DOMAIN q = 1 .. Len(q) /\ Len(q) \in Int
    OBVIOUS
  <2> QED BY <2>1, FS_Interval
<1>2. A \in SUBSET DOMAIN q
  OBVIOUS
<1>3. IsFiniteSet(A)
  BY <1>1, <1>2, FS_Subset
<1>4. Cardinality(A) \in Nat /\ (Cardinality(A) = 0 <=> A = {})
  BY <1>3, FS_CardinalityType, FS_EmptySet
<1> QED BY <1>3, <1>4 DEF Times

LEMMA Bump ==
  ASSUME NEW S, NEW f \in [S -> Nat], NEW x \in S
  PROVE  [f EXCEPT ![x] = @ + 1] \in [S -> Nat]
OBVIOUS

LEMMA AppendType ==
  ASSUME NEW S, NEW q \in Seq(S), NEW x \in S
  PROVE  Append(q, x) \in Seq(S)
OBVIOUS

(* Queue.put *)
LEMMA TimesAppend ==
  ASSUME NEW S, NEW q \in Seq(S), NEW x \in S, NEW j
  PROVE  Times(Append(q, x), j) = Times(q, j) + Is(x, j)
<1> DEFINE t == Append(q, x)
           A == {i \in DOMAIN q : q[i] = j}
           B == {i \in DOMAIN t : t[i] = j}
           n == Len(q) + 1
<1>1. /\ DOMAIN t = 1 .. n /\ DOMAIN q = 1 .. Len(q) /\ Len(q) \in Nat /\ n \notin DOMAIN q
      /\ \A i \in 1 .. Len(q) : t[i] = q[i]
      /\ t[n] = x
  OBVIOUS
<1>2. IsFiniteSet(A) /\ Cardinality(A) \in Nat
  BY TimesNat DEF Times
<1> HIDE DEF t
<1>3. n \in DOMAIN t /\ (\A i \in DOMAIN t : i = n \/ i \in DOMAIN q) /\ DOMAIN q \subseteq DOMAIN t
  BY <1>1
<1> HIDE DEF n
<1>4. CASE x = j
  <2>1. B = A \cup {n} /\ n \notin A
    BY <1>1, <1>3, <1>4
  <2>2. Cardinality(B) = Cardinality(A) + 1
    BY <1>2, <2>1, FS_AddElement
  <2> QED BY <1>4, <2>2 DEF Times, Is, t
<1>5. CASE x # j
  <2>1. B = A
    BY <1>1, <1>3, <1>5
  <2>2. Times(t, j) = Times(q, j) /\ Times(q, j) \in Nat
    BY <1>2, <2>1 DEF Times
  <2>3. Is(x, j) = 0
    BY <1>5 DEF Is
  <2> QED BY <2>2, <2>3 DEF t
<1> QED BY <1>4, <1>5

(* Queue.get *)
LEMMA TimesTail ==
  ASSUME NEW S, NEW q \in Seq(S), q # <<>>, NEW j
  PROVE  Times(q, j) = Times(Tail(q), j) + Is(Head(q), j)
<1> DEFINE t == Tail(q)
           A == {i \in DOMAIN t : t[i] = j}
           B == {i \in DOMAIN q : q[i] = j}
           C == B \ {1}
           f == [i \in A |-> i + 1]
<1>1. /\ t \in Seq(S) /\ Len(q) \in Nat /\ Len(q) >= 1 /\ DOMAIN q = 1 .. Len(q)
      /\ Len(t) = Len(q) - 1
  OBVIOUS
<1>2. DOMAIN t = 1 .. Len(q) - 1 /\ \A i \in 1 .. Len(q) - 1 : t[i] = q[i + 1]
  BY <1>1
<1>3. IsFiniteSet(A) /\ IsFiniteSet(B) /\ Cardinality(A) \in Nat /\ Cardinality(B) \in Nat
  BY <1>1, TimesNat DEF Times
<1> HIDE DEF t
<1>4. Cardinality(C) = Cardinality(A)
  <2>1. \A i \in A : i \in Int /\ i + 1 \in C
    BY <1>1, <1>2
  <2>2. \A k \in C : k - 1 \in A /\ f[k - 1] = k
    BY <1>1, <1>2
  <2>3. \A i, k \in A : f[i] = f[k] => i = k
    BY <2>1
  <2>4. f \in Bijection(A, C)
    <3>1. f \in [A -> C]
      BY <2>1
    <3>2. \A k \in C : \E i \in A : f[i] = k
      BY <2>2
    <3> QED BY <2>3, <3>1, <3>2, Fun_IsBij
  <2>5. ExistsBijection(A, C)
    BY <2>4 DEF ExistsBijection
  <2> QED BY <1>3, <2>5, FS_Bijection
<1>5. Head(q) = q[1] /\ 1 \in DOMAIN q
  BY <1>1
<1>6. Cardinality(C) = IF 1 \in B THEN Cardinality(B) - 1 ELSE Cardinality(B)
  BY <1>3, FS_RemoveElement
<1>7. 1 \in B <=> Head(q) = j
  BY <1>5
<1>8. Times(q, j) = Cardinality(B) /\ Times(t, j) = Cardinality(A)
  BY DEF Times
<1>9. Is(Head(q), j) = IF 1 \in B THEN 1 ELSE 0
  BY <1>7 DEF Is
<1> HIDE DEF A, B
<1> QED BY <1>3, <1>4, <1>6, <1>8, <1>9 DEF t

LEMMA HoldersNat ==
  ASSUME NEW j
  PROVE  /\ IsFiniteSet({w \in Workers : job[w] = j})
         /\ Holders(j) \in Nat
         /\ (\E w \in Workers : job[w] = j) => Holders(j) > 0
<1> DEFINE A == {w \in Workers : job[w] = j}
<1>1. A \in SUBSET Workers /\ IsFiniteSet(Workers)
  BY TestRunnerAssumption
<1>2. IsFiniteSet(A)
  BY <1>1, FS_Subset
<1>3. Cardinality(A) \in Nat /\ (Cardinality(A) = 0 <=> A = {})
  BY <1>2, FS_CardinalityType, FS_EmptySet
<1> QED BY <1>2, <1>3 DEF Holders

(* A worker takes a job in hand or lays it down. *)
HoldersIn(f, j) == Cardinality({w \in Workers : f[w] = j})

LEMMA HoldersMove ==
  ASSUME NEW f, NEW g, NEW w \in Workers, NEW x, g[w] = x,
         \A v \in Workers : v # w => g[v] = f[v], NEW j
  PROVE  HoldersIn(g, j) + Is(f[w], j) = HoldersIn(f, j) + Is(x, j)
<1> DEFINE A == {v \in Workers : f[v] = j}
           B == {v \in Workers : g[v] = j}
           C == A \ {w}
<1>2. IsFiniteSet(A) /\ Cardinality(A) \in Nat
  <2>1. A \in SUBSET Workers /\ IsFiniteSet(Workers)
    BY TestRunnerAssumption
  <2> QED BY <2>1, FS_Subset, FS_CardinalityType
<1>3. IsFiniteSet(C) /\ Cardinality(C) + Is(f[w], j) = Cardinality(A)
  <2>1. IsFiniteSet(C) /\ Cardinality(C) = IF w \in A THEN Cardinality(A) - 1 ELSE Cardinality(A)
    BY <1>2, FS_RemoveElement
  <2>2. Is(f[w], j) = IF w \in A THEN 1 ELSE 0
    BY DEF Is
  <2> HIDE DEF A, C
  <2> QED BY <1>2, <2>1, <2>2
<1>4. w \notin C /\ Cardinality(C) \in Nat
  BY <1>3, FS_CardinalityType
<1>h. HoldersIn(f, j) = Cardinality(A) /\ HoldersIn(g, j) = Cardinality(B)
  BY DEF HoldersIn
<1>i. Is(f[w], j) \in Nat
  BY DEF Is
<1>5. CASE x = j
  <2>1. B = C \cup {w}
    BY <1>5
  <2>2. Cardinality(B) = Cardinality(C) + 1 /\ Is(x, j) = 1
    BY <1>3, <1>4, <1>5, <2>1, FS_AddElement DEF Is
  <2> HIDE DEF A, B, C
  <2> QED BY <1>2, <1>3, <1>4, <1>h, <1>i, <2>2
<1>6. CASE x # j
  <2>1. B = C /\ Is(x, j) = 0
    BY <1>6 DEF Is
  <2> HIDE DEF A, B, C
  <2> QED BY <1>2, <1>3, <1>4, <1>h, <1>i, <2>1
<1> QED BY <1>5, <1>6

LEMMA IdsFacts == Len(JobList) \in Nat /\ Ids \subseteq Nat /\ None \notin Ids /\ IsFiniteSet(Ids)
                  /\ Cardinality(Ids) = Len(JobList)
<1>1. Len(JobList) \in Nat
  BY TestRunnerAssumption
<1> QED BY <1>1, FS_Interval DEF Ids, None

LEMMA EntriesAppend ==
  ASSUME results \in Seq(Entry), NEW e \in Entry, results' = Append(results, e), NEW j
  PROVE  Entries(j)' = Entries(j) + Is(e.job, j) /\ Entries(j) \in Nat
<1> DEFINE A == {i \in DOMAIN results : results[i].job = j}
           B == {i \in DOMAIN results' : results'[i].job = j}
           n == Len(results) + 1
<1>1. /\ DOMAIN results' = 1 .. n /\ DOMAIN results = 1 .. Len(results) /\ Len(results) \in Nat
      /\ \A i \in 1 .. Len(results) : results'[i] = results[i]
      /\ results'[n] = e
  OBVIOUS
<1>2. IsFiniteSet(A) /\ Cardinality(A) \in Nat
  <2>1. IsFiniteSet(DOMAIN results) /\ A \in SUBSET DOMAIN results
    BY <1>1, FS_Interval
  <2> QED BY <2>1, FS_Subset, FS_CardinalityType
<1>3. /\ n \in DOMAIN results' /\ n \notin DOMAIN results
      /\ (\A i \in DOMAIN results' : i = n \/ i \in DOMAIN results)
      /\ DOMAIN results \subseteq DOMAIN results'
  BY <1>1
<1>e. Entries(j) = Cardinality(A) /\ Entries(j)' = Cardinality(B)
  BY DEF Entries
<1> HIDE DEF n
<1>4. CASE e.job = j
  <2>1. B = A \cup {n} /\ n \notin A
    BY <1>1, <1>3, <1>4
  <2>2. Cardinality(B) = Cardinality(A) + 1
    BY <1>2, <2>1, FS_AddElement
  <2>3. Is(e.job, j) = 1
    BY <1>4 DEF Is
  <2> HIDE DEF A, B
  <2> QED BY <1>2, <1>e, <2>2, <2>3
<1>5. CASE e.job # j
  <2>1. B = A
    BY <1>1, <1>3, <1>5
  <2>2. Is(e.job, j) = 0
    BY <1>5 DEF Is
  <2> HIDE DEF A, B
  <2> QED BY <1>2, <1>e, <2>1, <2>2
<1> QED BY <1>4, <1>5

-----------------------------------------------------------------------------
(* What the return codes and files of child processes can be. *)
LEMMA EndsType ==
  ASSUME NEW j \in Ids, NEW end \in Ends(j)
  PROVE  /\ end \in [code : 0 .. 3, utf8 : BOOLEAN,
                     xml : {"complete", "empty", "missing", "none"}]
         /\ Code(end) \in 0 .. 3
         /\ end # NoEnd
<1>1. end \in [code : 0 .. 3, utf8 : BOOLEAN, xml : {"complete", "empty", "missing"}]
  BY DEF Ends
<1>2. Code(end) \in 0 .. 3
  BY <1>1 DEF Code
<1>3. end # NoEnd
  BY <1>1 DEF NoEnd
<1> QED BY <1>1, <1>2, <1>3

LEMMA InitTypes == Init => Types /\ Holding
<1> SUFFICES ASSUME Init PROVE Types /\ Holding
  OBVIOUS
<1>1. jobs \in 0 .. Len(JobList) /\ rounds \in Nat
  BY IdsFacts DEF Init
<1>2. returncode \in [Ids -> 0 .. 3] /\ collected \in [Ids -> Nat] /\ count \in [Statuses -> Nat]
  BY DEF Init
<1>3. child \in [Ids -> [code : 0 .. 3, utf8 : BOOLEAN,
                         xml : {"complete", "empty", "missing", "none"}]]
  <2>1. NoEnd \in [code : 0 .. 3, utf8 : BOOLEAN,
                   xml : {"complete", "empty", "missing", "none"}]
    BY DEF NoEnd
  <2> QED BY <2>1 DEF Init
<1>4. input_queue \in Seq(Ids \cup {None}) /\ output_queue \in Seq(Ids) /\ results \in Seq(Entry)
  BY DEF Init
<1>5. pc \in [Workers -> {"get", "got", "launch", "child", "ended", "died"}]
      /\ job \in [Workers -> Ids \cup {None}] /\ Holding
  BY DEF Init, Holding
<1>6. is_skip \in [Ids -> BOOLEAN] /\ is_break \in [Ids -> BOOLEAN]
  BY DEF Init
<1>7. main \in {"dispatch", "collect", "finish", "raised", "returned"}
  BY DEF Init
<1> QED BY <1>1, <1>2, <1>3, <1>4, <1>5, <1>6, <1>7 DEF Types

(* A step of one worker changes its own place and the job it holds.         *)
LEMMA NextTypes == Types /\ Holding /\ [Next]_vars => Types' /\ Holding'
<1> SUFFICES ASSUME Types, Holding, [Next]_vars PROVE Types' /\ Holding'
  OBVIOUS
<1> USE IdsFacts DEF Types
<1>1. ASSUME Dispatch PROVE Types' /\ Holding'
  <2>1. jobs + 1 \in Ids /\ jobs' \in 0 .. Len(JobList)
    BY <1>1 DEF Dispatch, Ids
  <2>2. input_queue' \in Seq(Ids \cup {None})
    BY <1>1, <2>1 DEF Dispatch
  <2>3. is_skip' \in [Ids -> BOOLEAN]
    BY <1>1, <2>1 DEF Dispatch
  <2> QED BY <1>1, <2>1, <2>2, <2>3 DEF Dispatch, reportVars, workerVars, Holding
<1>2. ASSUME DispatchBreak PROVE Types' /\ Holding'
  <2>1. input_queue' \in Seq(Ids \cup {None})
    BY <1>2 DEF DispatchBreak
  <2>2. main' \in {"dispatch", "collect"}
    BY <1>2 DEF DispatchBreak
  <2> QED BY <1>2, <2>1, <2>2 DEF DispatchBreak, jobVars, reportVars, workerVars, Holding
<1>3. ASSUME Collect PROVE Types' /\ Holding'
  <2> DEFINE j == Head(output_queue)
  <2>1. j \in Ids /\ output_queue' \in Seq(Ids)
    BY <1>3 DEF Collect
  <2>a. collected' = [collected EXCEPT ![j] = @ + 1] /\ rounds' = rounds + 1
    BY <1>3 DEF Collect
  <2>b. count' = count \/ count' = [count EXCEPT ![StatusOf(j)] = @ + 1]
    BY <1>3 DEF Collect
  <2>c. \/ results' = results
        \/ results' = Append(results, [job |-> j, entry |-> StatusOf(j)])
        \/ results' = Append(results, [job |-> j, entry |-> "complete"])
    BY <1>3 DEF Collect
  <2>3. StatusOf(j) \in Statuses
    BY DEF StatusOf, Statuses
  <2>0. count \in [Statuses -> Nat] /\ results \in Seq(Entry)
    OBVIOUS
  <2> HIDE DEF j, Types
  <2>2. collected' \in [Ids -> Nat] /\ rounds' \in Nat
    BY <2>1, <2>a DEF Types
  <2>4. count' \in [Statuses -> Nat]
    <3>1. [count EXCEPT ![StatusOf(j)] = @ + 1] \in [Statuses -> Nat]
      BY <2>0, <2>3, Bump
    <3> QED BY <2>0, <2>b, <3>1
  <2>5. /\ [job |-> j, entry |-> StatusOf(j)] \in Entry
        /\ [job |-> j, entry |-> "complete"] \in Entry
    BY <2>1, <2>3 DEF Entry
  <2>6. results' \in Seq(Entry)
    <3>1. /\ Append(results, [job |-> j, entry |-> StatusOf(j)]) \in Seq(Entry)
          /\ Append(results, [job |-> j, entry |-> "complete"]) \in Seq(Entry)
      BY <2>0, <2>5, AppendType
    <3> QED BY <2>0, <2>c, <3>1
  <2>7. main' \in {"collect", "raised"}
    BY <1>3 DEF Collect
  <2> QED BY <1>3, <2>1, <2>2, <2>4, <2>6, <2>7 DEF Types, Collect, jobVars, workerVars, Holding
<1>4. ASSUME Join \/ Finish PROVE Types' /\ Holding'
  BY <1>4 DEF Join, Finish, jobVars, workerVars, Holding
<1>5. ASSUME sigint_hook PROVE Types' /\ Holding'
  BY <1>5 DEF sigint_hook, jobVars, reportVars, workerVars, Holding
<1>6. ASSUME NEW w \in Workers, GetJob(w) PROVE Types' /\ Holding'
  <2> DEFINE x == Head(input_queue)
  <2>1. x \in Ids \cup {None} /\ input_queue' \in Seq(Ids \cup {None})
    BY <1>6 DEF GetJob
  <2>2. /\ job' = [job EXCEPT ![w] = x] /\ pc' = [pc EXCEPT ![w] = IF x = None THEN "ended" ELSE "got"]
        /\ UNCHANGED <<main, jobs, breaks, output_queue, thread_exit, jobVars, reportVars>>
    BY <1>6 DEF GetJob
  <2> HIDE DEF x
  <2>3. Holding'
    BY <2>1, <2>2 DEF Holding
  <2>4. Types'
    BY <2>1, <2>2 DEF jobVars, reportVars
  <2> QED BY <2>3, <2>4
<1>7. ASSUME NEW w \in Workers, PutBack(w), job[w] \in Ids
      PROVE  /\ output_queue' \in Seq(Ids) /\ job' \in [Workers -> Ids \cup {None}] /\ Holding'
             /\ pc' \in [Workers -> {"get", "got", "launch", "child", "ended", "died"}]
  BY <1>7 DEF PutBack, Holding
<1>8. ASSUME NEW w \in Workers, Interrupted(w) PROVE Types' /\ Holding'
  <2>1. job[w] \in Ids
    BY <1>8 DEF Interrupted, Holding
  <2>2. is_break' \in [Ids -> BOOLEAN]
    BY <1>8, <2>1 DEF Interrupted
  <2> QED BY <1>7, <1>8, <2>1, <2>2 DEF Interrupted, reportVars
<1>9. ASSUME NEW w \in Workers, Skip(w) PROVE Types' /\ Holding'
  <2>1. job[w] \in Ids
    BY <1>9 DEF Skip, Holding
  <2> QED BY <1>7, <1>9, <2>1 DEF Skip, jobVars, reportVars
<1>10. ASSUME NEW w \in Workers, Decide(w) \/ Popen(w) PROVE Types' /\ Holding'
  <2>1. PICK p \in {"launch", "child", "died"} : pc' = [pc EXCEPT ![w] = p]
    BY <1>10 DEF Decide, Popen
  <2>2. job' = job /\ job[w] \in Ids
    BY <1>10 DEF Decide, Popen, Holding
  <2>3. Holding'
    BY <2>1, <2>2 DEF Holding
  <2> QED BY <1>10, <2>1, <2>3 DEF Decide, Popen, jobVars, reportVars
<1>11. ASSUME NEW w \in Workers, pc[w] = "child", NEW end \in Ends(job[w]), ChildEnds(w, end)
       PROVE  Types' /\ Holding'
  <2>1. job[w] \in Ids
    BY <1>11 DEF Holding
  <2>2. /\ end \in [code : 0 .. 3, utf8 : BOOLEAN,
                    xml : {"complete", "empty", "missing", "none"}]
        /\ Code(end) \in 0 .. 3
    BY <2>1, EndsType
  <2>3. returncode' \in [Ids -> 0 .. 3]
    BY <1>11, <2>1, <2>2 DEF ChildEnds
  <2>4. child' \in [Ids -> [code : 0 .. 3, utf8 : BOOLEAN,
                            xml : {"complete", "empty", "missing", "none"}]]
    BY <1>11, <2>1, <2>2 DEF ChildEnds
  <2> QED BY <1>7, <1>11, <2>1, <2>3, <2>4 DEF ChildEnds, reportVars
<1>12. ASSUME UNCHANGED vars PROVE Types' /\ Holding'
  BY <1>12 DEF vars, Holding
<1> QED
  BY <1>1, <1>2, <1>3, <1>4, <1>5, <1>6, <1>8, <1>9, <1>10, <1>11, <1>12
  DEF Next, MainStep, WorkerStep

(* The sum that JobsAccounted is about, and that it is a sum of numbers. *)
Places(j) == Times(input_queue, j) + Holders(j) + Times(output_queue, j) + collected[j]

LEMMA PlacesNat ==
  ASSUME Types, NEW j \in Ids
  PROVE  /\ Times(input_queue, j) \in Nat /\ Holders(j) \in Nat
         /\ Times(output_queue, j) \in Nat /\ collected[j] \in Nat
<1>1. /\ input_queue \in Seq(Ids \cup {None}) /\ output_queue \in Seq(Ids)
      /\ collected \in [Ids -> Nat]
  BY DEF Types
<1> QED BY <1>1, TimesNat, HoldersNat

LEMMA InitAccounted == Init => JobsAccounted
<1> SUFFICES ASSUME Init, NEW j \in Ids PROVE Places(j) = 0 /\ ~(j <= jobs)
  BY DEF JobsAccounted, Places
<1>1. Times(input_queue, j) = 0 /\ Times(output_queue, j) = 0
  <2>1. {i \in DOMAIN input_queue : input_queue[i] = j} = {}
        /\ {i \in DOMAIN output_queue : output_queue[i] = j} = {}
    BY DEF Init
  <2> QED BY <2>1, FS_EmptySet DEF Times
<1>2. Holders(j) = 0
  <2>1. {w \in Workers : job[w] = j} = {}
    BY IdsFacts DEF Init
  <2> QED BY <2>1, FS_EmptySet DEF Holders
<1>3. collected[j] = 0 /\ jobs = 0 /\ j >= 1 /\ j \in Nat
  BY IdsFacts DEF Init, Ids
<1> QED BY <1>1, <1>2, <1>3 DEF Places

(* A job moves from one place to the next; nothing copies or drops it. *)
LEMMA NextAccounted ==
  ASSUME Types, Holding, JobsAccounted, [Next]_vars
  PROVE  JobsAccounted'
<1>t. Types' /\ Holding'
  BY NextTypes
<1> SUFFICES ASSUME NEW j \in Ids PROVE Places(j)' = IF j <= jobs' THEN 1 ELSE 0
  BY DEF JobsAccounted, Places
<1>0. Places(j) = IF j <= jobs THEN 1 ELSE 0
  BY DEF JobsAccounted, Places
<1> DEFINE in  == Times(input_queue, j)
           h   == Holders(j)
           out == Times(output_queue, j)
           c   == collected[j]
<1>n. in \in Nat /\ h \in Nat /\ out \in Nat /\ c \in Nat
  BY PlacesNat
<1>m. in' \in Nat /\ h' \in Nat /\ out' \in Nat /\ c' \in Nat
  <2>1. /\ input_queue' \in Seq(Ids \cup {None}) /\ output_queue' \in Seq(Ids)
        /\ collected' \in [Ids -> Nat]
    BY <1>t DEF Types
  <2>2. in' \in Nat /\ out' \in Nat
    BY <2>1, TimesNat DEF Times
  <2>3. h' \in Nat
    <3>1. {w \in Workers : job'[w] = j} \in SUBSET Workers /\ IsFiniteSet(Workers)
      BY TestRunnerAssumption
    <3> QED BY <3>1, FS_Subset, FS_CardinalityType DEF Holders
  <2> QED BY <2>1, <2>2, <2>3
<1>p. Places(j) = in + h + out + c /\ Places(j)' = in' + h' + out' + c'
  BY DEF Places
<1>s. /\ input_queue \in Seq(Ids \cup {None}) /\ output_queue \in Seq(Ids)
      /\ job \in [Workers -> Ids \cup {None}] /\ DOMAIN job = Workers
      /\ collected \in [Ids -> Nat] /\ jobs \in Nat
  BY IdsFacts DEF Types
<1>i. j \in Nat /\ j # None
  BY IdsFacts
<1>u. /\ input_queue' = input_queue => in' = in
      /\ output_queue' = output_queue => out' = out
      /\ job' = job => h' = h
      /\ collected' = collected => c' = c
  BY DEF Times, Holders
<1> HIDE DEF in, h, out, c
<1>1. CASE Dispatch
  <2>1. input_queue' = Append(input_queue, jobs + 1) /\ jobs' = jobs + 1 /\ jobs + 1 \in Ids
        /\ UNCHANGED <<output_queue, job, collected>>
    BY <1>1, <1>s, IdsFacts DEF Dispatch, reportVars, workerVars, Ids
  <2>2. in' = in + Is(jobs + 1, j)
    BY <1>s, <2>1, TimesAppend DEF in
  <2>3. h' = h /\ out' = out /\ c' = c
    BY <1>u, <2>1
  <2> QED BY <1>0, <1>i, <1>n, <1>p, <1>s, <2>1, <2>2, <2>3 DEF Is
<1>2. CASE DispatchBreak
  <2>1. input_queue' = Append(input_queue, None) /\ jobs' = jobs
        /\ UNCHANGED <<output_queue, job, collected>>
    BY <1>2 DEF DispatchBreak, reportVars, workerVars
  <2>2. in' = in + Is(None, j)
    BY <1>s, <2>1, TimesAppend DEF in
  <2>3. h' = h /\ out' = out /\ c' = c
    BY <1>u, <2>1
  <2> QED BY <1>0, <1>i, <1>n, <1>p, <2>1, <2>2, <2>3 DEF Is
<1>3. CASE Collect
  <2>1. /\ output_queue # <<>> /\ output_queue' = Tail(output_queue) /\ jobs' = jobs
        /\ collected' = [collected EXCEPT ![Head(output_queue)] = @ + 1]
        /\ UNCHANGED <<input_queue, job>>
    BY <1>3 DEF Collect, workerVars
  <2>2. out = out' + Is(Head(output_queue), j)
    BY <1>s, <2>1, TimesTail DEF out
  <2>3. c' = c + Is(Head(output_queue), j)
    <3>1. CASE Head(output_queue) = j
      BY <1>s, <2>1, <3>1 DEF c, Is
    <3>2. CASE Head(output_queue) # j
      <4>1. c' = c
        BY <1>s, <2>1, <3>2 DEF c
      <4> QED BY <1>n, <3>2, <4>1 DEF Is
    <3> QED BY <3>1, <3>2
  <2>4. in' = in /\ h' = h
    BY <1>u, <2>1
  <2>5. Is(Head(output_queue), j) \in Nat
    BY DEF Is
  <2>6. in' + h' + out' + c' = in + h + out + c
    BY <1>m, <1>n, <2>2, <2>3, <2>4, <2>5
  <2> QED BY <1>0, <1>p, <2>1, <2>6
<1>4. ASSUME NEW w \in Workers, GetJob(w) PROVE Places(j)' = IF j <= jobs' THEN 1 ELSE 0
  <2>1. /\ input_queue # <<>> /\ input_queue' = Tail(input_queue) /\ jobs' = jobs
        /\ job' = [job EXCEPT ![w] = Head(input_queue)]
        /\ UNCHANGED <<output_queue, collected>>
    BY <1>4 DEF GetJob, reportVars
  <2>2. job[w] = None
    BY <1>4 DEF GetJob, Holding
  <2>3. in = in' + Is(Head(input_queue), j)
    BY <1>s, <2>1, TimesTail DEF in
  <2>4. h' + Is(job[w], j) = h + Is(Head(input_queue), j)
    <3>1. HoldersIn(job', j) + Is(job[w], j) = HoldersIn(job, j) + Is(Head(input_queue), j)
      <4>1. job'[w] = Head(input_queue) /\ \A v \in Workers : v # w => job'[v] = job[v]
        BY <1>s, <2>1
      <4>2. PICK x : x = Head(input_queue)
        OBVIOUS
      <4>3. HoldersIn(job', j) + Is(job[w], j) = HoldersIn(job, j) + Is(x, j)
        BY <4>1, <4>2, HoldersMove
      <4> QED BY <4>2, <4>3
    <3> QED BY <3>1 DEF h, Holders, HoldersIn
  <2>5. Is(job[w], j) = 0
    BY <1>i, <2>2 DEF Is
  <2>6. out' = out /\ c' = c
    BY <1>u, <2>1
  <2>7. Is(Head(input_queue), j) \in Nat
    BY DEF Is
  <2>8. in' + h' + out' + c' = in + h + out + c
    BY <1>m, <1>n, <2>3, <2>4, <2>5, <2>6, <2>7
  <2> QED BY <1>0, <1>p, <2>1, <2>8
<1>5. ASSUME NEW w \in Workers, PutBack(w), job[w] \in Ids,
             UNCHANGED <<input_queue, collected, jobs>>
      PROVE  Places(j)' = IF j <= jobs' THEN 1 ELSE 0
  <2>1. out' = out + Is(job[w], j)
    BY <1>5, <1>s, TimesAppend DEF PutBack, out
  <2>2. h' + Is(job[w], j) = h + Is(None, j)
    <3>1. HoldersIn(job', j) + Is(job[w], j) = HoldersIn(job, j) + Is(None, j)
      <4>1. job'[w] = None /\ \A v \in Workers : v # w => job'[v] = job[v]
        BY <1>5, <1>s DEF PutBack
      <4> QED BY <4>1, HoldersMove
    <3> QED BY <3>1 DEF h, Holders, HoldersIn
  <2>3. Is(None, j) = 0
    BY <1>i DEF Is
  <2>4. in' = in /\ c' = c /\ jobs' = jobs
    BY <1>5, <1>u
  <2>5. Is(job[w], j) \in Nat
    BY DEF Is
  <2> QED BY <1>0, <1>m, <1>n, <1>p, <2>1, <2>2, <2>3, <2>4, <2>5
<1>6. ASSUME NEW w \in Workers, Interrupted(w) \/ Skip(w)
      PROVE  Places(j)' = IF j <= jobs' THEN 1 ELSE 0
  <2>1. job[w] \in Ids
    BY <1>6 DEF Interrupted, Skip, Holding
  <2> QED BY <1>5, <1>6, <2>1 DEF Interrupted, Skip, reportVars
<1>7. ASSUME NEW w \in Workers, NEW end, ChildEnds(w, end)
      PROVE  Places(j)' = IF j <= jobs' THEN 1 ELSE 0
  <2>1. job[w] \in Ids
    BY <1>7 DEF ChildEnds, Holding
  <2> QED BY <1>5, <1>7, <2>1 DEF ChildEnds, reportVars
<1>8. CASE UNCHANGED <<input_queue, output_queue, job, collected, jobs>>
  BY <1>0, <1>8, <1>p, <1>u
<1>9. ASSUME NEW w \in Workers, Decide(w) \/ Popen(w)
      PROVE  UNCHANGED <<input_queue, output_queue, job, collected, jobs>>
  BY <1>9 DEF Decide, Popen, reportVars
<1>10. ASSUME Join \/ Finish \/ sigint_hook \/ UNCHANGED vars
       PROVE  UNCHANGED <<input_queue, output_queue, job, collected, jobs>>
  BY <1>10 DEF Join, Finish, sigint_hook, vars, reportVars, workerVars
<1> QED
  BY <1>1, <1>2, <1>3, <1>4, <1>6, <1>7, <1>8, <1>9, <1>10 DEF Next, MainStep, WorkerStep

-----------------------------------------------------------------------------
(* What a worker still holds, or has not been given, has not come back. *)
LEMMA HeldIsNotOut ==
  ASSUME Types, JobsAccounted, NEW w \in Workers, job[w] \in Ids
  PROVE  Out(job[w]) = 0 /\ job[w] \notin Collected
<1> DEFINE j == job[w]
<1>1. Places(j) \in 0 .. 1
  BY DEF JobsAccounted, Places
<1>2. Holders(j) > 0
  BY HoldersNat
<1>3. /\ Times(input_queue, j) \in Nat /\ Holders(j) \in Nat
      /\ Times(output_queue, j) \in Nat /\ collected[j] \in Nat
  BY PlacesNat
<1> HIDE DEF j
<1>4. Out(j) = 0 /\ collected[j] = 0
  BY <1>1, <1>2, <1>3 DEF Places, Out
<1>5. j \notin Collected
  BY <1>4 DEF Collected
<1> QED BY <1>4, <1>5 DEF j

LEMMA UndispatchedIsNotOut ==
  ASSUME Types, JobsAccounted, NEW j \in Ids, ~(j <= jobs)
  PROVE  Out(j) = 0 /\ j \notin Collected
<1>1. Places(j) = 0
  BY DEF JobsAccounted, Places
<1>2. /\ Times(input_queue, j) \in Nat /\ Holders(j) \in Nat
      /\ Times(output_queue, j) \in Nat /\ collected[j] \in Nat
  BY PlacesNat
<1>3. Out(j) = 0 /\ collected[j] = 0
  BY <1>1, <1>2 DEF Places, Out
<1> QED BY <1>3 DEF Collected

(* The job that Collect gets comes back for the first time. *)
LEMMA HeadIsNew ==
  ASSUME Types, JobsAccounted, output_queue # <<>>
  PROVE  /\ Head(output_queue) \in Ids
         /\ Out(Head(output_queue)) > 0 /\ Head(output_queue) \notin Collected
<1>0. output_queue \in Seq(Ids)
  BY DEF Types
<1>1. PICK j \in Ids : j = Head(output_queue)
  BY <1>0
<1>2. \E i \in DOMAIN output_queue : output_queue[i] = j
  <2>1. 1 \in DOMAIN output_queue /\ output_queue[1] = j
    BY <1>0, <1>1
  <2> QED BY <2>1
<1>3. Times(output_queue, j) > 0
  BY <1>0, <1>2, TimesNat
<1>4. Places(j) \in 0 .. 1
  BY DEF JobsAccounted, Places
<1>5. /\ Times(input_queue, j) \in Nat /\ Holders(j) \in Nat
      /\ Times(output_queue, j) \in Nat /\ collected[j] \in Nat
  BY PlacesNat
<1>6. Out(j) > 0 /\ collected[j] = 0
  BY <1>3, <1>4, <1>5 DEF Places, Out
<1>7. j \notin Collected
  BY <1>6 DEF Collected
<1> QED BY <1>1, <1>6, <1>7

(* A suite that ended with 0 did not leave an empty file: the test-runner    *)
(* returns 0 before it opens the file or after it has printed into it.       *)
LEMMA PassIsNotEmpty ==
  ASSUME Settled, NEW j \in Ids, Out(j) > 0, ~is_break[j], ~is_skip[j], returncode[j] = 0
  PROVE  child[j].xml # "empty"
<1>1. child[j] \in Ends(j) /\ Code(child[j]) = 0
  BY DEF Settled
<1>2. child[j].code = 0
  BY <1>1 DEF Code
<1> QED BY <1>1, <1>2 DEF Ends

LEMMA CollectedFinite ==
  /\ IsFiniteSet(Collected) /\ IsFiniteSet(Fine)
  /\ Collected \subseteq Ids /\ Fine \subseteq Collected
  /\ Cardinality(Collected) \in Nat /\ Cardinality(Fine) \in Nat
  /\ Cardinality(Collected) = Len(JobList) => Collected = Ids
  /\ Cardinality(Fine) = Len(JobList) => Fine = Ids
<1>1. Collected \in SUBSET Ids /\ Fine \in SUBSET Ids /\ Fine \subseteq Collected
  BY DEF Collected, Fine
<1>2. IsFiniteSet(Collected) /\ IsFiniteSet(Fine)
  BY <1>1, IdsFacts, FS_Subset
<1>3. Cardinality(Collected) \in Nat /\ Cardinality(Fine) \in Nat
  BY <1>2, FS_CardinalityType
<1>4. /\ Cardinality(Collected) = Len(JobList) => Collected = Ids
      /\ Cardinality(Fine) = Len(JobList) => Fine = Ids
  BY <1>1, IdsFacts, FS_Subset
<1> QED BY <1>1, <1>2, <1>3, <1>4

(* A job's members change only while a worker holds it, and before it is     *)
(* dispatched, so what has come back is settled for good.                    *)
LEMMA NextSettled ==
  ASSUME Types, Holding, JobsAccounted, Settled, [Next]_vars
  PROVE  Settled'
<1>t. Types'
  BY NextTypes
<1> DEFINE Sound(j) == child[j] \in Ends(j) /\ returncode[j] = Code(child[j])
<1>s. output_queue \in Seq(Ids) /\ collected \in [Ids -> Nat] /\ job \in [Workers -> Ids \cup {None}]
  BY DEF Types
<1>f. /\ is_skip \in [Ids -> BOOLEAN] /\ is_break \in [Ids -> BOOLEAN]
      /\ DOMAIN returncode = Ids /\ DOMAIN child = Ids
  BY DEF Types
<1>0. ASSUME NEW j \in Ids, Out(j)' = Out(j),
             /\ is_skip'[j] = is_skip[j] /\ is_break'[j] = is_break[j]
             /\ returncode'[j] = returncode[j] /\ child'[j] = child[j],
             (Out(j) > 0 /\ ~is_break[j] /\ ~is_skip[j])'
      PROVE  Sound(j)'
  <2>1. Out(j) > 0
    BY <1>0
  <2>2. ~is_break[j] /\ ~is_skip[j]
    BY <1>0
  <2>3. Sound(j)
    BY <2>1, <2>2 DEF Settled
  <2>4. child'[j] \in Ends(j) /\ returncode'[j] = Code(child'[j])
    BY <1>0, <2>3
  <2> QED BY <2>4
<1>1. CASE UNCHANGED <<jobVars, output_queue, collected>>
  <2> SUFFICES ASSUME NEW j \in Ids, (Out(j) > 0 /\ ~is_break[j] /\ ~is_skip[j])' PROVE Sound(j)'
    BY DEF Settled
  <2>1. Out(j)' = Out(j)
    BY <1>1 DEF Out, Times
  <2> QED BY <1>0, <1>1, <2>1 DEF jobVars
<1>2. CASE Dispatch
  <2>1. UNCHANGED <<output_queue, collected, is_break, returncode, child>> /\ jobs + 1 \in Ids
    BY <1>2, IdsFacts DEF Dispatch, reportVars, Types, Ids
  <2>2. PICK b \in BOOLEAN : is_skip' = [is_skip EXCEPT ![jobs + 1] = b]
    BY <1>2 DEF Dispatch
  <2> SUFFICES ASSUME NEW j \in Ids, (Out(j) > 0 /\ ~is_break[j] /\ ~is_skip[j])' PROVE Sound(j)'
    BY DEF Settled
  <2>3. Out(j)' = Out(j)
    BY <2>1 DEF Out, Times
  <2>4. j # jobs + 1
    <3>1. jobs \in Nat /\ ~(jobs + 1 <= jobs)
      BY IdsFacts DEF Types
    <3>2. Out(jobs + 1) = 0
      BY <2>1, <3>1, UndispatchedIsNotOut
    <3>3. Out(j) > 0
      BY <2>3
    <3> QED BY <3>2, <3>3
  <2>5. is_skip'[j] = is_skip[j]
    BY <1>f, <2>2, <2>4
  <2> QED BY <1>0, <2>1, <2>3, <2>5
<1>3. CASE Collect
  <2>1. output_queue # <<>> /\ output_queue' = Tail(output_queue) /\ UNCHANGED jobVars
        /\ collected' = [collected EXCEPT ![Head(output_queue)] = @ + 1]
    BY <1>3 DEF Collect
  <2> SUFFICES ASSUME NEW j \in Ids, (Out(j) > 0 /\ ~is_break[j] /\ ~is_skip[j])' PROVE Sound(j)'
    BY DEF Settled
  <2>2. Times(output_queue, j) = Times(output_queue', j) + Is(Head(output_queue), j)
    BY <1>s, <2>1, TimesTail
  <2>3. collected'[j] = collected[j] + Is(Head(output_queue), j)
    <3>1. CASE Head(output_queue) = j
      BY <1>s, <2>1, <3>1 DEF Is
    <3>2. CASE Head(output_queue) # j
      <4>1. collected'[j] = collected[j] /\ collected[j] \in Nat
        BY <1>s, <2>1, <3>2
      <4> QED BY <3>2, <4>1 DEF Is
    <3> QED BY <3>1, <3>2
  <2>4. /\ Times(output_queue, j) \in Nat /\ Times(output_queue', j) \in Nat
        /\ Is(Head(output_queue), j) \in Nat /\ collected[j] \in Nat
    <3>1. output_queue' \in Seq(Ids)
      BY <1>t DEF Types
    <3> QED BY <1>s, <3>1, TimesNat DEF Is
  <2>5. Out(j)' = Times(output_queue', j) + collected'[j] /\ Out(j) = Times(output_queue, j) + collected[j]
    BY DEF Out, Times
  <2>6. Out(j)' = Out(j)
    BY <2>2, <2>3, <2>4, <2>5
  <2> QED BY <1>0, <2>1, <2>6 DEF jobVars
(* a worker hands back the job k *)
<1>4. ASSUME NEW w \in Workers, NEW k \in Ids, job[w] = k, PutBack(w), collected' = collected,
             \A j \in Ids \ {k} : /\ is_skip'[j] = is_skip[j] /\ is_break'[j] = is_break[j]
                                  /\ returncode'[j] = returncode[j] /\ child'[j] = child[j],
             \/ is_break'[k] \/ is_skip'[k]
             \/ child'[k] \in Ends(k) /\ returncode'[k] = Code(child'[k])
      PROVE  Settled'
  <2> SUFFICES ASSUME NEW j \in Ids, (Out(j) > 0 /\ ~is_break[j] /\ ~is_skip[j])' PROVE Sound(j)'
    BY DEF Settled
  <2>1. CASE j = k
    <3>1. ~is_break'[j] /\ ~is_skip'[j]
      OBVIOUS
    <3> QED BY <1>4, <2>1, <3>1
  <2>2. CASE j # k
    <3>1. Times(output_queue', j) = Times(output_queue, j) + Is(k, j)
      BY <1>4, <1>s, TimesAppend DEF PutBack
    <3>2. Is(k, j) = 0 /\ Times(output_queue, j) \in Nat
      BY <1>s, <2>2, TimesNat DEF Is
    <3>3. Times(output_queue', j) = Times(output_queue, j)
      BY <3>1, <3>2
    <3>4. Out(j)' = Out(j)
      BY <1>4, <3>3 DEF Out, Times
    <3> QED BY <1>0, <1>4, <2>2, <3>4
  <2> QED BY <2>1, <2>2
<1>5. ASSUME NEW w \in Workers, Interrupted(w) PROVE Settled'
  <2>1. PICK k \in Ids : job[w] = k
    BY <1>5 DEF Interrupted, Holding
  <2>2. /\ is_break' = [is_break EXCEPT ![k] = TRUE] /\ PutBack(w)
        /\ UNCHANGED <<is_skip, returncode, child, collected>>
    BY <1>5, <2>1 DEF Interrupted, reportVars
  <2>3. is_break'[k] /\ \A j \in Ids \ {k} : is_break'[j] = is_break[j]
    BY <1>f, <2>2
  <2> QED BY <1>4, <2>1, <2>2, <2>3
<1>6. ASSUME NEW w \in Workers, Skip(w) PROVE Settled'
  <2>1. PICK k \in Ids : job[w] = k
    BY <1>6 DEF Skip, Holding
  <2>2. /\ is_skip'[k] /\ PutBack(w)
        /\ UNCHANGED <<is_skip, is_break, returncode, child, collected>>
    BY <1>6, <2>1 DEF Skip, jobVars, reportVars
  <2> QED BY <1>4, <2>1, <2>2
<1>7. ASSUME NEW w \in Workers, pc[w] = "child", NEW end \in Ends(job[w]), ChildEnds(w, end)
      PROVE  Settled'
  <2>1. PICK k \in Ids : job[w] = k
    BY <1>7 DEF Holding
  <2>2. /\ child' = [child EXCEPT ![k] = end] /\ returncode' = [returncode EXCEPT ![k] = Code(end)]
        /\ PutBack(w) /\ UNCHANGED <<is_skip, is_break, collected>>
    BY <1>7, <2>1 DEF ChildEnds, reportVars
  <2>3. /\ child'[k] = end /\ returncode'[k] = Code(end)
        /\ \A j \in Ids \ {k} : child'[j] = child[j] /\ returncode'[j] = returncode[j]
    BY <1>f, <2>2
  <2>4. child'[k] \in Ends(k) /\ returncode'[k] = Code(child'[k])
    BY <1>7, <2>1, <2>3
  <2> QED BY <1>4, <2>1, <2>2, <2>3, <2>4
<1>8. ASSUME DispatchBreak \/ Join \/ Finish \/ sigint_hook \/ UNCHANGED vars PROVE Settled'
  BY <1>1, <1>8 DEF DispatchBreak, Join, Finish, sigint_hook, vars, jobVars, reportVars
<1>9. ASSUME NEW w \in Workers, GetJob(w) \/ Decide(w) \/ Popen(w) PROVE Settled'
  BY <1>1, <1>9 DEF GetJob, Decide, Popen, reportVars
<1> QED
  BY <1>2, <1>3, <1>5, <1>6, <1>7, <1>8, <1>9 DEF Next, MainStep, WorkerStep

-----------------------------------------------------------------------------
(* The report.                                                              *)
Report ==
  RoundsCount /\ FineCount /\ EntriesWritten /\ EntriesTrue /\ ClosedIsAll /\ SuccessIsAll

SameMembers(j) ==
  /\ is_skip'[j] = is_skip[j] /\ is_break'[j] = is_break[j]
  /\ returncode'[j] = returncode[j] /\ child'[j] = child[j]

LEMMA InitReport == Init => JobsAccounted /\ AllDispatched /\ Settled /\ Report
<1> SUFFICES ASSUME Init PROVE JobsAccounted /\ AllDispatched /\ Settled /\ Report
  OBVIOUS
<1>1. JobsAccounted
  BY InitAccounted
<1>2. AllDispatched
  BY DEF Init, AllDispatched
<1>3. Settled
  <2> SUFFICES ASSUME NEW j \in Ids PROVE Out(j) = 0
    BY DEF Settled
  <2>1. output_queue = <<>> /\ collected[j] = 0
    BY DEF Init
  <2>2. {i \in DOMAIN output_queue : output_queue[i] = j} = {}
    BY <2>1
  <2>3. Times(output_queue, j) = 0
    BY <2>2, FS_EmptySet DEF Times
  <2> QED BY <2>1, <2>3 DEF Out
<1>4. Collected = {} /\ Fine = {}
  <2>1. \A j \in Ids : collected[j] = 0
    BY DEF Init
  <2>2. Collected = {}
    BY <2>1 DEF Collected
  <2> QED BY <2>2 DEF Fine
<1>5. RoundsCount
  BY <1>4, FS_EmptySet DEF RoundsCount, Init
<1>6. FineCount
  <2>1. count["PASS"] = 0 /\ count["SKIP"] = 0
    BY DEF Init, Statuses
  <2> QED BY <1>4, <2>1, FS_EmptySet DEF FineCount
<1>7. EntriesWritten
  <2> SUFFICES ASSUME NEW j \in Ids PROVE Entries(j) = 0
    BY <1>4 DEF EntriesWritten, Reported
  <2>1. {i \in DOMAIN results : results[i].job = j} = {}
    BY DEF Init
  <2> QED BY <2>1, FS_EmptySet DEF Entries
<1>8. EntriesTrue
  BY DEF Init, EntriesTrue
<1>9. ClosedIsAll /\ SuccessIsAll
  BY DEF Init, ClosedIsAll, SuccessIsAll
<1> QED BY <1>1, <1>2, <1>3, <1>5, <1>6, <1>7, <1>8, <1>9 DEF Report

LEMMA SameSets ==
  ASSUME collected' = collected, \A j \in Collected : SameMembers(j)
  PROVE  /\ Collected' = Collected /\ Fine' = Fine
         /\ \A j : Reported(j)' <=> Reported(j)
         /\ \A j \in Collected : EntryOf(j)' = EntryOf(j)
<1>1. Collected' = Collected
  BY DEF Collected
<1>2. ASSUME NEW j \in Collected
      PROVE  /\ StatusOf(j)' = StatusOf(j) /\ is_break'[j] = is_break[j]
             /\ (Copied(j)' <=> Copied(j)) /\ child'[j] = child[j]
  BY <1>2 DEF SameMembers, StatusOf, Copied, Suite
<1>3. Fine' = Fine
  BY <1>1, <1>2 DEF Fine
<1>4. \A j \in Collected : EntryOf(j)' = EntryOf(j)
  BY <1>2 DEF EntryOf
<1> QED BY <1>1, <1>2, <1>3, <1>4 DEF Reported

(* Neither a worker, nor the signal handler, nor dispatching touches what    *)
(* the report is about.                                                      *)
LEMMA QuietReport ==
  ASSUME Report, UNCHANGED reportVars, \A j \in Collected : SameMembers(j),
         main' = main \/ (main = "dispatch" /\ main' = "collect")
  PROVE  Report'
<1>1. UNCHANGED <<rounds, collected, count, results, closed, status>>
  BY DEF reportVars
<1>2. /\ Collected' = Collected /\ Fine' = Fine
      /\ \A j : Reported(j)' <=> Reported(j)
      /\ \A j \in Collected : EntryOf(j)' = EntryOf(j)
  BY <1>1, SameSets
<1>3. RoundsCount' /\ FineCount' /\ SuccessIsAll'
  BY <1>1, <1>2 DEF Report, RoundsCount, FineCount, SuccessIsAll
<1>4. ClosedIsAll'
  BY <1>1, <1>2 DEF Report, ClosedIsAll
<1>6. EntriesTrue'
  <2> SUFFICES ASSUME NEW i \in DOMAIN results
               PROVE  results[i].job \in Collected /\ results[i].entry = EntryOf(results[i].job)'
    BY <1>1, <1>2 DEF EntriesTrue
  <2>1. PICK j : j = results[i].job
    OBVIOUS
  <2>2. j \in Collected /\ results[i].entry = EntryOf(j)
    BY <2>1 DEF Report, EntriesTrue
  <2>3. results[i].entry = EntryOf(j)'
    BY <1>2, <2>2
  <2> QED BY <1>1, <2>1, <2>2, <2>3
<1>7. EntriesWritten'
  <2> SUFFICES ASSUME main' # "raised", NEW j \in Ids
               PROVE  Entries(j)' = IF Reported(j)' THEN 1 ELSE 0
    BY DEF EntriesWritten
  <2>1. main # "raised"
    OBVIOUS
  <2>2. Entries(j)' = Entries(j)
    BY <1>1 DEF Entries
  <2>4. Entries(j) = IF Reported(j) THEN 1 ELSE 0
    BY <2>1 DEF Report, EntriesWritten
  <2> QED BY <1>2, <2>2, <2>4
<1> QED BY <1>3, <1>4, <1>6, <1>7 DEF Report

(* One round of the collecting loop. *)
LEMMA CollectReport ==
  ASSUME Types, JobsAccounted, Settled, Report, Collect
  PROVE  Report'
<1>0. /\ main = "collect" /\ output_queue # <<>> /\ rounds' = rounds + 1
      /\ UNCHANGED jobVars /\ closed' = closed /\ status' = status
  BY DEF Collect
<1>1. PICK j : j = Head(output_queue)
  OBVIOUS
<1>2. j \in Ids /\ Out(j) > 0 /\ j \notin Collected
  BY <1>0, <1>1, HeadIsNew
<1>3. /\ collected' = [collected EXCEPT ![j] = @ + 1]
      /\ \/ is_break[j] /\ UNCHANGED <<main, count, results>>
         \/ /\ ~is_break[j]
            /\ count' = [count EXCEPT ![StatusOf(j)] = @ + 1]
            /\ \/ /\ ~Copied(j)
                  /\ results' = Append(results, [job |-> j, entry |-> StatusOf(j)])
                  /\ UNCHANGED main
               \/ /\ Copied(j) /\ child[j].xml = "complete"
                  /\ results' = Append(results, [job |-> j, entry |-> "complete"])
                  /\ UNCHANGED main
               \/ /\ Copied(j) /\ child[j].xml = "empty"
                  /\ UNCHANGED <<main, results>>
               \/ /\ Copied(j) /\ child[j].xml = "missing"
                  /\ main' = "raised"
                  /\ UNCHANGED results
  BY <1>1 DEF Collect
<1>4. Collected' = Collected \cup {j}
  <2>1. collected \in [Ids -> Nat]
    BY DEF Types
  <2>2. \A k \in Ids : k # j => collected'[k] = collected[k]
    BY <1>3, <2>1
  <2>3. collected'[j] > 0
    BY <1>2, <1>3, <2>1
  <2> QED BY <1>2, <2>2, <2>3 DEF Collected
<1>5. \A k : StatusOf(k)' = StatusOf(k)
  BY <1>0 DEF jobVars, StatusOf
<1>6. Fine' = IF ~is_break[j] /\ StatusOf(j) \in {"PASS", "SKIP"} THEN Fine \cup {j} ELSE Fine
  <2>1. is_break' = is_break
    BY <1>0 DEF jobVars
  <2> QED BY <1>4, <1>5, <2>1 DEF Fine
<1>7. RoundsCount'
  <2>1. Cardinality(Collected') = Cardinality(Collected) + 1
    BY <1>2, <1>4, CollectedFinite, FS_AddElement
  <2> QED BY <1>0, <2>1 DEF Report, RoundsCount
<1>s. StatusOf(j) \in Statuses
  BY DEF StatusOf, Statuses
<1>8. FineCount'
  <2>0. count \in [Statuses -> Nat]
    BY DEF Types
  <2>1. count["PASS"] + count["SKIP"] = Cardinality(Fine)
    BY DEF Report, FineCount
  <2>2. CASE is_break[j]
    BY <1>3, <1>6, <2>1, <2>2 DEF FineCount
  <2>3. CASE ~is_break[j] /\ StatusOf(j) \in {"PASS", "SKIP"}
    <3>1. Cardinality(Fine') = Cardinality(Fine) + 1
      <4>1. j \notin Fine
        BY <1>2 DEF Fine
      <4> QED BY <1>6, <2>3, <4>1, CollectedFinite, FS_AddElement
    <3>2. count' = [count EXCEPT ![StatusOf(j)] = @ + 1]
      BY <1>3, <2>3
    <3>3. count'["PASS"] + count'["SKIP"] = count["PASS"] + count["SKIP"] + 1
      <4>1. PICK s : s = StatusOf(j)
        OBVIOUS
      <4>2. s \in {"PASS", "SKIP"}
        BY <2>3, <4>1
      <4>3. count' = [count EXCEPT ![s] = @ + 1]
        BY <3>2, <4>1
      <4>4. CASE s = "PASS"
        <5>1. count'["PASS"] = count["PASS"] + 1 /\ count'["SKIP"] = count["SKIP"]
          BY <2>0, <4>3, <4>4 DEF Statuses
        <5>2. count["PASS"] \in Nat /\ count["SKIP"] \in Nat
          BY <2>0 DEF Statuses
        <5> QED BY <5>1, <5>2
      <4>5. CASE s = "SKIP"
        <5>1. count'["SKIP"] = count["SKIP"] + 1 /\ count'["PASS"] = count["PASS"]
          BY <2>0, <4>3, <4>5 DEF Statuses
        <5>2. count["PASS"] \in Nat /\ count["SKIP"] \in Nat
          BY <2>0 DEF Statuses
        <5> QED BY <5>1, <5>2
      <4> QED BY <4>2, <4>4, <4>5
    <3> QED BY <2>1, <3>1, <3>3 DEF FineCount
  <2>4. CASE ~is_break[j] /\ StatusOf(j) \notin {"PASS", "SKIP"}
    <3>1. count' = [count EXCEPT ![StatusOf(j)] = @ + 1]
      BY <1>3, <2>4
    <3>2. count'["PASS"] = count["PASS"] /\ count'["SKIP"] = count["SKIP"]
      BY <2>0, <2>4, <3>1 DEF Statuses
    <3>3. Fine' = Fine
      BY <1>6, <2>4
    <3> QED BY <2>1, <3>2, <3>3 DEF FineCount
  <2> QED BY <2>2, <2>3, <2>4
<1>9. ~closed
  BY <1>0 DEF Report, ClosedIsAll
<1>e. \A k : (Copied(k)' <=> Copied(k)) /\ EntryOf(k)' = EntryOf(k) /\ child'[k] = child[k]
              /\ is_break'[k] = is_break[k]
  BY <1>0, <1>5 DEF jobVars, Copied, EntryOf, Suite
<1>r. \/ results' = results /\ (main' = "raised" \/ ~Reported(j)')
      \/ results' = Append(results, [job |-> j, entry |-> EntryOf(j)]) /\ Reported(j)'
  <2>1. j \in Collected'
    BY <1>4
  <2>2. Reported(j)' <=> ~is_break[j] /\ ~(Copied(j) /\ child[j].xml = "empty")
    BY <1>e, <2>1 DEF Reported
  <2>3. CASE is_break[j]
    BY <1>3, <2>2, <2>3
  <2>4. CASE ~is_break[j] /\ ~Copied(j)
    <3>1. results' = Append(results, [job |-> j, entry |-> StatusOf(j)])
      BY <1>3, <2>4
    <3> QED BY <2>2, <2>4, <3>1 DEF EntryOf
  <2>5. CASE ~is_break[j] /\ Copied(j)
    <3>1. CASE child[j].xml = "complete"
      <4>1. results' = Append(results, [job |-> j, entry |-> "complete"])
        BY <1>3, <2>5, <3>1
      <4>2. Reported(j)'
        BY <2>2, <2>5, <3>1
      <4> QED BY <2>5, <4>1, <4>2 DEF EntryOf
    <3>2. CASE child[j].xml # "complete"
      <4>1. results' = results
        BY <1>3, <2>5, <3>2
      <4>2. main' = "raised" \/ child[j].xml = "empty"
        BY <1>3, <2>5, <3>2
      <4> QED BY <2>2, <2>5, <4>1, <4>2
    <3> QED BY <3>1, <3>2
  <2> QED BY <2>3, <2>4, <2>5
<1>q. results \in Seq(Entry)
  BY DEF Types
<1>10. EntriesWritten'
  <2> SUFFICES ASSUME main' # "raised", NEW k \in Ids
               PROVE  Entries(k)' = IF Reported(k)' THEN 1 ELSE 0
    BY DEF EntriesWritten
  <2>1. Entries(k) = IF Reported(k) THEN 1 ELSE 0
    BY <1>0 DEF Report, EntriesWritten
  <2>2. k # j => (Reported(k)' <=> Reported(k))
    BY <1>4, <1>e DEF Reported
  <2>3. ~Reported(j)
    BY <1>2 DEF Reported
  <2>4. CASE results' = results
    <3>1. Entries(k)' = Entries(k)
      BY <2>4 DEF Entries
    <3>2. ~Reported(j)' \/ results' # results
      <4>1. ASSUME results' = Append(results, [job |-> j, entry |-> EntryOf(j)]) PROVE results' # results
        BY <1>q, <4>1
      <4> QED BY <1>r, <4>1
    <3> QED BY <2>1, <2>2, <2>3, <2>4, <3>1, <3>2
  <2>5. CASE results' # results
    <3>1. PICK e : e = [job |-> j, entry |-> EntryOf(j)]
      OBVIOUS
    <3>2. e \in Entry /\ e.job = j
      BY <1>2, <1>s, <3>1 DEF Entry, EntryOf
    <3>3. Entries(k)' = Entries(k) + Is(j, k)
      BY <1>q, <1>r, <2>5, <3>1, <3>2, EntriesAppend
    <3>4. CASE k = j
      <4>1. Entries(k) = 0 /\ Is(j, k) = 1
        BY <2>1, <2>3, <3>4 DEF Is
      <4> QED BY <1>r, <2>5, <3>3, <3>4, <4>1
    <3>5. CASE k # j
      <4>1. Is(j, k) = 0 /\ Entries(k) \in Nat
        BY <2>1, <3>5 DEF Is
      <4>2. Entries(k)' = Entries(k)
        BY <3>3, <4>1
      <4> QED BY <2>1, <2>2, <3>5, <4>2
    <3> QED BY <3>4, <3>5
  <2> QED BY <2>4, <2>5
<1>11. EntriesTrue'
  <2>0. \A i \in DOMAIN results :
          results[i].job \in Collected' /\ results[i].entry = EntryOf(results[i].job)
    BY <1>4 DEF Report, EntriesTrue
  <2> SUFFICES ASSUME NEW i \in DOMAIN results'
               PROVE  results'[i].job \in Collected' /\ results'[i].entry = EntryOf(results'[i].job)
    BY <1>e DEF EntriesTrue
  <2>1. CASE results' = results
    BY <2>0, <2>1
  <2>2. CASE results' = Append(results, [job |-> j, entry |-> EntryOf(j)])
    <3>1. PICK e : e = [job |-> j, entry |-> EntryOf(j)]
      OBVIOUS
    <3>2. e.job = j /\ e.entry = EntryOf(j)
      BY <3>1
    <3>3. (i \in DOMAIN results /\ results'[i] = results[i]) \/ results'[i] = e
      BY <1>q, <2>2, <3>1
    <3> QED BY <1>4, <2>0, <3>2, <3>3
  <2> QED BY <1>r, <2>1, <2>2
<1>12. ClosedIsAll'
  <2>1. main' \in {"collect", "raised"}
    BY <1>0, <1>3
  <2> QED BY <1>0, <1>9, <2>1 DEF ClosedIsAll
<1>13. SuccessIsAll'
  <2>1. status # "success"
    BY <1>9 DEF Report, SuccessIsAll
  <2> QED BY <1>0, <2>1 DEF SuccessIsAll
<1> QED BY <1>7, <1>8, <1>10, <1>11, <1>12, <1>13 DEF Report

(* The end of the loop, and of run_tests. *)
LEMMA EndReport ==
  ASSUME Types, AllDispatched, Report, Join \/ Finish
  PROVE  Report'
<1>1. UNCHANGED <<rounds, collected, count, results>> /\ UNCHANGED jobVars
  BY DEF Join, Finish
<1>2. /\ Collected' = Collected /\ Fine' = Fine
      /\ \A j : Reported(j)' <=> Reported(j)
      /\ \A j \in Collected : EntryOf(j)' = EntryOf(j)
  BY <1>1, SameSets DEF jobVars, SameMembers
<1>3. RoundsCount' /\ FineCount'
  BY <1>1, <1>2 DEF Report, RoundsCount, FineCount
<1>4. jobs = Len(JobList)
  BY DEF AllDispatched, Join, Finish
<1>7. EntriesWritten'
  <2>1. main # "raised"
    BY DEF Join, Finish
  <2> SUFFICES ASSUME NEW j \in Ids PROVE Entries(j)' = IF Reported(j)' THEN 1 ELSE 0
    BY DEF EntriesWritten
  <2>2. Entries(j)' = Entries(j)
    BY <1>1 DEF Entries
  <2>3. Entries(j) = IF Reported(j) THEN 1 ELSE 0
    BY <2>1 DEF Report, EntriesWritten
  <2> QED BY <1>2, <2>2, <2>3
<1>8. EntriesTrue'
  <2> SUFFICES ASSUME NEW i \in DOMAIN results
               PROVE  results[i].job \in Collected /\ results[i].entry = EntryOf(results[i].job)'
    BY <1>1, <1>2 DEF EntriesTrue
  <2>1. PICK j : j = results[i].job
    OBVIOUS
  <2>2. j \in Collected /\ results[i].entry = EntryOf(j)
    BY <2>1 DEF Report, EntriesTrue
  <2>3. results[i].entry = EntryOf(j)'
    BY <1>2, <2>2
  <2> QED BY <1>1, <2>1, <2>2, <2>3
<1>9. CASE Join
  <2>1. rounds = Len(JobList)
    BY <1>4, <1>9 DEF Join
  <2>2. Collected = Ids
    BY <2>1, CollectedFinite DEF Report, RoundsCount
  <2>3. ClosedIsAll'
    BY <1>2, <1>9, <2>2 DEF Join, ClosedIsAll
  <2>4. SuccessIsAll'
    BY <1>2, <1>9 DEF Join, SuccessIsAll, Report, ClosedIsAll
  <2> QED BY <1>3, <1>7, <1>8, <2>3, <2>4 DEF Report
<1>10. CASE Finish
  <2>1. closed /\ Collected = Ids
    BY <1>10 DEF Finish, Report, ClosedIsAll
  <2>2. ClosedIsAll'
    BY <1>2, <1>10, <2>1 DEF Finish, ClosedIsAll
  <2>3. SuccessIsAll'
    <3>1. ExitStatus = 0 => Fine = Ids
      BY <1>4, CollectedFinite DEF ExitStatus, Report, FineCount
    <3>2. status' = "success" => ExitStatus = 0
      BY <1>10 DEF Finish
    <3>3. closed'
      BY <1>10, <2>1 DEF Finish
    <3> QED BY <1>2, <3>1, <3>2, <3>3 DEF SuccessIsAll
  <2> QED BY <1>3, <1>7, <1>8, <2>2, <2>3 DEF Report
<1> QED BY <1>9, <1>10

LEMMA NextReport ==
  ASSUME Types, Holding, JobsAccounted, AllDispatched, Settled, Report, [Next]_vars
  PROVE  AllDispatched' /\ Report'
<1>f. /\ is_skip \in [Ids -> BOOLEAN] /\ is_break \in [Ids -> BOOLEAN]
      /\ DOMAIN returncode = Ids /\ DOMAIN child = Ids /\ Collected \subseteq Ids
  BY CollectedFinite DEF Types
<1>1. CASE Dispatch
  <2>1. jobs \in Nat /\ jobs + 1 \in Ids
    BY <1>1, IdsFacts DEF Dispatch, Types, Ids
  <2>2. jobs + 1 \notin Collected
    <3>1. ~(jobs + 1 <= jobs)
      BY <2>1
    <3> QED BY <2>1, <3>1, UndispatchedIsNotOut
  <2>3. /\ UNCHANGED reportVars /\ main' = main /\ main = "dispatch"
        /\ UNCHANGED <<is_break, returncode, child>>
        /\ \E s \in BOOLEAN : is_skip' = [is_skip EXCEPT ![jobs + 1] = s]
    BY <1>1 DEF Dispatch
  <2>4. \A j \in Collected : SameMembers(j)
    BY <1>f, <2>2, <2>3 DEF SameMembers
  <2> QED BY <2>3, <2>4, QuietReport DEF AllDispatched
<1>2. CASE DispatchBreak
  <2>1. /\ UNCHANGED reportVars /\ UNCHANGED jobVars /\ jobs' = jobs /\ jobs = Len(JobList)
        /\ main' = main \/ (main = "dispatch" /\ main' = "collect")
    BY <1>2 DEF DispatchBreak
  <2>2. \A j \in Collected : SameMembers(j)
    BY <2>1 DEF SameMembers, jobVars
  <2> QED BY <2>1, <2>2, QuietReport DEF AllDispatched
<1>3. CASE Collect
  <2>1. AllDispatched'
    BY <1>3 DEF Collect, AllDispatched
  <2> QED BY <1>3, <2>1, CollectReport
<1>4. CASE Join \/ Finish
  <2>1. AllDispatched'
    BY <1>4 DEF Join, Finish, AllDispatched
  <2> QED BY <1>4, <2>1, EndReport
<1>5. CASE sigint_hook \/ UNCHANGED vars
  <2>1. UNCHANGED reportVars /\ UNCHANGED jobVars /\ jobs' = jobs /\ main' = main
    BY <1>5 DEF sigint_hook, vars, reportVars, jobVars
  <2>2. \A j \in Collected : SameMembers(j)
    BY <2>1 DEF SameMembers, jobVars
  <2> QED BY <2>1, <2>2, QuietReport DEF AllDispatched
<1>6. ASSUME NEW w \in Workers, WorkerStep(w) PROVE AllDispatched' /\ Report'
  <2>1. UNCHANGED reportVars /\ jobs' = jobs /\ main' = main
    BY <1>6 DEF WorkerStep, GetJob, Interrupted, Skip, Decide, Popen, ChildEnds
  <2>2. \A j \in Collected : SameMembers(j)
    <3>1. ASSUME GetJob(w) \/ Skip(w) \/ Decide(w) \/ Popen(w) PROVE UNCHANGED jobVars
      BY <3>1 DEF GetJob, Skip, Decide, Popen
    <3>2. ASSUME Interrupted(w) PROVE \A j \in Collected : SameMembers(j)
      <4>1. job[w] \notin Collected
        BY <3>2, HeldIsNotOut DEF Interrupted, Holding
      <4> QED BY <1>f, <3>2, <4>1 DEF Interrupted, SameMembers
    <3>3. ASSUME NEW end, ChildEnds(w, end) PROVE \A j \in Collected : SameMembers(j)
      <4>1. job[w] \notin Collected
        BY <3>3, HeldIsNotOut DEF ChildEnds, Holding
      <4> QED BY <1>f, <3>3, <4>1 DEF ChildEnds, SameMembers
    <3>4. CASE UNCHANGED jobVars
      BY <3>4 DEF jobVars, SameMembers
    <3> QED BY <1>6, <3>1, <3>2, <3>3, <3>4 DEF WorkerStep
  <2> QED BY <2>1, <2>2, QuietReport DEF AllDispatched
<1> QED BY <1>1, <1>2, <1>3, <1>4, <1>5, <1>6 DEF Next, MainStep

-----------------------------------------------------------------------------
(* The inductive invariant holds whatever the workers, the signal handler   *)
(* and the child processes do, and in whatever order.                       *)
THEOREM Inductive == Spec => []JInv
<1>1. Init => JInv
  BY InitTypes, InitReport DEF JInv, Report
<1>2. JInv /\ [Next]_vars => JInv'
  BY NextTypes, NextAccounted, NextSettled, NextReport DEF JInv, Report
<1> QED BY <1>1, <1>2, PTL DEF Spec

(* For any number of workers and jobs: a dispatched job is in exactly one    *)
(* of the two queues, the hands of one worker and what was collected.        *)
THEOREM NoJobLost == Spec => []JobsAccounted
<1>1. JInv => JobsAccounted
  BY DEF JInv
<1> QED BY <1>1, Inductive, PTL

(* run_tests returns 0 only when every job was skipped or its process ended *)
(* with code 0 and readable output, and none was interrupted.               *)
THEOREM HonestSuccess == Spec => []SuccessIsHonest
<1>1. JInv => SuccessIsHonest
  <2> SUFFICES ASSUME JInv, status = "success", NEW j \in Ids
               PROVE  ~is_break[j] /\ (is_skip[j] \/ (child[j] # NoEnd /\ child[j].code = 0
                                                      /\ child[j].utf8))
    BY DEF SuccessIsHonest
  <2>1. j \in Collected /\ ~is_break[j] /\ StatusOf(j) \in {"PASS", "SKIP"}
    BY DEF JInv, SuccessIsAll, Fine
  <2>2. CASE is_skip[j]
    BY <2>1, <2>2
  <2>3. CASE ~is_skip[j]
    <3>1. returncode[j] = 0
      BY <2>1, <2>3 DEF StatusOf
    <3>2. Out(j) > 0
      <4>1. collected[j] \in Nat /\ collected[j] > 0 /\ output_queue \in Seq(Ids)
        BY <2>1 DEF JInv, Types, Collected
      <4>2. Times(output_queue, j) \in Nat
        BY <4>1, TimesNat
      <4> QED BY <4>1, <4>2 DEF Out
    <3>3. child[j] \in Ends(j) /\ returncode[j] = Code(child[j])
      BY <2>1, <2>3, <3>2 DEF JInv, Settled
    <3>4. child[j] # NoEnd
      BY <3>3, EndsType
    <3>5. child[j].utf8 /\ child[j].code = 0
      BY <3>1, <3>3 DEF Code
    <3> QED BY <2>1, <3>4, <3>5
  <2> QED BY <2>2, <2>3
<1> QED BY <1>1, Inductive, PTL

(* When the results file is closed it holds one entry for every job, except *)
(* none for the interrupted ones and for suites whose copied file was empty. *)
THEOREM CompleteReport == Spec => []ReportIsComplete
<1>1. JInv => ReportIsComplete
  <2> SUFFICES ASSUME JInv, closed, NEW j \in Ids
               PROVE  Entries(j) = IF is_break[j] \/ (Copied(j) /\ child[j].xml = "empty")
                                   THEN 0 ELSE 1
    BY DEF ReportIsComplete
  <2>1. main # "raised" /\ j \in Collected
    BY DEF JInv, ClosedIsAll
  <2>2. Entries(j) = IF Reported(j) THEN 1 ELSE 0
    BY <2>1 DEF JInv, EntriesWritten
  <2> QED BY <2>1, <2>2 DEF Reported
<1> QED BY <1>1, Inductive, PTL

(* When run_tests returns 0 the closed results file holds one entry for     *)
(* every job, and for every suite that ran it is the complete file that the  *)
(* suite wrote itself.                                                       *)
THEOREM ReportedSuccess == Spec => []SuccessIsReported
<1>1. JInv => SuccessIsReported
  <2> SUFFICES ASSUME JInv, status = "success" PROVE SuccessIsReported
    BY DEF SuccessIsReported
  <2>1. closed /\ Fine = Ids /\ main # "raised"
    BY DEF JInv, SuccessIsAll, ClosedIsAll
  <2>2. ASSUME NEW j \in Ids
        PROVE  /\ Entries(j) = 1
               /\ EntryOf(j) = CASE is_skip[j] -> "SKIP"
                                  [] ~is_skip[j] /\ Suite(j) -> "complete"
                                  [] OTHER -> "PASS"
    <3>1. j \in Collected /\ ~is_break[j] /\ StatusOf(j) \in {"PASS", "SKIP"}
      BY <2>1, <2>2 DEF Fine
    <3>2. Entries(j) = IF Reported(j) THEN 1 ELSE 0
      BY <2>1, <2>2 DEF JInv, EntriesWritten
    <3>3. CASE is_skip[j]
      <4>1. ~Copied(j) /\ StatusOf(j) = "SKIP"
        BY <3>3 DEF Copied, StatusOf
      <4> QED BY <3>1, <3>2, <3>3, <4>1 DEF Reported, EntryOf
    <3>4. CASE ~is_skip[j]
      <4>1. returncode[j] = 0 /\ StatusOf(j) = "PASS"
        BY <3>1, <3>4 DEF StatusOf
      <4>2. Out(j) > 0
        <5>1. collected[j] \in Nat /\ collected[j] > 0 /\ output_queue \in Seq(Ids)
          BY <2>2, <3>1 DEF JInv, Types, Collected
        <5>2. Times(output_queue, j) \in Nat
          BY <5>1, TimesNat
        <5> QED BY <5>1, <5>2 DEF Out
      <4>3. child[j].xml # "empty"
        BY <2>2, <3>1, <3>4, <4>1, <4>2, PassIsNotEmpty DEF JInv
      <4>4. Copied(j) <=> Suite(j)
        BY <3>4, <4>1 DEF Copied
      <4> QED BY <3>1, <3>2, <3>4, <4>1, <4>3, <4>4 DEF Reported, EntryOf
    <3> QED BY <3>3, <3>4
  <2>3. \A i \in DOMAIN results : results[i].entry = EntryOf(results[i].job)
    BY DEF JInv, EntriesTrue
  <2> QED BY <2>1, <2>2, <2>3 DEF SuccessIsReported
<1> QED BY <1>1, Inductive, PTL
=============================================================================
