-------------------------------- MODULE Jobs --------------------------------
(***************************************************************************)
(* The registry of import jobs (internal/engine/jobs.go) and the requests  *)
(* that start and poll them (internal/api/io.go), in one life of the       *)
(* process: the registry is not persistent.                                *)
(*                                                                         *)
(* List and Get hand out pointers and the handlers encode them after the   *)
(* registry is unlocked, while the goroutine of StartImport assigns the    *)
(* fields under the lock.  Nothing orders those assignments for such a     *)
(* reader: they become visible to it one by one, in any order.  An export  *)
(* of the job's database may hold the only connection its import needs.    *)
(***************************************************************************)
EXTENDS Integers, FiniteSets

CONSTANTS
    Clients,  \* requests in progress at one time
    MaxJobs   \* bound: jobs started in a behaviour

ASSUME ClientsAssumption == IsFiniteSet(Clients) /\ Clients # {}
ASSUME MaxJobsAssumption == MaxJobs \in Nat

VARIABLES
    jobSeq,   \* jobSeq
    owner,    \* r.jobs: from ids to the request that registered the job
    job,      \* the fields of each job, as a reader without the lock sees them
    run,      \* where the goroutine of each job stands
    outcome,  \* how its import ended
    unseen,   \* fields it has assigned or will assign, not yet visible
    blocked,  \* importing jobs of whose database an export holds the connection
    mu,       \* r.mu: the job whose goroutine holds it, or 0
    pc,       \* where each request stands
    id,       \* the job it is about
    late,     \* history variable: whether it found the job's goroutine done
    answer    \* the fields it has encoded so far

goroutines == <<run, outcome, unseen, blocked, mu>>
requests == <<pc, id, late, answer>>
vars == <<jobSeq, owner, job, goroutines, requests>>

Ids == 1..MaxJobs
Fields == {"status", "result", "error", "endedAt"}
Blank == [status |-> "RUNNING", result |-> FALSE, error |-> FALSE, endedAt |-> FALSE]

Init ==
    /\ jobSeq = 0
    /\ owner = [i \in {} |-> 0]
    /\ job = [i \in Ids |-> Blank]
    /\ run = [i \in Ids |-> "none"]
    /\ outcome = [i \in Ids |-> "none"]
    /\ unseen = [i \in Ids |-> {}]
    /\ blocked = {}
    /\ mu = 0
    /\ pc = [c \in Clients |-> "idle"]
    /\ id = [c \in Clients |-> 0]
    /\ late = [c \in Clients |-> FALSE]
    /\ answer = [c \in Clients |-> Blank]

----------------------------------------------------------------------------
(* StartImport. *)

\* jobSeq.Add(1).
TakeId(c) ==
    /\ pc[c] = "idle"
    /\ jobSeq < MaxJobs
    /\ jobSeq' = jobSeq + 1
    /\ pc' = [pc EXCEPT ![c] = "register"]
    /\ id' = [id EXCEPT ![c] = jobSeq']
    /\ UNCHANGED <<owner, job, goroutines, late, answer>>

\* The job goes into the map and its goroutine starts; the handler then
\* encodes the job it was returned.
Register(c) ==
    /\ pc[c] = "register"
    /\ mu = 0
    /\ owner' = [i \in DOMAIN owner \cup {id[c]} |-> IF i = id[c] THEN c ELSE owner[i]]
    /\ job' = [job EXCEPT ![id[c]] = Blank]
    /\ run' = [run EXCEPT ![id[c]] = "importing"]
    /\ pc' = [pc EXCEPT ![c] = "encode"]
    /\ late' = [late EXCEPT ![c] = FALSE]
    /\ UNCHANGED <<jobSeq, outcome, unseen, blocked, mu, id, answer>>

----------------------------------------------------------------------------
(* The goroutine of a job. *)

\* Mutant of Assigned: an import that fails leaves the status as it is.
AssignedOnSuccess(how) == {"endedAt"} \cup (IF how = "DONE" THEN {"status", "result"} ELSE {"error"})

\* The fields the goroutine assigns.
Assigned(how) == {"endedAt", "status"} \cup (IF how = "DONE" THEN {"result"} ELSE {"error"})

\* ImportCSV, which waits for the connection without a deadline, returns with a
\* result or with an error, and the goroutine locks.
Finish(i) ==
    /\ run[i] = "importing"
    /\ i \notin blocked
    /\ mu = 0
    /\ mu' = i
    /\ \E how \in {"DONE", "FAILED"} :
          /\ outcome' = [outcome EXCEPT ![i] = how]
          /\ unseen' = [unseen EXCEPT ![i] = Assigned(how)]
    /\ run' = [run EXCEPT ![i] = "assigning"]
    /\ UNCHANGED <<jobSeq, owner, job, blocked, requests>>

\* An assignment becomes visible.
Assign(i, f) ==
    /\ f \in unseen[i]
    /\ job' = [job EXCEPT ![i][f] = IF f = "status" THEN outcome[i] ELSE TRUE]
    /\ unseen' = [unseen EXCEPT ![i] = @ \ {f}]
    /\ UNCHANGED <<jobSeq, owner, run, outcome, blocked, mu, requests>>

\* Mutant of Unlock: the goroutine unlocks before its assignments are made.
UnlockEarly(i) ==
    /\ run[i] = "assigning"
    /\ run' = [run EXCEPT ![i] = "ended"]
    /\ mu' = 0
    /\ UNCHANGED <<jobSeq, owner, job, outcome, unseen, blocked, requests>>

\* The deferred Unlock: who locks after it sees all of them.
Unlock(i) ==
    /\ run[i] = "assigning"
    /\ unseen[i] = {}
    /\ run' = [run EXCEPT ![i] = "ended"]
    /\ mu' = 0
    /\ UNCHANGED <<jobSeq, owner, job, outcome, unseen, blocked, requests>>

\* openExport takes the connection of the job's database between two statements of
\* the import, and gives it back when its client has read the rows or is gone.
\* Before and after the import it makes no difference to the job.
OpenExport(i) ==
    /\ run[i] = "importing"
    /\ i \notin blocked
    /\ blocked' = blocked \cup {i}
    /\ UNCHANGED <<jobSeq, owner, job, run, outcome, unseen, mu, requests>>

EndExport(i) ==
    /\ i \in blocked
    /\ blocked' = blocked \ {i}
    /\ UNCHANGED <<jobSeq, owner, job, run, outcome, unseen, mu, requests>>

----------------------------------------------------------------------------
(* Polling: Get or List, then the encoder, field by field in their order. *)

Get(c, i) ==
    /\ pc[c] = "idle"
    /\ mu = 0
    /\ i \in DOMAIN owner
    /\ id' = [id EXCEPT ![c] = i]
    /\ late' = [late EXCEPT ![c] = run[i] = "ended"]
    /\ pc' = [pc EXCEPT ![c] = "encode"]
    /\ UNCHANGED <<jobSeq, owner, job, goroutines, answer>>

After == [encode |-> "status", status |-> "result", result |-> "error", error |-> "endedAt"]

EncodeField(c) ==
    /\ pc[c] \in DOMAIN After
    /\ LET f == After[pc[c]]
       IN  /\ answer' = [answer EXCEPT ![c][f] = job[id[c]][f]]
           /\ pc' = [pc EXCEPT ![c] = f]
    /\ UNCHANGED <<jobSeq, owner, job, goroutines, id, late>>

Respond(c) ==
    /\ pc[c] = "endedAt"
    /\ pc' = [pc EXCEPT ![c] = "idle"]
    /\ id' = [id EXCEPT ![c] = 0]
    /\ late' = [late EXCEPT ![c] = FALSE]
    /\ answer' = [answer EXCEPT ![c] = Blank]
    /\ UNCHANGED <<jobSeq, owner, job, goroutines>>

----------------------------------------------------------------------------

Request(c) == TakeId(c) \/ Register(c) \/ (\E i \in Ids : Get(c, i)) \/ EncodeField(c) \/ Respond(c)

Goroutine(i) == Finish(i) \/ (\E f \in Fields : Assign(i, f)) \/ Unlock(i)

Export(i) == OpenExport(i) \/ EndExport(i)

Next == (\E c \in Clients : Request(c)) \/ \E i \in Ids : Goroutine(i) \/ Export(i)

\* The body of an import is finite and in memory, and of those that wait for the
\* connection the pool serves one at random, so an import is not passed over for
\* ever: it returns unless an export keeps the connection.  Its goroutine then
\* gets the lock and runs to its end.  A handler that has taken an id registers
\* it; nobody has to poll, or to end an export.
Fairness ==
    /\ \A i \in Ids : SF_vars(Finish(i)) /\ WF_vars(Goroutine(i))
    /\ \A c \in Clients : WF_vars(Register(c))

Spec == Init /\ [][Next]_vars /\ Fairness

----------------------------------------------------------------------------
(* Properties. *)

JobType == [status : {"RUNNING", "DONE", "FAILED"}, result : BOOLEAN, error : BOOLEAN, endedAt : BOOLEAN]

TypeOK ==
    /\ jobSeq \in 0..MaxJobs
    /\ DOMAIN owner \subseteq Ids /\ \A i \in DOMAIN owner : owner[i] \in Clients
    /\ job \in [Ids -> JobType]
    /\ run \in [Ids -> {"none", "importing", "assigning", "ended"}]
    /\ outcome \in [Ids -> {"none", "DONE", "FAILED"}]
    /\ unseen \in [Ids -> SUBSET Fields]
    /\ blocked \subseteq Ids
    /\ mu \in 0..MaxJobs
    /\ pc \in [Clients -> {"idle", "register", "encode"} \cup Fields]
    /\ id \in [Clients -> 0..MaxJobs]
    /\ late \in [Clients -> BOOLEAN]
    /\ answer \in [Clients -> JobType]

Consistent(j) ==
    CASE j.status = "RUNNING" -> ~j.result /\ ~j.error /\ ~j.endedAt
      [] j.status = "DONE" -> j.result /\ ~j.error /\ j.endedAt
      [] j.status = "FAILED" -> ~j.result /\ j.error /\ j.endedAt

\* A job with status DONE has a result: what jobs_test.go expects of the answer
\* to a poll, "job.Data.Result == nil" being fatal there.
DoneHasResult ==
    \A c \in Clients : pc[c] = "endedAt" /\ answer[c].status = "DONE" => answer[c].result

\* r.mu: a poll whose Get comes after the goroutine is done gets all fields, and
\* they fit together; only one that overlaps the goroutine's end may not.
LateIsConsistent ==
    \A c \in Clients :
        pc[c] = "endedAt" /\ late[c] => Consistent(answer[c]) /\ answer[c].status # "RUNNING"

\* Every registered job ends, and a poll can learn it: the status becomes DONE
\* or FAILED, whatever other goroutines and polls hold the lock meanwhile, and
\* however often exports take the connection, unless one of the job's own
\* database keeps it for ever.
JobsEndBesidesExports ==
    \A i \in Ids : ([]<>(i \notin blocked)) => (i \in DOMAIN owner ~> job[i].status # "RUNNING")

=============================================================================
