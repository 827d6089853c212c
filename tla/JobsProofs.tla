----------------------------- MODULE JobsProofs -----------------------------
(***************************************************************************)
(* What a poll of an import job is answered, for any number of requests    *)
(* and jobs: a reader that took the lock after the job's goroutine was     *)
(* done with it needs no lock to encode the job.                           *)
(***************************************************************************)
EXTENDS Jobs, TLAPS

\* Every id that was taken has one owner, or one request about to register it;
\* a job that nobody has registered has no goroutine.
Registered ==
    /\ \A i \in Ids : run[i] # "none" => i \in DOMAIN owner
    /\ \A i \in DOMAIN owner : i =< jobSeq /\ run[i] # "none"
    /\ \A c \in Clients : pc[c] # "idle" => id[c] \in 1..jobSeq
    /\ \A c \in Clients : pc[c] = "register" => run[id[c]] = "none"
    /\ \A c, d \in Clients : pc[c] = "register" /\ pc[d] = "register" /\ id[c] = id[d] => c = d

\* The fields of a job once the assignments for this outcome are visible.
Final(how) == [status |-> how, result |-> how = "DONE", error |-> how = "FAILED", endedAt |-> TRUE]

\* The goroutine that holds the lock is assigning.  The fields it has left to
\* assign are as they were, the others as its outcome says; before it there
\* are none, and after it all are assigned.
Assigning ==
    \A i \in Ids :
        /\ mu = i <=> run[i] = "assigning"
        /\ run[i] \in {"none", "importing"} => unseen[i] = {} /\ job[i] = Blank
        /\ run[i] = "assigning" =>
              /\ outcome[i] \in {"DONE", "FAILED"}
              /\ unseen[i] \subseteq Assigned(outcome[i])
              /\ \A f \in Fields :
                    job[i][f] = IF f \in unseen[i] THEN Blank[f] ELSE Final(outcome[i])[f]
        /\ run[i] = "ended" =>
              outcome[i] \in {"DONE", "FAILED"} /\ unseen[i] = {} /\ job[i] = Final(outcome[i])

\* The fields that a request at p has encoded.
Encoded(p) ==
    {"status"} \cup (IF p = "status" THEN {} ELSE {"result"})
               \cup (IF p \in {"status", "result"} THEN {} ELSE {"error"})
               \cup (IF p = "endedAt" THEN {"endedAt"} ELSE {})

\* What a late poll has encoded so far is what the job is now, and stays.
LateIsCurrent ==
    \A c \in Clients : late[c] =>
        /\ pc[c] \in {"encode"} \cup Fields
        /\ run[id[c]] = "ended"
        /\ pc[c] # "encode" => \A f \in Encoded(pc[c]) : answer[c][f] = job[id[c]][f]

JobsInv == TypeOK /\ Registered /\ Assigning /\ LateIsCurrent

-----------------------------------------------------------------------------
(* The parts of the invariant under the steps that leave them alone. *)

LEMMA BlankIs == Blank \in JobType /\ \A f \in Fields : Blank[f] = IF f = "status" THEN "RUNNING" ELSE FALSE
BY DEF Blank, JobType, Fields

LEMMA FinalIs ==
    ASSUME NEW how \in {"DONE", "FAILED"}
    PROVE  /\ Final(how) \in JobType
           /\ Assigned(how) \subseteq Fields
           /\ Final(how)["status"] = how
           /\ \A f \in Assigned(how) \ {"status"} : Final(how)[f] = TRUE
           /\ \A f \in Fields \ Assigned(how) : Final(how)[f] = Blank[f]
           /\ how = "DONE" => Final(how) = [status |-> "DONE", result |-> TRUE, error |-> FALSE, endedAt |-> TRUE]
           /\ how = "FAILED" => Final(how) = [status |-> "FAILED", result |-> FALSE, error |-> TRUE, endedAt |-> TRUE]
<1>1. CASE how = "DONE"
  <2>1. Final(how) = [status |-> "DONE", result |-> TRUE, error |-> FALSE, endedAt |-> TRUE]
    BY <1>1 DEF Final
  <2>2. Assigned(how) = {"endedAt", "status", "result"}
    BY <1>1 DEF Assigned
  <2>3. Final(how) \in JobType /\ Assigned(how) \subseteq Fields
    BY <2>1, <2>2 DEF JobType, Fields
  <2>4. Final(how)["status"] = how
    BY <1>1, <2>1
  <2>5. Final(how)["endedAt"] = TRUE
    BY <2>1
  <2>6. Final(how)["result"] = TRUE
    BY <2>1
  <2>7. \A f \in Assigned(how) \ {"status"} : Final(how)[f] = TRUE
    <3>1. \A f \in Assigned(how) \ {"status"} : f = "endedAt" \/ f = "result"
      BY <2>2
    <3>2. ASSUME NEW f \in Assigned(how) \ {"status"} PROVE Final(how)[f] = TRUE
      <4>1. CASE f = "endedAt"
        BY <2>5, <4>1
      <4>2. CASE f # "endedAt"
        BY <2>6, <3>1, <4>2
      <4> QED BY <4>1, <4>2
    <3> QED BY <3>2
  <2>8. \A f \in Fields \ Assigned(how) : Final(how)[f] = Blank[f]
    <3>1. Final(how)["error"] = FALSE /\ Blank["error"] = FALSE
      BY <2>1 DEF Blank
    <3>2. \A f \in Fields \ Assigned(how) : f = "error"
      BY <2>2 DEF Fields
    <3>3. ASSUME NEW f \in Fields \ Assigned(how) PROVE Final(how)[f] = Blank[f]
      <4>1. f = "error"
        BY <3>2
      <4> QED BY <3>1, <4>1
    <3> QED BY <3>3
  <2> QED BY <1>1, <2>1, <2>3, <2>4, <2>7, <2>8
<1>2. CASE how = "FAILED"
  <2>1. Final(how) = [status |-> "FAILED", result |-> FALSE, error |-> TRUE, endedAt |-> TRUE]
    BY <1>2 DEF Final
  <2>2. Assigned(how) = {"endedAt", "status", "error"}
    BY <1>2 DEF Assigned
  <2>3. Final(how) \in JobType /\ Assigned(how) \subseteq Fields
    BY <2>1, <2>2 DEF JobType, Fields
  <2>4. Final(how)["status"] = how
    BY <1>2, <2>1
  <2>5. Final(how)["endedAt"] = TRUE
    BY <2>1
  <2>6. Final(how)["error"] = TRUE
    BY <2>1
  <2>7. \A f \in Assigned(how) \ {"status"} : Final(how)[f] = TRUE
    <3>1. \A f \in Assigned(how) \ {"status"} : f = "endedAt" \/ f = "error"
      BY <2>2
    <3>2. ASSUME NEW f \in Assigned(how) \ {"status"} PROVE Final(how)[f] = TRUE
      <4>1. CASE f = "endedAt"
        BY <2>5, <4>1
      <4>2. CASE f # "endedAt"
        BY <2>6, <3>1, <4>2
      <4> QED BY <4>1, <4>2
    <3> QED BY <3>2
  <2>8. \A f \in Fields \ Assigned(how) : Final(how)[f] = Blank[f]
    <3>1. Final(how)["result"] = FALSE /\ Blank["result"] = FALSE
      BY <2>1 DEF Blank
    <3>2. \A f \in Fields \ Assigned(how) : f = "result"
      BY <2>2 DEF Fields
    <3>3. ASSUME NEW f \in Fields \ Assigned(how) PROVE Final(how)[f] = Blank[f]
      <4>1. f = "result"
        BY <3>2
      <4> QED BY <3>1, <4>1
    <3> QED BY <3>3
  <2> QED BY <1>2, <2>1, <2>3, <2>4, <2>7, <2>8
<1> QED BY <1>1, <1>2

\* Two jobs are the same if their fields are.
LEMMA SameJob ==
    ASSUME NEW j \in JobType, NEW k \in JobType, \A f \in Fields : j[f] = k[f]
    PROVE  j = k
<1>1. j.status = k.status /\ j.result = k.result /\ j.error = k.error /\ j.endedAt = k.endedAt
  BY DEF Fields
<1> QED BY <1>1 DEF JobType

\* A late poll is about a job whose goroutine is done.
LEMMA LateHasEnded ==
    ASSUME TypeOK, Registered, LateIsCurrent, NEW c \in Clients, late[c]
    PROVE  id[c] \in Ids /\ run[id[c]] = "ended"
<1>1. pc[c] \in {"encode"} \cup Fields /\ run[id[c]] = "ended"
  BY DEF LateIsCurrent
<1>2. id[c] \in 1..jobSeq
  BY <1>1 DEF Registered, Fields
<1> QED BY <1>1, <1>2, MaxJobsAssumption DEF TypeOK, Ids

\* No step of a request touches a goroutine.
LEMMA GoroutinesRest ==
    ASSUME Assigning, UNCHANGED goroutines, UNCHANGED job
    PROVE  Assigning'
BY DEF Assigning, goroutines, Ids

-----------------------------------------------------------------------------
(* One lemma per action. *)

LEMMA JobsStart == Init => JobsInv
<1> SUFFICES ASSUME Init PROVE JobsInv
  OBVIOUS
<1>1. TypeOK
  BY BlankIs, MaxJobsAssumption DEF Init, TypeOK, Ids
<1>2. Registered
  BY DEF Init, Registered, Ids
<1>3. Assigning
  BY DEF Init, Assigning, Ids
<1>4. LateIsCurrent
  BY DEF Init, LateIsCurrent
<1> QED BY <1>1, <1>2, <1>3, <1>4 DEF JobsInv

LEMMA TakeIdStep ==
    ASSUME JobsInv, NEW c \in Clients, TakeId(c)
    PROVE  JobsInv'
<1>0. TypeOK /\ Registered /\ Assigning /\ LateIsCurrent
  BY DEF JobsInv
<1>1. /\ pc[c] = "idle" /\ jobSeq < MaxJobs /\ jobSeq' = jobSeq + 1
      /\ pc' = [pc EXCEPT ![c] = "register"] /\ id' = [id EXCEPT ![c] = jobSeq']
      /\ UNCHANGED <<owner, job, goroutines, late, answer>>
  BY DEF TakeId
<1>2. UNCHANGED <<run, outcome, unseen, blocked, mu>>
  BY <1>1 DEF goroutines
<1>3. TypeOK'
  BY <1>0, <1>1, <1>2, MaxJobsAssumption DEF TypeOK, Ids
<1>4. run[jobSeq + 1] = "none"
  BY <1>0, <1>1, MaxJobsAssumption DEF TypeOK, Registered, Ids
<1>5. Registered'
  BY <1>0, <1>1, <1>2, <1>4, MaxJobsAssumption DEF TypeOK, Registered, Ids
<1>6. LateIsCurrent'
  BY <1>0, <1>1, <1>2 DEF TypeOK, LateIsCurrent, Fields
<1> QED BY <1>0, <1>1, <1>3, <1>5, <1>6, GoroutinesRest DEF JobsInv

LEMMA RegisterStep ==
    ASSUME JobsInv, NEW c \in Clients, Register(c)
    PROVE  JobsInv'
<1> DEFINE i == id[c]
<1>0. TypeOK /\ Registered /\ Assigning /\ LateIsCurrent
  BY DEF JobsInv
<1>1. /\ pc[c] = "register"
      /\ owner' = [k \in DOMAIN owner \cup {i} |-> IF k = i THEN c ELSE owner[k]]
      /\ job' = [job EXCEPT ![i] = Blank]
      /\ run' = [run EXCEPT ![i] = "importing"]
      /\ pc' = [pc EXCEPT ![c] = "encode"]
      /\ late' = [late EXCEPT ![c] = FALSE]
      /\ UNCHANGED <<jobSeq, outcome, unseen, blocked, mu, id, answer>>
  BY DEF Register
<1>2. i \in Ids /\ i =< jobSeq /\ run[i] = "none"
  BY <1>0, <1>1 DEF TypeOK, Registered, Ids
<1> HIDE DEF i
<1>3. TypeOK'
  BY <1>0, <1>1, <1>2, BlankIs DEF TypeOK
<1>4. Registered'
  <2>1. \A d \in Clients : pc'[d] = "register" => pc[d] = "register" /\ d # c /\ id'[d] = id[d] /\ id[d] # i
    BY <1>0, <1>1 DEF TypeOK, Registered, i
  <2>2. \A d \in Clients : pc'[d] = "register" => run'[id'[d]] = "none"
    BY <1>0, <1>1, <2>1 DEF TypeOK, Registered, Ids
  <2>3. \A d \in Clients : pc'[d] # "idle" => id'[d] \in 1..jobSeq'
    BY <1>0, <1>1 DEF TypeOK, Registered
  <2>4. \A k \in Ids : run'[k] # "none" => k \in DOMAIN owner'
    BY <1>0, <1>1 DEF TypeOK, Registered
  <2>5. \A k \in DOMAIN owner' : k =< jobSeq' /\ run'[k] # "none"
    BY <1>0, <1>1, <1>2 DEF TypeOK, Registered
  <2>6. \A d, e \in Clients : pc'[d] = "register" /\ pc'[e] = "register" /\ id'[d] = id'[e] => d = e
    BY <1>0, <1>1, <2>1 DEF Registered
  <2> QED BY <2>2, <2>3, <2>4, <2>5, <2>6 DEF Registered, Ids
<1>5. Assigning'
  <2> SUFFICES ASSUME NEW k \in Ids
               PROVE  /\ mu' = k <=> run'[k] = "assigning"
                      /\ run'[k] \in {"none", "importing"} => unseen'[k] = {} /\ job'[k] = Blank
                      /\ run'[k] = "assigning" =>
                            /\ outcome'[k] \in {"DONE", "FAILED"}
                            /\ unseen'[k] \subseteq Assigned(outcome'[k])
                            /\ \A f \in Fields :
                                  job'[k][f] = IF f \in unseen'[k] THEN Blank[f] ELSE Final(outcome'[k])[f]
                      /\ run'[k] = "ended" =>
                            /\ outcome'[k] \in {"DONE", "FAILED"} /\ unseen'[k] = {}
                            /\ job'[k] = Final(outcome'[k])
    BY DEF Assigning, Ids, Fields, Blank, Final, Assigned
  <2>1. CASE k = i
    BY <1>0, <1>1, <1>2, <2>1 DEF TypeOK, Assigning
  <2>2. CASE k # i
    <3>1. run'[k] = run[k] /\ job'[k] = job[k]
      BY <1>0, <1>1, <2>2 DEF TypeOK
    <3> QED BY <1>0, <1>1, <3>1 DEF Assigning
  <2> QED BY <2>1, <2>2
<1>6. LateIsCurrent'
  <2> SUFFICES ASSUME NEW d \in Clients, late'[d]
               PROVE  /\ pc'[d] \in {"encode"} \cup Fields
                      /\ run'[id'[d]] = "ended"
                      /\ pc'[d] # "encode" =>
                            \A f \in Encoded(pc'[d]) : answer'[d][f] = job'[id'[d]][f]
    BY DEF LateIsCurrent, Fields, Encoded
  <2>1. d # c /\ late[d] /\ pc'[d] = pc[d]
    BY <1>0, <1>1 DEF TypeOK
  <2>2. run[id[d]] = "ended" /\ id[d] # i
    BY <1>0, <1>2, <2>1, LateHasEnded
  <2>3. id[d] \in Ids
    BY <1>0, <2>1, LateHasEnded
  <2>4. run'[id[d]] = run[id[d]] /\ job'[id[d]] = job[id[d]]
    BY <1>0, <1>1, <2>2, <2>3 DEF TypeOK
  <2> QED BY <1>0, <1>1, <2>1, <2>2, <2>4 DEF LateIsCurrent
<1> QED BY <1>3, <1>4, <1>5, <1>6 DEF JobsInv

LEMMA FinishStep ==
    ASSUME JobsInv, NEW i \in Ids, Finish(i)
    PROVE  JobsInv'
<1>0. TypeOK /\ Registered /\ Assigning /\ LateIsCurrent
  BY DEF JobsInv
<1>1. PICK how \in {"DONE", "FAILED"} :
          /\ outcome' = [outcome EXCEPT ![i] = how]
          /\ unseen' = [unseen EXCEPT ![i] = Assigned(how)]
  BY DEF Finish
<1>2. /\ run[i] = "importing" /\ mu = 0 /\ mu' = i
      /\ run' = [run EXCEPT ![i] = "assigning"]
      /\ UNCHANGED <<jobSeq, owner, job, blocked, pc, id, late, answer>>
  BY DEF Finish, requests
<1>3. Assigned(how) \subseteq Fields
  BY FinalIs
<1>4. TypeOK'
  BY <1>0, <1>1, <1>2, <1>3, MaxJobsAssumption DEF TypeOK, Ids
<1>5. Registered'
  BY <1>0, <1>2 DEF TypeOK, Registered, Ids
<1>6. Assigning'
  <2> SUFFICES ASSUME NEW k \in Ids
               PROVE  /\ mu' = k <=> run'[k] = "assigning"
                      /\ run'[k] \in {"none", "importing"} => unseen'[k] = {} /\ job'[k] = Blank
                      /\ run'[k] = "assigning" =>
                            /\ outcome'[k] \in {"DONE", "FAILED"}
                            /\ unseen'[k] \subseteq Assigned(outcome'[k])
                            /\ \A f \in Fields :
                                  job'[k][f] = IF f \in unseen'[k] THEN Blank[f] ELSE Final(outcome'[k])[f]
                      /\ run'[k] = "ended" =>
                            /\ outcome'[k] \in {"DONE", "FAILED"} /\ unseen'[k] = {}
                            /\ job'[k] = Final(outcome'[k])
    BY DEF Assigning, Ids, Fields, Blank, Final, Assigned
  <2>1. CASE k = i
    <3>1. outcome'[k] = how /\ unseen'[k] = Assigned(how) /\ run'[k] = "assigning" /\ job'[k] = Blank
      BY <1>0, <1>1, <1>2, <2>1 DEF TypeOK, Assigning
    <3>2. \A f \in Fields : Blank[f] = IF f \in Assigned(how) THEN Blank[f] ELSE Final(how)[f]
      BY FinalIs
    <3> QED BY <1>2, <2>1, <3>1, <3>2
  <2>2. CASE k # i
    <3>1. run'[k] = run[k] /\ job'[k] = job[k] /\ unseen'[k] = unseen[k] /\ outcome'[k] = outcome[k]
      BY <1>0, <1>1, <1>2, <2>2 DEF TypeOK
    <3>2. run[k] # "assigning"
      BY <1>0, <1>2 DEF Assigning, Ids
    <3> QED BY <1>0, <1>2, <2>2, <3>1, <3>2 DEF Assigning
  <2> QED BY <2>1, <2>2
<1>7. LateIsCurrent'
  <2>1. \A d \in Clients : late[d] => id[d] # i /\ id[d] \in Ids
    BY <1>0, <1>2, LateHasEnded
  <2> QED BY <1>0, <1>2, <2>1 DEF LateIsCurrent, TypeOK
<1> QED BY <1>4, <1>5, <1>6, <1>7 DEF JobsInv

LEMMA AssignStep ==
    ASSUME JobsInv, NEW i \in Ids, NEW f \in Fields, Assign(i, f)
    PROVE  JobsInv'
<1> DEFINE v == IF f = "status" THEN outcome[i] ELSE TRUE
<1>0. TypeOK /\ Registered /\ Assigning /\ LateIsCurrent
  BY DEF JobsInv
<1>1. /\ f \in unseen[i]
      /\ job' = [job EXCEPT ![i][f] = v]
      /\ unseen' = [unseen EXCEPT ![i] = unseen[i] \ {f}]
      /\ UNCHANGED <<jobSeq, owner, run, outcome, blocked, mu, pc, id, late, answer>>
  BY DEF Assign, requests
<1>2. run[i] = "assigning"
  BY <1>0, <1>1 DEF Assigning, TypeOK
<1>3. outcome[i] \in {"DONE", "FAILED"} /\ f \in Assigned(outcome[i]) /\ v = Final(outcome[i])[f]
  <2>1. outcome[i] \in {"DONE", "FAILED"} /\ f \in Assigned(outcome[i])
    BY <1>0, <1>1, <1>2 DEF Assigning
  <2>2. CASE f = "status"
    BY <2>1, <2>2, FinalIs
  <2>3. CASE f # "status"
    BY <2>1, <2>3, FinalIs
  <2> QED BY <2>1, <2>2, <2>3
<1>4. v \in IF f = "status" THEN {"RUNNING", "DONE", "FAILED"} ELSE BOOLEAN
  BY <1>3
<1>5. [job[i] EXCEPT ![f] = v] \in JobType
  <2>1. job[i] \in JobType
    BY <1>0 DEF TypeOK
  <2>2. CASE f = "status"
    BY <1>4, <2>1, <2>2 DEF JobType
  <2>3. CASE f # "status"
    <3>1. v \in BOOLEAN
      BY <1>4, <2>3
    <3>2. f \in {"result", "error", "endedAt"}
      BY <2>3 DEF Fields
    <3> HIDE DEF v
    <3> QED BY <2>1, <3>1, <3>2 DEF JobType
  <2> QED BY <2>2, <2>3
<1>6. /\ job' \in [Ids -> JobType]
      /\ job'[i] = [job[i] EXCEPT ![f] = v]
      /\ \A k \in Ids \ {i} : job'[k] = job[k]
  BY <1>0, <1>1, <1>5 DEF TypeOK
<1> HIDE DEF v
<1>7. TypeOK'
  BY <1>0, <1>1, <1>6 DEF TypeOK
<1>8. Registered'
  BY <1>0, <1>1 DEF TypeOK, Registered
<1>9. Assigning'
  <2> SUFFICES ASSUME NEW k \in Ids
               PROVE  /\ mu' = k <=> run'[k] = "assigning"
                      /\ run'[k] \in {"none", "importing"} => unseen'[k] = {} /\ job'[k] = Blank
                      /\ run'[k] = "assigning" =>
                            /\ outcome'[k] \in {"DONE", "FAILED"}
                            /\ unseen'[k] \subseteq Assigned(outcome'[k])
                            /\ \A g \in Fields :
                                  job'[k][g] = IF g \in unseen'[k] THEN Blank[g] ELSE Final(outcome'[k])[g]
                      /\ run'[k] = "ended" =>
                            /\ outcome'[k] \in {"DONE", "FAILED"} /\ unseen'[k] = {}
                            /\ job'[k] = Final(outcome'[k])
    BY DEF Assigning, Ids, Fields, Blank, Final, Assigned
  <2>1. CASE k = i
    <3>1. unseen'[k] = unseen[i] \ {f}
      BY <1>0, <1>1, <2>1 DEF TypeOK
    <3>2. \A g \in Fields : job'[k][g] = IF g = f THEN v ELSE job[i][g]
      BY <1>0, <1>6, <2>1 DEF TypeOK, JobType, Fields
    <3>3. \A g \in Fields : job'[k][g] = IF g \in unseen'[k] THEN Blank[g] ELSE Final(outcome'[k])[g]
      BY <1>0, <1>1, <1>2, <1>3, <2>1, <3>1, <3>2 DEF Assigning
    <3> QED BY <1>0, <1>1, <1>2, <2>1, <3>1, <3>3 DEF Assigning
  <2>2. CASE k # i
    <3>1. job'[k] = job[k] /\ unseen'[k] = unseen[k]
      BY <1>0, <1>1, <1>6, <2>2 DEF TypeOK
    <3> QED BY <1>0, <1>1, <3>1 DEF Assigning
  <2> QED BY <2>1, <2>2
<1>10. LateIsCurrent'
  <2>1. \A d \in Clients : late[d] => id[d] # i /\ id[d] \in Ids
    BY <1>0, <1>2, LateHasEnded
  <2>2. \A d \in Clients : late[d] => job'[id[d]] = job[id[d]]
    BY <1>6, <2>1
  <2> QED BY <1>0, <1>1, <2>2 DEF LateIsCurrent
<1> QED BY <1>7, <1>8, <1>9, <1>10 DEF JobsInv

LEMMA UnlockStep ==
    ASSUME JobsInv, NEW i \in Ids, Unlock(i)
    PROVE  JobsInv'
<1>0. TypeOK /\ Registered /\ Assigning /\ LateIsCurrent
  BY DEF JobsInv
<1>1. /\ run[i] = "assigning" /\ unseen[i] = {}
      /\ run' = [run EXCEPT ![i] = "ended"] /\ mu' = 0
      /\ UNCHANGED <<jobSeq, owner, job, outcome, unseen, blocked, pc, id, late, answer>>
  BY DEF Unlock, requests
<1>2. TypeOK'
  BY <1>0, <1>1, MaxJobsAssumption DEF TypeOK
<1>3. Registered'
  BY <1>0, <1>1 DEF TypeOK, Registered
<1>4. job[i] = Final(outcome[i])
  <2>1. outcome[i] \in {"DONE", "FAILED"} /\ \A f \in Fields : job[i][f] = Final(outcome[i])[f]
    BY <1>0, <1>1 DEF Assigning
  <2> QED BY <1>0, <2>1, FinalIs, SameJob DEF TypeOK
<1>5. Assigning'
  <2>1. mu = i
    BY <1>0, <1>1 DEF Assigning
  <2>2. \A k \in Ids : k # i => run'[k] = run[k] /\ run[k] # "assigning"
    BY <1>0, <1>1, <2>1 DEF TypeOK, Assigning
  <2>3. run'[i] = "ended"
    BY <1>0, <1>1 DEF TypeOK
  <2>4. \A k \in Ids : k # 0
    BY DEF Ids
  <2> QED BY <1>0, <1>1, <1>4, <2>2, <2>3, <2>4 DEF Assigning
<1>6. LateIsCurrent'
  BY <1>0, <1>1 DEF LateIsCurrent, TypeOK
<1> QED BY <1>2, <1>3, <1>5, <1>6 DEF JobsInv

LEMMA GetStep ==
    ASSUME JobsInv, NEW c \in Clients, NEW i \in Ids, Get(c, i)
    PROVE  JobsInv'
<1>0. TypeOK /\ Registered /\ Assigning /\ LateIsCurrent
  BY DEF JobsInv
<1>1. /\ pc[c] = "idle" /\ i \in DOMAIN owner
      /\ id' = [id EXCEPT ![c] = i] /\ late' = [late EXCEPT ![c] = (run[i] = "ended")]
      /\ pc' = [pc EXCEPT ![c] = "encode"]
      /\ UNCHANGED <<jobSeq, owner, job, goroutines, answer>>
  BY DEF Get
<1>2. UNCHANGED <<run, outcome, unseen, blocked, mu>>
  BY <1>1 DEF goroutines
<1>3. TypeOK'
  BY <1>0, <1>1, <1>2 DEF TypeOK, Ids
<1>4. Registered'
  BY <1>0, <1>1, <1>2 DEF TypeOK, Registered, Ids
<1>5. LateIsCurrent'
  BY <1>0, <1>1, <1>2 DEF TypeOK, LateIsCurrent
<1> QED BY <1>0, <1>1, <1>3, <1>4, <1>5, GoroutinesRest DEF JobsInv

LEMMA EncodeFieldStep ==
    ASSUME JobsInv, NEW c \in Clients, EncodeField(c)
    PROVE  JobsInv'
<1> DEFINE f == After[pc[c]]
<1>0. TypeOK /\ Registered /\ Assigning /\ LateIsCurrent
  BY DEF JobsInv
<1>1. /\ pc[c] \in {"encode", "status", "result", "error"}
      /\ f \in Fields
      /\ Encoded(f) = (IF pc[c] = "encode" THEN {} ELSE Encoded(pc[c])) \cup {f}
      /\ answer' = [answer EXCEPT ![c][f] = job[id[c]][f]]
      /\ pc' = [pc EXCEPT ![c] = f]
      /\ UNCHANGED <<jobSeq, owner, job, goroutines, id, late>>
  BY DEF EncodeField, After, Fields, Encoded
<1>2. UNCHANGED <<run, outcome, unseen, blocked, mu>>
  BY <1>1 DEF goroutines
<1> HIDE DEF f
<1>3. id[c] \in Ids
  BY <1>0, <1>1 DEF TypeOK, Registered, Ids
<1>4. [answer[c] EXCEPT ![f] = job[id[c]][f]] \in JobType
  <2>1. answer[c] \in JobType /\ job[id[c]] \in JobType
    BY <1>0, <1>3 DEF TypeOK
  <2>2. f \in Fields
    BY <1>1
  <2> QED BY <2>1, <2>2 DEF JobType, Fields
<1>5. TypeOK'
  BY <1>0, <1>1, <1>2, <1>4 DEF TypeOK
<1>6. Registered'
  BY <1>0, <1>1, <1>2 DEF TypeOK, Registered, Fields
<1>7. LateIsCurrent'
  <2> SUFFICES ASSUME NEW d \in Clients, late'[d]
               PROVE  /\ pc'[d] \in {"encode"} \cup Fields
                      /\ run'[id'[d]] = "ended"
                      /\ pc'[d] # "encode" =>
                            \A g \in Encoded(pc'[d]) : answer'[d][g] = job'[id'[d]][g]
    BY DEF LateIsCurrent, Fields, Encoded
  <2>1. CASE d = c
    <3>1. pc'[c] = f
      BY <1>0, <1>1 DEF TypeOK
    <3>2. \A g \in Fields : answer'[c][g] = IF g = f THEN job[id[c]][f] ELSE answer[c][g]
      BY <1>0, <1>1 DEF TypeOK, JobType, Fields
    <3>3. \A g \in Encoded(f) : g \in Fields
      BY DEF Encoded, Fields
    <3> QED BY <1>0, <1>1, <1>2, <2>1, <3>1, <3>2, <3>3 DEF LateIsCurrent
  <2>2. CASE d # c
    <3>1. pc'[d] = pc[d] /\ answer'[d] = answer[d]
      BY <1>0, <1>1, <2>2 DEF TypeOK
    <3> QED BY <1>0, <1>1, <1>2, <3>1 DEF LateIsCurrent
  <2> QED BY <2>1, <2>2
<1> QED BY <1>0, <1>1, <1>5, <1>6, <1>7, GoroutinesRest DEF JobsInv

LEMMA RespondStep ==
    ASSUME JobsInv, NEW c \in Clients, Respond(c)
    PROVE  JobsInv'
<1>0. TypeOK /\ Registered /\ Assigning /\ LateIsCurrent
  BY DEF JobsInv
<1>1. /\ pc' = [pc EXCEPT ![c] = "idle"] /\ id' = [id EXCEPT ![c] = 0]
      /\ late' = [late EXCEPT ![c] = FALSE] /\ answer' = [answer EXCEPT ![c] = Blank]
      /\ UNCHANGED <<jobSeq, owner, job, goroutines>>
  BY DEF Respond
<1>2. UNCHANGED <<run, outcome, unseen, blocked, mu>>
  BY <1>1 DEF goroutines
<1>3. TypeOK'
  BY <1>0, <1>1, <1>2, BlankIs, MaxJobsAssumption DEF TypeOK
<1>4. Registered'
  BY <1>0, <1>1, <1>2 DEF TypeOK, Registered
<1>5. LateIsCurrent'
  BY <1>0, <1>1, <1>2 DEF TypeOK, LateIsCurrent
<1> QED BY <1>0, <1>1, <1>3, <1>4, <1>5, GoroutinesRest DEF JobsInv

LEMMA JobsStep == JobsInv /\ [Next]_vars => JobsInv'
<1> SUFFICES ASSUME JobsInv, [Next]_vars PROVE JobsInv'
  OBVIOUS
<1>1. ASSUME NEW c \in Clients, Request(c) PROVE JobsInv'
  BY <1>1, TakeIdStep, RegisterStep, GetStep, EncodeFieldStep, RespondStep DEF Request
<1>2. ASSUME NEW i \in Ids, Goroutine(i) PROVE JobsInv'
  BY <1>2, FinishStep, AssignStep, UnlockStep DEF Goroutine
<1>3. ASSUME NEW i \in Ids, Export(i) PROVE JobsInv'
  <2>1. UNCHANGED <<jobSeq, owner, job, run, outcome, unseen, mu, pc, id, late, answer>>
    BY <1>3 DEF Export, OpenExport, EndExport, requests
  <2>2. blocked' \subseteq Ids
    BY <1>3 DEF Export, OpenExport, EndExport, JobsInv, TypeOK
  <2> QED BY <2>1, <2>2 DEF JobsInv, TypeOK, Registered, Assigning, LateIsCurrent, Ids
<1>4. CASE UNCHANGED vars
  <2>1. UNCHANGED <<jobSeq, owner, job, run, outcome, unseen, blocked, mu, pc, id, late, answer>>
    BY <1>4 DEF vars, goroutines, requests
  <2> QED BY <2>1 DEF JobsInv, TypeOK, Registered, Assigning, LateIsCurrent, Ids
<1> QED BY <1>1, <1>2, <1>3, <1>4 DEF Next

LEMMA JobsInvariance == Spec => []JobsInv
  BY JobsStart, JobsStep, PTL DEF Spec

-----------------------------------------------------------------------------

\* The registry, type correctness: ids in progress are ids that were given out.
THEOREM JobsTypes == Spec => []TypeOK
<1>1. JobsInv => TypeOK
  BY DEF JobsInv
<1> QED BY <1>1, JobsInvariance, PTL

\* jobs.go, Get: a job is handed out by reference and encoded without the lock;
\* when its goroutine was done before, the answer is complete and of one piece.
THEOREM LatePollsAreConsistent == Spec => []LateIsConsistent
<1>1. JobsInv => LateIsConsistent
  <2> SUFFICES ASSUME JobsInv, NEW c \in Clients, pc[c] = "endedAt", late[c]
               PROVE  Consistent(answer[c]) /\ answer[c].status # "RUNNING"
    BY DEF LateIsConsistent
  <2>0. TypeOK /\ Registered /\ Assigning /\ LateIsCurrent
    BY DEF JobsInv
  <2>1. id[c] \in Ids
    BY <2>0 DEF Registered, TypeOK, Ids
  <2>2. run[id[c]] = "ended" /\ \A f \in Fields : answer[c][f] = job[id[c]][f]
    BY <2>0 DEF LateIsCurrent, Encoded, Fields
  <2>3. /\ outcome[id[c]] \in {"DONE", "FAILED"}
        /\ job[id[c]] = Final(outcome[id[c]])
    BY <2>0, <2>1, <2>2 DEF Assigning
  <2>4. answer[c] = Final(outcome[id[c]])
    BY <2>0, <2>1, <2>2, <2>3, SameJob, FinalIs DEF TypeOK
  <2>5. CASE outcome[id[c]] = "DONE"
    <3>1. /\ answer[c].status = "DONE" /\ answer[c].result
          /\ ~answer[c].error /\ answer[c].endedAt
      BY <2>4, <2>5, FinalIs
    <3> QED BY <3>1 DEF Consistent
  <2>6. CASE outcome[id[c]] = "FAILED"
    <3>1. /\ answer[c].status = "FAILED" /\ ~answer[c].result
          /\ answer[c].error /\ answer[c].endedAt
      BY <2>4, <2>6, FinalIs
    <3> QED BY <3>1 DEF Consistent
  <2> QED BY <2>3, <2>5, <2>6
<1> QED BY <1>1, JobsInvariance, PTL

=============================================================================
