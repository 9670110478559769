---------------------- MODULE IngestionPipeline_proofs ----------------------
(***************************************************************************)
(* Proofs about the file-upload path, for any number of ingestions, runs,  *)
(* messages, jobs and faults.                                              *)
(***************************************************************************)
EXTENDS IngestionPipeline, TLAPS

\* A run whose execution counts as being in flight.
AtWork(r, i) == run[r].ing = i /\ run[r].at \notin {"idle", "read"}

\* An event is put, or about to be, only for a row that is uploaded, which no
\* row is twice.
AnnouncedAfterMark ==
    \A i \in Ingestions :
        /\ i \in publishing => published[i] = 0
        /\ row[i].status # "uploaded" => published[i] = 0

\* At most one execution is in flight for i, and no transcript while it is.
Single(i) ==
    /\ \A q, r \in Runs : AtWork(q, i) /\ AtWork(r, i) => q = r
    /\ \A j, k \in Jobs : job[j].ing = i /\ job[k].ing = i => j = k
    /\ \A r \in Runs, j \in Jobs : ~(AtWork(r, i) /\ job[j].ing = i)
    /\ InFlight(i) => row[i].transcript # "succeeded"

\* An ingestion that was not raced never has two.
OneInFlight == \A i \in Ingestions \ raced : Single(i)

\* What is kept, together: each part is inductive given TypeOK.
IInv ==
    /\ TypeOK
    /\ AnnouncedAfterMark /\ AnnouncedOnce
    /\ OneInFlight
    /\ PendingIsWorkedOn

-----------------------------------------------------------------------------
(* Types.                                                                  *)

\* Nothing is there at first.
LEMMA InitEstablishesIInv == Init => IInv
<1> SUFFICES ASSUME Init PROVE IInv
  OBVIOUS
<1>1. TypeOK
  BY IngestionAssumption DEF Init, TypeOK, IdleRun, NoJob
<1>2. \A i \in Ingestions : ~InFlight(i)
  BY IngestionAssumption DEF Init, InFlight, IdleRun, NoJob
<1>3. AnnouncedAfterMark /\ AnnouncedOnce /\ OneInFlight /\ PendingIsWorkedOn
  BY IngestionAssumption, <1>2
     DEF Init, AnnouncedAfterMark, AnnouncedOnce, OneInFlight, Single,
         PendingIsWorkedOn, AtWork, IdleRun, NoJob
<1> QED
  BY <1>1, <1>3 DEF IInv

Message ==
    [state : {"none", "queued", "inflight", "deleted", "dlq"},
     ing : Ingestions \cup {NoIngestion}, receives : 0 .. MaxReceives]

\* The parts of TypeOK about messages, runs and jobs.
MsgOK ==
    /\ msg \in [Messages -> Message]
    /\ \A m \in Messages : msg[m].state # "none" => msg[m].ing \in Ingestions

RunOK ==
    /\ run \in [Runs ->
         [at : {"idle", "read", "mark", "dispatch", "fetch", "backend"},
          ing : Ingestions \cup {NoIngestion}, msg : Messages \cup {NoMessage}]]
    /\ \A r \in Runs : run[r].msg # NoMessage => msg[run[r].msg].ing \in Ingestions
    /\ \A r \in Runs : run[r].at # "idle" => run[r].ing \in Ingestions

JobOK ==
    /\ job \in [Jobs ->
         [at : {"none", "submitted", "running"}, ing : Ingestions \cup {NoIngestion}]]
    /\ \A j \in Jobs : job[j].at # "none" <=> job[j].ing \in Ingestions

WorkOK == MsgOK /\ RunOK /\ JobOK

\* The part of TypeOK about rows, uploads and events.
TableOK ==
    /\ row \in [Ingestions ->
         [status : {"absent", "pending", "uploaded"},
          transcript : {"none", "pending", "succeeded", "failed"}]]
    /\ stored \subseteq {i \in Ingestions : row[i].status # "absent"}
    /\ notices \in [Ingestions -> Nat]
    /\ publishing \subseteq {i \in Ingestions : row[i].status = "uploaded"}
    /\ published \in [Ingestions -> Nat]
    /\ raced \subseteq Ingestions
    /\ faults \in 0 .. MaxFaults

\* The type invariant, by what holds work and what the table holds.
LEMMA TypeOKParts == TypeOK <=> WorkOK /\ TableOK
BY DEF TypeOK, WorkOK, MsgOK, RunOK, JobOK, TableOK, Message

\* A message that changes keeps to its ingestion.
LEMMA MessageType ==
    ASSUME MsgOK, NEW m \in Messages, NEW v \in Message, v.ing \in Ingestions,
           msg' = [msg EXCEPT ![m] = v]
    PROVE  /\ MsgOK'
           /\ \A k \in Messages : msg[k].ing \in Ingestions => msg'[k].ing \in Ingestions
BY DEF MsgOK

\* A run that is set to something well-typed is, whatever happens to messages.
LEMMA RunType ==
    ASSUME RunOK,
           \A k \in Messages : msg[k].ing \in Ingestions => msg'[k].ing \in Ingestions,
           NEW r \in Runs,
           NEW v \in [at : {"idle", "read", "mark", "dispatch", "fetch", "backend"},
                      ing : Ingestions \cup {NoIngestion},
                      msg : Messages \cup {NoMessage}],
           v.msg # NoMessage => msg'[v.msg].ing \in Ingestions,
           v.at # "idle" => v.ing \in Ingestions,
           run' = [run EXCEPT ![r] = v]
    PROVE  RunOK'
BY DEF RunOK

\* A job that is set to something well-typed is.
LEMMA JobType ==
    ASSUME JobOK, NEW j \in Jobs, NEW v \in
             [at : {"none", "submitted", "running"}, ing : Ingestions \cup {NoIngestion}],
           v.at # "none" <=> v.ing \in Ingestions,
           job' = [job EXCEPT ![j] = v]
    PROVE  JobOK'
BY DEF JobOK

\* A run that is over may do anything with its message but forget its ingestion.
LEMMA IdleRunType ==
    ASSUME RunOK, NEW r \in Runs, run' = [run EXCEPT ![r] = IdleRun],
           \A k \in Messages : msg[k].ing \in Ingestions => msg'[k].ing \in Ingestions
    PROVE  RunOK'
<1>1. /\ IdleRun \in [at : {"idle", "read", "mark", "dispatch", "fetch", "backend"},
                      ing : Ingestions \cup {NoIngestion},
                      msg : Messages \cup {NoMessage}]
      /\ IdleRun.at = "idle" /\ IdleRun.msg = NoMessage
  BY DEF IdleRun
<1> QED
  BY <1>1, RunType

\* An execution that ends leaves its run idle and the messages well-typed.
LEMMA EndRunType ==
    ASSUME WorkOK, NEW r \in Runs, EndRun(r)
    PROVE  MsgOK' /\ RunOK'
<1>1. run' = [run EXCEPT ![r] = IdleRun]
  BY DEF EndRun
<1>2. CASE UNCHANGED msg
  BY <1>1, <1>2, IdleRunType DEF WorkOK, MsgOK
<1>3. CASE run[r].msg # NoMessage /\ msg' = [msg EXCEPT ![run[r].msg].state = "deleted"]
  <2> DEFINE m == run[r].msg
             v == [msg[m] EXCEPT !.state = "deleted"]
  <2>1. m \in Messages /\ msg[m].ing \in Ingestions /\ msg[m] \in Message
    BY <1>3 DEF WorkOK, RunOK, MsgOK
  <2>2. v \in Message /\ v.ing \in Ingestions
    BY <2>1 DEF Message
  <2>3. msg' = [msg EXCEPT ![m] = v]
    BY <1>3, <2>1 DEF WorkOK, MsgOK
  <2>4. MsgOK' /\ \A k \in Messages : msg[k].ing \in Ingestions => msg'[k].ing \in Ingestions
    <3> HIDE DEF m, v
    <3> QED
      BY <2>1, <2>2, <2>3, MessageType DEF WorkOK
  <2> QED
    BY <1>1, <2>4, IdleRunType DEF WorkOK
<1> QED
  BY <1>2, <1>3 DEF EndRun, DeleteMessage

\* A run at work moves on.
LEMMA MoveType ==
    ASSUME RunOK, UNCHANGED msg, NEW r \in Runs, run[r].at # "idle",
           NEW at \in {"mark", "dispatch", "fetch", "backend"}, MoveRun(r, at)
    PROVE  RunOK'
<1> DEFINE v == [run[r] EXCEPT !.at = at]
<1>1. /\ v \in [at : {"idle", "read", "mark", "dispatch", "fetch", "backend"},
                ing : Ingestions \cup {NoIngestion}, msg : Messages \cup {NoMessage}]
      /\ v.ing = run[r].ing /\ v.msg = run[r].msg /\ v.ing \in Ingestions
  BY DEF RunOK
<1>2. run' = [run EXCEPT ![r] = v]
  BY DEF RunOK, MoveRun
<1>3. v.msg # NoMessage => msg'[v.msg].ing \in Ingestions
  BY <1>1 DEF RunOK
<1> HIDE DEF v
<1> QED
  BY <1>1, <1>2, <1>3, RunType

\* A new job is for an ingestion.
LEMMA NewJobType ==
    ASSUME JobOK, NEW i \in Ingestions, NewJob(i) \/ UNCHANGED job
    PROVE  JobOK'
<1>1. CASE NewJob(i)
  <2>1. PICK j \in Jobs : job' = [job EXCEPT ![j] = [at |-> "submitted", ing |-> i]]
    BY <1>1 DEF NewJob
  <2> DEFINE v == [at |-> "submitted", ing |-> i]
  <2>2. /\ v \in [at : {"none", "submitted", "running"}, ing : Ingestions \cup {NoIngestion}]
        /\ v.at = "submitted" /\ v.ing = i
    OBVIOUS
  <2>3. job' = [job EXCEPT ![j] = v]
    BY <2>1
  <2> HIDE DEF v
  <2> QED
    BY <2>2, <2>3, JobType
<1>2. CASE UNCHANGED job
  BY <1>2 DEF JobOK
<1> QED
  BY <1>1, <1>2

\* A job is over.
LEMMA EndJobType ==
    ASSUME JobOK, NEW j \in Jobs, EndJob(j)
    PROVE  JobOK'
<1>1. /\ NoJob \in [at : {"none", "submitted", "running"}, ing : Ingestions \cup {NoIngestion}]
      /\ NoJob.at = "none" /\ NoJob.ing \notin Ingestions
  BY IngestionAssumption DEF NoJob
<1> QED
  BY <1>1, JobType DEF EndJob

\* A transcript's status is set to one that there is.
LEMMA SetTranscriptType ==
    ASSUME TableOK, NEW i \in Ingestions,
           NEW v \in {"pending", "succeeded", "failed"}, SetTranscript(i, v),
           UNCHANGED <<stored, notices, publishing, published, raced, faults>>
    PROVE  TableOK'
BY DEF TableOK, SetTranscript

\* Steps that leave rows and events alone.
LEMMA RacedType ==
    ASSUME TableOK, UNCHANGED <<row, uploadVars>>,
           raced' = raced \/ \E i \in Ingestions : NoteRace(i),
           faults' = faults \/ \E k : Fault(k)
    PROVE  TableOK'
BY IngestionAssumption DEF TableOK, uploadVars, NoteRace, Fault

\* Every step keeps the types of runs, messages and jobs.
LEMMA NextKeepsWorkOK == WorkOK /\ [Next]_vars => WorkOK'
<1> SUFFICES ASSUME WorkOK, [Next]_vars PROVE WorkOK'
  OBVIOUS
<1>0. ASSUME UNCHANGED <<msg, run, job>> PROVE WorkOK'
  BY <1>0 DEF WorkOK, MsgOK, RunOK, JobOK
<1>1. ASSUME NEW i \in Ingestions, CreateIngestion(i) \/ RouterStep(i) \/ PublishFails(i)
      PROVE  WorkOK'
  BY <1>0, <1>1 DEF CreateIngestion, RouterStep, HandleNotice, Publish, PublishFails
<1>2. ASSUME NEW i \in Ingestions, Upload(i) PROVE WorkOK'
  <2>1. PICK m \in Messages :
          msg[m].state = "none" /\ msg' = [msg EXCEPT ![m].state = "queued", ![m].ing = i]
    BY <1>2 DEF Upload
  <2> DEFINE v == [[msg[m] EXCEPT !.state = "queued"] EXCEPT !.ing = i]
  <2>0. msg[m] \in Message
    BY DEF WorkOK, MsgOK
  <2>2. v \in Message /\ v.ing \in Ingestions
    BY <2>0 DEF Message
  <2>3. msg' = [msg EXCEPT ![m] = v]
    BY <2>0, <2>1 DEF WorkOK, MsgOK, Message
  <2>4. MsgOK' /\ \A k \in Messages : msg[k].ing \in Ingestions => msg'[k].ing \in Ingestions
    <3> HIDE DEF v
    <3> QED
      BY <2>2, <2>3, MessageType DEF WorkOK
  <2>5. UNCHANGED <<run, job>>
    BY <1>2 DEF Upload
  <2> QED
    BY <2>4, <2>5 DEF WorkOK, RunOK, JobOK
<1>3. ASSUME NEW r \in Runs, NEW i \in Ingestions, RequestTranscription(r, i) PROVE WorkOK'
  <2> DEFINE v == [at |-> "mark", ing |-> i, msg |-> NoMessage]
  <2>1. run' = [run EXCEPT ![r] = v] /\ UNCHANGED <<msg, job>>
    BY <1>3 DEF RequestTranscription
  <2>2. /\ v \in [at : {"idle", "read", "mark", "dispatch", "fetch", "backend"},
                  ing : Ingestions \cup {NoIngestion}, msg : Messages \cup {NoMessage}]
        /\ v.ing = i /\ v.msg = NoMessage
    OBVIOUS
  <2> HIDE DEF v
  <2>3. RunOK'
    BY <2>1, <2>2, RunType DEF WorkOK
  <2> QED
    BY <2>1, <2>3 DEF WorkOK, MsgOK, JobOK
<1>4. ASSUME NEW r \in Runs, NEW m \in Messages, ReceiveTrigger(r, m) PROVE WorkOK'
  <2> DEFINE v == [at |-> "read", ing |-> msg[m].ing, msg |-> m]
             n == msg[m].receives + 1
             w == [[msg[m] EXCEPT !.state = "inflight"] EXCEPT !.receives = n]
  <2>1. /\ run' = [run EXCEPT ![r] = v] /\ UNCHANGED job
        /\ msg[m] \in Message /\ msg[m].ing \in Ingestions
        /\ msg[m].receives < MaxReceives
    BY <1>4 DEF ReceiveTrigger, WorkOK, MsgOK
  <2>a. msg[m].receives \in 0 .. MaxReceives
    BY <2>1 DEF Message
  <2>b. n \in 0 .. MaxReceives
    BY <2>1, <2>a, IngestionAssumption
  <2>2. w \in Message /\ w.ing = msg[m].ing
    <3> HIDE DEF n
    <3> QED
      BY <2>1, <2>b DEF Message
  <2>3. msg' = [msg EXCEPT ![m] = w]
    BY <1>4 DEF ReceiveTrigger, WorkOK, MsgOK
  <2>4. /\ v \in [at : {"idle", "read", "mark", "dispatch", "fetch", "backend"},
                  ing : Ingestions \cup {NoIngestion}, msg : Messages \cup {NoMessage}]
        /\ v.ing = msg[m].ing /\ v.msg = m
    BY <2>1
  <2> HIDE DEF v, w
  <2>5. MsgOK' /\ \A k \in Messages : msg[k].ing \in Ingestions => msg'[k].ing \in Ingestions
    BY <2>1, <2>2, <2>3, MessageType DEF WorkOK
  <2>6. RunOK'
    BY <2>1, <2>4, <2>5, RunType DEF WorkOK
  <2> QED
    BY <2>1, <2>5, <2>6 DEF WorkOK, JobOK
<1>5. ASSUME NEW r \in Runs, MarkPending(r) PROVE WorkOK'
  <2>1. /\ run[r].at # "idle" /\ UNCHANGED <<msg, job>>
        /\ MoveRun(r, "fetch") \/ MoveRun(r, "dispatch")
    BY <1>5 DEF MarkPending
  <2> QED
    BY <2>1, MoveType DEF WorkOK, MsgOK, JobOK
<1>6. ASSUME NEW r \in Runs, EndRun(r), UNCHANGED job PROVE WorkOK'
  BY <1>6, EndRunType DEF WorkOK, JobOK
<1>7. ASSUME NEW r \in Runs, FetchAudio(r) \/ BackendAnswers(r) \/ NoTranscriber(r)
      PROVE  WorkOK'
  <2>1. CASE EndRun(r)
    BY <1>6, <1>7, <2>1 DEF FetchAudio, BackendAnswers, NoTranscriber
  <2>2. CASE run[r].at # "idle" /\ MoveRun(r, "backend") /\ UNCHANGED <<msg, job>>
    BY <2>2, MoveType DEF WorkOK, MsgOK, JobOK
  <2> QED
    BY <1>7, <2>1, <2>2 DEF FetchAudio, BackendAnswers, NoTranscriber
<1>8. ASSUME NEW r \in Runs, ReadRecord(r) PROVE WorkOK'
  <2>1. CASE EndRun(r)
    BY <1>6, <1>8, <2>1 DEF ReadRecord
  <2>2. CASE run[r].at # "idle" /\ MoveRun(r, "mark") /\ UNCHANGED <<msg, job>>
    BY <2>2, MoveType DEF WorkOK, MsgOK, JobOK
  <2> QED
    BY <1>8, <2>1, <2>2 DEF ReadRecord
<1>9. ASSUME NEW r \in Runs, DispatchInline(r) \/ RunDies(r) PROVE WorkOK'
  <2>1. CASE DispatchInline(r)
    BY <2>1, MoveType DEF DispatchInline, WorkOK, MsgOK, JobOK
  <2>2. CASE RunDies(r)
    BY <2>2, IdleRunType DEF RunDies, WorkOK, MsgOK, JobOK
  <2> QED
    BY <1>9, <2>1, <2>2
<1>10. ASSUME NEW r \in Runs, SubmitBatchJob(r) \/ SubmitFails(r) PROVE WorkOK'
  <2>1. run[r].ing \in Ingestions
    BY <1>10 DEF SubmitBatchJob, SubmitFails, WorkOK, RunOK
  <2>2. JobOK'
    BY <1>10, <2>1, NewJobType DEF SubmitBatchJob, SubmitFails, WorkOK
  <2>3. MsgOK' /\ RunOK'
    <3>1. CASE SubmitBatchJob(r)
      BY <3>1, EndRunType DEF SubmitBatchJob
    <3>2. CASE SubmitFails(r)
      BY <3>2, IdleRunType DEF SubmitFails, WorkOK, MsgOK
    <3> QED
      BY <1>10, <3>1, <3>2
  <2> QED
    BY <2>2, <2>3 DEF WorkOK
<1>11. ASSUME NEW m \in Messages, TriggerReappears(m) PROVE WorkOK'
  <2> DEFINE w == [msg[m] EXCEPT !.state =
                     IF msg[m].receives < MaxReceives THEN "queued" ELSE "dlq"]
  <2>1. msg[m] \in Message /\ msg[m].ing \in Ingestions /\ UNCHANGED <<run, job>>
    BY <1>11 DEF TriggerReappears, WorkOK, MsgOK
  <2>2. w \in Message /\ w.ing \in Ingestions
    BY <2>1 DEF Message
  <2>3. msg' = [msg EXCEPT ![m] = w]
    BY <1>11 DEF TriggerReappears, WorkOK, MsgOK
  <2> HIDE DEF w
  <2>4. MsgOK' /\ \A k \in Messages : msg[k].ing \in Ingestions => msg'[k].ing \in Ingestions
    BY <2>2, <2>3, MessageType DEF WorkOK
  <2> QED
    BY <2>1, <2>4 DEF WorkOK, RunOK, JobOK
<1>12. ASSUME NEW j \in Jobs, JobStep(j) \/ JobDies(j) PROVE WorkOK'
  <2>1. UNCHANGED <<msg, run>>
    BY <1>12 DEF JobStep, JobStarts, JobEnds, JobDies
  <2>2. JobOK'
    <3>1. CASE JobStarts(j)
      <4> DEFINE v == [job[j] EXCEPT !.at = "running"]
      <4>1. /\ v \in [at : {"none", "submitted", "running"},
                      ing : Ingestions \cup {NoIngestion}]
            /\ v.at = "running" /\ v.ing \in Ingestions
        BY <3>1 DEF JobStarts, WorkOK, JobOK
      <4>2. job' = [job EXCEPT ![j] = v]
        BY <3>1 DEF JobStarts, WorkOK, JobOK
      <4> HIDE DEF v
      <4> QED
        BY <4>1, <4>2, JobType DEF WorkOK
    <3>2. CASE JobEnds(j) \/ JobDies(j)
      BY <3>2, EndJobType DEF JobEnds, JobDies, WorkOK
    <3> QED
      BY <1>12, <3>1, <3>2 DEF JobStep
  <2> QED
    BY <2>1, <2>2 DEF WorkOK, MsgOK, RunOK
<1>13. CASE UNCHANGED vars
  BY <1>0, <1>13 DEF vars
<1> QED
  BY <1>1, <1>2, <1>3, <1>4, <1>5, <1>7, <1>8, <1>9, <1>10, <1>11, <1>12, <1>13
     DEF Next, TranscriptionStep, WorkerStep

\* Every step keeps the types of rows, uploads and events.
LEMMA NextKeepsTableOK == TypeOK /\ [Next]_vars => TableOK'
<1> SUFFICES ASSUME TypeOK, [Next]_vars PROVE TableOK'
  OBVIOUS
<1> USE TypeOKParts
<1>1. ASSUME NEW i \in Ingestions, CreateIngestion(i) PROVE TableOK'
  BY <1>1 DEF CreateIngestion, TableOK, uploadVars
<1>2. ASSUME NEW i \in Ingestions, Upload(i) PROVE TableOK'
  <2>1. PICK n \in 1 .. 2 : notices' = [notices EXCEPT ![i] = @ + n]
    BY <1>2 DEF Upload
  <2>2. notices' \in [Ingestions -> Nat]
    BY <2>1 DEF TableOK
  <2>3. stored' \subseteq {k \in Ingestions : row[k].status # "absent"}
    BY <1>2 DEF Upload, TableOK
  <2> QED
    BY <1>2, <2>2, <2>3 DEF Upload, TableOK
<1>3. ASSUME NEW i \in Ingestions, HandleNotice(i) PROVE TableOK'
  <2>1. notices' \in [Ingestions -> Nat]
    BY <1>3 DEF HandleNotice, TableOK
  <2>2. CASE MarkCondition(i)
    BY <1>3, <2>1, <2>2 DEF HandleNotice, TableOK
  <2>3. CASE ~MarkCondition(i)
    BY <1>3, <2>1, <2>3 DEF HandleNotice, TableOK
  <2> QED
    BY <2>2, <2>3
<1>4. ASSUME NEW i \in Ingestions, Publish(i) PROVE TableOK'
  BY <1>4 DEF Publish, TableOK
<1>5. ASSUME NEW i \in Ingestions, PublishFails(i) PROVE TableOK'
  BY <1>5, IngestionAssumption DEF PublishFails, Fault, TableOK
<1>6. ASSUME NEW r \in Runs, NEW i \in Ingestions, RequestTranscription(r, i) PROVE TableOK'
  BY <1>6, RacedType DEF RequestTranscription
<1>7. ASSUME NEW r \in Runs, MarkPending(r) \/ BackendAnswers(r) PROVE TableOK'
  <2>1. run[r].ing \in Ingestions
    BY <1>7 DEF MarkPending, BackendAnswers, WorkOK, RunOK
  <2>2. UNCHANGED <<stored, notices, publishing, published, raced, faults>>
    BY <1>7 DEF MarkPending, BackendAnswers, uploadVars
  <2>3. \E v \in {"pending", "succeeded", "failed"} : SetTranscript(run[r].ing, v)
    BY <1>7 DEF MarkPending, BackendAnswers
  <2> QED
    BY <2>1, <2>2, <2>3, SetTranscriptType
<1>8. ASSUME NEW r \in Runs, FetchAudio(r) PROVE TableOK'
  <2>1. run[r].ing \in Ingestions
    BY <1>8 DEF FetchAudio, WorkOK, RunOK
  <2>2. UNCHANGED <<stored, notices, publishing, published, raced, faults>>
    BY <1>8 DEF FetchAudio, uploadVars
  <2>3. CASE SetTranscript(run[r].ing, "failed")
    BY <2>1, <2>2, <2>3, SetTranscriptType
  <2>4. CASE UNCHANGED row
    BY <2>2, <2>4 DEF TableOK
  <2> QED
    BY <1>8, <2>3, <2>4 DEF FetchAudio
<1>9. ASSUME NEW r \in Runs, ReadRecord(r) PROVE TableOK'
  <2>1. run[r].ing \in Ingestions
    BY <1>9 DEF ReadRecord, WorkOK, RunOK
  <2> QED
    BY <1>9, <2>1, RacedType DEF ReadRecord
<1>10. ASSUME UNCHANGED <<row, uploadVars, raced>>, faults' = faults \/ \E k : Fault(k)
       PROVE  TableOK'
  BY <1>10, RacedType
<1>11. ASSUME NEW r \in Runs,
              \/ SubmitBatchJob(r) \/ SubmitFails(r) \/ DispatchInline(r)
              \/ NoTranscriber(r) \/ RunDies(r)
       PROVE  TableOK'
  BY <1>10, <1>11 DEF SubmitBatchJob, SubmitFails, DispatchInline, NoTranscriber, RunDies
<1>12. ASSUME NEW r \in Runs, NEW m \in Messages, ReceiveTrigger(r, m) PROVE TableOK'
  BY <1>10, <1>12 DEF ReceiveTrigger
<1>13. ASSUME NEW m \in Messages, TriggerReappears(m) PROVE TableOK'
  BY <1>10, <1>13 DEF TriggerReappears
<1>14. ASSUME NEW j \in Jobs, JobStarts(j) PROVE TableOK'
  <2>1. job[j].ing \in Ingestions
    BY <1>14 DEF JobStarts, WorkOK, JobOK
  <2> QED
    BY <1>14, <2>1 DEF JobStarts, TableOK, uploadVars
<1>15. ASSUME NEW j \in Jobs, JobEnds(j) PROVE TableOK'
  <2>1. job[j].ing \in Ingestions
    BY <1>15 DEF JobEnds, WorkOK, JobOK
  <2> QED
    BY <1>15, <2>1, SetTranscriptType DEF JobEnds, uploadVars
<1>16. ASSUME NEW j \in Jobs, JobDies(j) PROVE TableOK'
  BY <1>10, <1>16 DEF JobDies
<1>17. CASE UNCHANGED vars
  BY <1>10, <1>17 DEF vars
<1> QED
  BY <1>1, <1>2, <1>3, <1>4, <1>5, <1>6, <1>7, <1>8, <1>9, <1>11, <1>12, <1>13,
     <1>14, <1>15, <1>16, <1>17
     DEF Next, TranscriptionStep, WorkerStep, RouterStep, JobStep

\* Types are kept, whatever order requests, deliveries, jobs and faults come in.
THEOREM TypeCorrectness == Spec => []TypeOK
<1>1. Init => TypeOK
  BY InitEstablishesIInv DEF IInv
<1>2. TypeOK /\ [Next]_vars => TypeOK'
  <2> SUFFICES ASSUME TypeOK, [Next]_vars PROVE TypeOK'
    OBVIOUS
  <2>1. WorkOK' /\ TableOK'
    BY TypeOKParts, NextKeepsWorkOK, NextKeepsTableOK
  <2> QED
    BY <2>1 DEF TypeOK, WorkOK, MsgOK, RunOK, JobOK, TableOK, Message
<1> QED
  BY <1>1, <1>2, PTL DEF Spec

-----------------------------------------------------------------------------
(* Announcements.                                                          *)

\* Only event-router and the jobs change a status that is not "absent", and a
\* status that is "uploaded" stays.
LEMMA UploadedStays ==
    ASSUME TypeOK, [Next]_vars, NEW i \in Ingestions, row[i].status = "uploaded"
    PROVE  row'[i].status = "uploaded"
<1> USE DEF TypeOK
<1>1. ASSUME NEW k, NEW v, SetTranscript(k, v) PROVE row'[i].status = "uploaded"
  BY <1>1 DEF SetTranscript
<1>2. CASE UNCHANGED row
  BY <1>2
<1>3. ASSUME NEW k \in Ingestions, CreateIngestion(k) \/ HandleNotice(k)
      PROVE  row'[i].status = "uploaded"
  BY <1>3 DEF CreateIngestion, HandleNotice
<1>4. ASSUME NEW j \in Jobs, JobStarts(j) PROVE row'[i].status = "uploaded"
  BY <1>4 DEF JobStarts
<1>5. \/ UNCHANGED row
      \/ \E k, v : SetTranscript(k, v)
      \/ \E k \in Ingestions : CreateIngestion(k) \/ HandleNotice(k)
      \/ \E j \in Jobs : JobStarts(j)
  BY DEF Next, vars, TranscriptionStep, WorkerStep, RouterStep, JobStep,
         Upload, Publish, PublishFails, RequestTranscription, ReceiveTrigger,
         MarkPending, FetchAudio, BackendAnswers, ReadRecord, SubmitBatchJob,
         SubmitFails, DispatchInline, NoTranscriber, RunDies, TriggerReappears,
         JobEnds, JobDies
<1> QED
  BY <1>1, <1>2, <1>3, <1>4, <1>5

\* Only event-router announces.
LEMMA OnlyRouterAnnounces ==
    ASSUME [Next]_vars
    PROVE  \/ UNCHANGED <<publishing, published>>
           \/ \E k \in Ingestions : HandleNotice(k) \/ Publish(k) \/ PublishFails(k)
BY DEF Next, vars, uploadVars, TranscriptionStep, WorkerStep, RouterStep, JobStep,
       CreateIngestion, Upload, RequestTranscription, ReceiveTrigger,
       MarkPending, FetchAudio, BackendAnswers, ReadRecord, SubmitBatchJob,
       SubmitFails, DispatchInline, NoTranscriber, RunDies, TriggerReappears,
       JobStarts, JobEnds, JobDies

\* The condition of _mark_uploaded lets through one event per row.
LEMMA NextKeepsAnnounced ==
    TypeOK /\ AnnouncedAfterMark /\ AnnouncedOnce /\ [Next]_vars
        => AnnouncedAfterMark' /\ AnnouncedOnce'
<1> SUFFICES ASSUME TypeOK, AnnouncedAfterMark, AnnouncedOnce, [Next]_vars,
                    NEW i \in Ingestions
             PROVE  /\ i \in publishing' => published'[i] = 0
                    /\ row'[i].status # "uploaded" => published'[i] = 0
                    /\ published'[i] <= 1
  BY DEF AnnouncedAfterMark, AnnouncedOnce
<1>1. /\ i \in publishing => published[i] = 0
      /\ row[i].status # "uploaded" => published[i] = 0
      /\ published[i] <= 1
      /\ row[i].status = "uploaded" => row'[i].status = "uploaded"
      /\ i \in publishing => row[i].status = "uploaded"
  BY UploadedStays DEF AnnouncedAfterMark, AnnouncedOnce, TypeOK
<1>2. CASE UNCHANGED <<publishing, published>>
  BY <1>1, <1>2
<1>3. ASSUME NEW k \in Ingestions, HandleNotice(k)
      PROVE  /\ i \in publishing' => published'[i] = 0
             /\ row'[i].status # "uploaded" => published'[i] = 0
             /\ published'[i] <= 1
  BY <1>1, <1>3 DEF HandleNotice, MarkCondition
<1>4. ASSUME NEW k \in Ingestions, Publish(k)
      PROVE  /\ i \in publishing' => published'[i] = 0
             /\ row'[i].status # "uploaded" => published'[i] = 0
             /\ published'[i] <= 1
  <2>1. CASE i = k
    BY <1>1, <1>4, <2>1 DEF Publish, TypeOK
  <2>2. CASE i # k
    BY <1>1, <1>4, <2>2 DEF Publish, TypeOK
  <2> QED
    BY <2>1, <2>2
<1>5. ASSUME NEW k \in Ingestions, PublishFails(k)
      PROVE  /\ i \in publishing' => published'[i] = 0
             /\ row'[i].status # "uploaded" => published'[i] = 0
             /\ published'[i] <= 1
  BY <1>1, <1>5 DEF PublishFails
<1> QED
  BY <1>2, <1>3, <1>4, <1>5, OnlyRouterAnnounces

\* However often S3 delivers its events and Lambda retries them, an upload is
\* announced at most once: the condition of _mark_uploaded lets one event through.
THEOREM AnnouncedAtMostOnce == Spec => []AnnouncedOnce
<1>1. Init => AnnouncedAfterMark /\ AnnouncedOnce
  BY InitEstablishesIInv DEF IInv
<1>2. Spec => [](AnnouncedAfterMark /\ AnnouncedOnce)
  BY <1>1, TypeCorrectness, NextKeepsAnnounced, PTL DEF Spec
<1> QED
  BY <1>2, PTL

-----------------------------------------------------------------------------
(* Who is at work.                                                         *)

\* Nobody begins to work on i, and a transcript is there only if it was, or
\* nobody works on i any more.
Calm(i) ==
    /\ \A r \in Runs : AtWork(r, i)' => AtWork(r, i)
    /\ \A j \in Jobs : job'[j].ing = i => job[j].ing = i
    /\ row'[i].transcript = "succeeded" =>
         row[i].transcript = "succeeded" \/ ~InFlight(i)'

\* Such steps keep i in one pair of hands.
LEMMA CalmKeepsSingle ==
    ASSUME NEW i, Single(i), Calm(i) PROVE Single(i)'
BY DEF Calm, Single, InFlight, AtWork

\* Who goes past the check when nobody is in flight is the only one.
LEMMA StartIsSingle ==
    ASSUME TypeOK, NEW r \in Runs, NEW i \in Ingestions, ~InFlight(i), Startable(i),
           NEW v, run' = [run EXCEPT ![r] = v], UNCHANGED <<row, job>>
    PROVE  Single(i)'
BY DEF TypeOK, Startable, Single, InFlight, AtWork

\* The job takes over from the execution that submitted it.
LEMMA HandoverKeepsSingle ==
    ASSUME TypeOK, NEW r \in Runs, NEW i \in Ingestions, Single(i),
           AtWork(r, run[r].ing), NewJob(run[r].ing),
           run' = [run EXCEPT ![r] = IdleRun], UNCHANGED row
    PROVE  Single(i)'
<1>1. PICK j \in Jobs : /\ job[j].at = "none"
                        /\ job' = [job EXCEPT ![j] = [at |-> "submitted", ing |-> run[r].ing]]
  BY DEF NewJob
<1>2. ~AtWork(r, i)' /\ \A q \in Runs : AtWork(q, i)' => q # r /\ AtWork(q, i)
  BY DEF TypeOK, AtWork, IdleRun
<1>3. \A k \in Jobs : job'[k].ing = i =>
         job[k].ing = i \/ (k = j /\ run[r].ing = i)
  BY <1>1 DEF TypeOK
<1>4. CASE run[r].ing = i
  <2>1. AtWork(r, i)
    BY <1>4
  <2>2. \A q \in Runs : ~AtWork(q, i)'
    BY <1>2, <2>1 DEF Single
  <2>3. \A k \in Jobs : job'[k].ing = i => k = j
    BY <1>3, <2>1 DEF Single
  <2>4. row'[i].transcript # "succeeded"
    BY <2>1 DEF Single, InFlight, AtWork
  <2> QED
    BY <2>2, <2>3, <2>4 DEF Single
<1>5. CASE run[r].ing # i
  <2>1. Calm(i)
    BY <1>2, <1>3, <1>5 DEF Calm
  <2> QED
    BY <2>1, CalmKeepsSingle
<1> QED
  BY <1>4, <1>5

\* Executions that end begin nothing.
LEMMA EndRunIsCalm ==
    ASSUME TypeOK, NEW r \in Runs, run' = [run EXCEPT ![r] = IdleRun], UNCHANGED job,
           NEW i \in Ingestions,
           row'[i].transcript = "succeeded" => row[i].transcript = "succeeded"
    PROVE  Calm(i)
BY DEF TypeOK, Calm, AtWork, IdleRun

\* A run at work that moves on was at work before.
LEMMA MoveIsCalm ==
    ASSUME TypeOK, NEW r \in Runs, run[r].at \notin {"idle", "read"},
           NEW at, MoveRun(r, at), UNCHANGED job,
           NEW i \in Ingestions,
           row'[i].transcript = "succeeded" => row[i].transcript = "succeeded"
    PROVE  Calm(i)
BY DEF TypeOK, Calm, AtWork, MoveRun

\* A verdict comes from the only one at work.
LEMMA VerdictIsCalm ==
    ASSUME TypeOK, NEW i \in Ingestions, Single(i), NEW k \in Ingestions, NEW v,
           SetTranscript(k, v),
           \/ \E r \in Runs : AtWork(r, k) /\ run' = [run EXCEPT ![r] = IdleRun]
                                /\ UNCHANGED job
           \/ \E j \in Jobs : job[j].ing = k /\ EndJob(j) /\ UNCHANGED run
    PROVE  Calm(i)
<1>0. /\ i # k => row'[i].transcript = row[i].transcript
      /\ NoIngestion \notin Ingestions
  BY IngestionAssumption DEF SetTranscript, TypeOK
<1>1. ASSUME NEW r \in Runs, AtWork(r, k), run' = [run EXCEPT ![r] = IdleRun],
             UNCHANGED job
      PROVE  Calm(i)
  <2>1. \A q \in Runs : AtWork(q, i)' => q # r /\ AtWork(q, i)
    BY <1>1 DEF TypeOK, AtWork, IdleRun
  <2>2. i = k => ~InFlight(i)'
    BY <1>1, <2>1 DEF Single, InFlight, AtWork
  <2> QED
    BY <1>0, <1>1, <2>1, <2>2 DEF Calm
<1>2. ASSUME NEW j \in Jobs, job[j].ing = k, EndJob(j), UNCHANGED run
      PROVE  Calm(i)
  <2>1. \A q \in Jobs : job'[q].ing = i => q # j /\ job[q].ing = i
    BY <1>0, <1>2 DEF TypeOK, EndJob, NoJob
  <2>2. i = k => ~InFlight(i)'
    BY <1>2, <2>1 DEF Single, InFlight, AtWork
  <2>3. \A q \in Runs : AtWork(q, i)' => AtWork(q, i)
    BY <1>2 DEF AtWork
  <2> QED
    BY <1>0, <2>1, <2>2, <2>3 DEF Calm
<1> QED
  BY <1>1, <1>2

\* Nobody starts on an ingestion in flight without its being noted as raced.
LEMMA NextKeepsOneInFlight == TypeOK /\ OneInFlight /\ [Next]_vars => OneInFlight'
<1> SUFFICES ASSUME TypeOK, OneInFlight, [Next]_vars, NEW i \in Ingestions, i \notin raced'
             PROVE  Single(i)'
  BY DEF OneInFlight
<1>0. raced \subseteq raced'
  BY DEF Next, vars, uploadVars, TranscriptionStep, WorkerStep, RouterStep, JobStep,
         CreateIngestion, Upload, HandleNotice, Publish, PublishFails,
         RequestTranscription, ReceiveTrigger, MarkPending, FetchAudio, BackendAnswers,
         ReadRecord, SubmitBatchJob, SubmitFails, DispatchInline, NoTranscriber,
         RunDies, TriggerReappears, JobStarts, JobEnds, JobDies, NoteRace
<1>1. Single(i)
  BY <1>0 DEF OneInFlight
<1>2. ASSUME Calm(i) PROVE Single(i)'
  BY <1>1, <1>2, CalmKeepsSingle
<1>3. ASSUME UNCHANGED <<run, job>>, row'[i].transcript = row[i].transcript
      PROVE  Single(i)'
  <2>1. Calm(i)
    BY <1>3 DEF Calm, AtWork
  <2> QED
    BY <1>2, <2>1
<1>4. ASSUME NEW k \in Ingestions,
             \/ CreateIngestion(k) \/ Upload(k) \/ RouterStep(k) \/ PublishFails(k)
      PROVE  Single(i)'
  <2>1. row'[i].transcript = row[i].transcript /\ UNCHANGED <<run, job>>
    BY <1>4 DEF CreateIngestion, Upload, RouterStep, HandleNotice, Publish,
                PublishFails, TypeOK
  <2> QED
    BY <1>3, <2>1
<1>5. ASSUME NEW r \in Runs, NEW k \in Ingestions, RequestTranscription(r, k)
      PROVE  Single(i)'
  <2> DEFINE v == [at |-> "mark", ing |-> k, msg |-> NoMessage]
  <2>1. /\ run' = [run EXCEPT ![r] = v] /\ v.ing = k
        /\ Startable(k) /\ NoteRace(k) /\ UNCHANGED <<row, job>>
    BY <1>5 DEF RequestTranscription
  <2> HIDE DEF v
  <2>2. CASE k = i
    <3>1. ~InFlight(i)
      BY <2>1, <2>2 DEF NoteRace
    <3> QED
      BY <2>1, <2>2, <3>1, StartIsSingle
  <2>3. CASE k # i
    <3>1. Calm(i)
      BY <2>1, <2>3 DEF Calm, AtWork, TypeOK
    <3> QED
      BY <1>2, <3>1
  <2> QED
    BY <2>2, <2>3
<1>6. ASSUME NEW r \in Runs, NEW m \in Messages, ReceiveTrigger(r, m) PROVE Single(i)'
  <2>1. Calm(i)
    BY <1>6 DEF ReceiveTrigger, Calm, AtWork, TypeOK
  <2> QED
    BY <1>2, <2>1
<1>7. ASSUME NEW r \in Runs, ReadRecord(r) PROVE Single(i)'
  <2>1. run[r].ing \in Ingestions /\ run[r].at = "read" /\ UNCHANGED <<row, job>>
    BY <1>7 DEF ReadRecord, TypeOK
  <2>2. CASE Startable(run[r].ing) /\ run[r].ing = i
    <3> DEFINE v == [run[r] EXCEPT !.at = "mark"]
    <3>1. ~InFlight(i)
      BY <1>7, <2>2 DEF ReadRecord, NoteRace
    <3>2. run' = [run EXCEPT ![r] = v]
      BY <1>7, <2>2 DEF ReadRecord, MoveRun, TypeOK
    <3> HIDE DEF v
    <3> QED
      BY <2>1, <2>2, <3>1, <3>2, StartIsSingle
  <2>3. CASE Startable(run[r].ing) /\ run[r].ing # i
    <3>1. Calm(i)
      BY <1>7, <2>1, <2>3 DEF ReadRecord, MoveRun, Calm, AtWork, TypeOK
    <3> QED
      BY <1>2, <3>1
  <2>4. CASE ~Startable(run[r].ing)
    <3>1. Calm(i)
      BY <1>7, <2>1, <2>4, EndRunIsCalm DEF ReadRecord, EndRun
    <3> QED
      BY <1>2, <3>1
  <2> QED
    BY <2>2, <2>3, <2>4
<1>8. ASSUME NEW r \in Runs, MarkPending(r) \/ DispatchInline(r) PROVE Single(i)'
  <2>1. /\ run[r].at \notin {"idle", "read"} /\ UNCHANGED job
        /\ \E at : MoveRun(r, at)
    BY <1>8 DEF MarkPending, DispatchInline
  <2>2. row'[i].transcript = "succeeded" => row[i].transcript = "succeeded"
    BY <1>8 DEF MarkPending, DispatchInline, SetTranscript, TypeOK
  <2> QED
    BY <1>2, <2>1, <2>2, MoveIsCalm
<1>9. ASSUME NEW r \in Runs, FetchAudio(r) PROVE Single(i)'
  <2>1. run[r].at \notin {"idle", "read"} /\ UNCHANGED job
    BY <1>9 DEF FetchAudio
  <2>2. row'[i].transcript = "succeeded" => row[i].transcript = "succeeded"
    <3>1. CASE UNCHANGED row
      BY <3>1
    <3>2. CASE SetTranscript(run[r].ing, "failed")
      BY <3>2 DEF SetTranscript, TypeOK
    <3> QED
      BY <1>9, <3>1, <3>2 DEF FetchAudio
  <2> QED
    BY <1>2, <1>9, <2>1, <2>2, MoveIsCalm, EndRunIsCalm DEF FetchAudio, EndRun
<1>10. ASSUME NEW r \in Runs, BackendAnswers(r) PROVE Single(i)'
  <2>1. /\ run[r].ing \in Ingestions /\ AtWork(r, run[r].ing)
        /\ run' = [run EXCEPT ![r] = IdleRun] /\ UNCHANGED job
        /\ \E v : SetTranscript(run[r].ing, v)
    BY <1>10 DEF BackendAnswers, EndRun, AtWork, TypeOK
  <2> QED
    BY <1>1, <1>2, <2>1, VerdictIsCalm
<1>11. ASSUME NEW r \in Runs, NoTranscriber(r) \/ RunDies(r) PROVE Single(i)'
  BY <1>2, <1>11, EndRunIsCalm DEF NoTranscriber, RunDies, EndRun
<1>12. ASSUME NEW r \in Runs, SubmitBatchJob(r) \/ SubmitFails(r) PROVE Single(i)'
  <2>1. /\ AtWork(r, run[r].ing) /\ UNCHANGED row
        /\ run' = [run EXCEPT ![r] = IdleRun]
        /\ NewJob(run[r].ing) \/ UNCHANGED job
    BY <1>12 DEF SubmitBatchJob, SubmitFails, EndRun, AtWork
  <2> QED
    BY <1>1, <1>2, <2>1, EndRunIsCalm, HandoverKeepsSingle
<1>13. ASSUME NEW m \in Messages, TriggerReappears(m) PROVE Single(i)'
  BY <1>3, <1>13 DEF TriggerReappears
<1>14. ASSUME NEW j \in Jobs, JobStarts(j) PROVE Single(i)'
  <2>1. Calm(i)
    BY <1>14 DEF JobStarts, Calm, AtWork, TypeOK
  <2> QED
    BY <1>2, <2>1
<1>15. ASSUME NEW j \in Jobs, JobEnds(j) PROVE Single(i)'
  <2>1. /\ job[j].ing \in Ingestions /\ EndJob(j) /\ UNCHANGED run
        /\ \E v : SetTranscript(job[j].ing, v)
    BY <1>15 DEF JobEnds, TypeOK
  <2> QED
    BY <1>1, <1>2, <2>1, VerdictIsCalm
<1>16. ASSUME NEW j \in Jobs, JobDies(j) PROVE Single(i)'
  <2>1. Calm(i)
    BY <1>16, IngestionAssumption DEF JobDies, EndJob, NoJob, Calm, AtWork, TypeOK
  <2> QED
    BY <1>2, <2>1
<1>17. CASE UNCHANGED vars
  BY <1>3, <1>17 DEF vars
<1> QED
  BY <1>4, <1>5, <1>6, <1>7, <1>8, <1>9, <1>10, <1>11, <1>12, <1>13, <1>14, <1>15,
     <1>16, <1>17 DEF Next, TranscriptionStep, WorkerStep, JobStep

\* Only who is in flight for an ingestion writes its transcript_status.
LEMMA OnlyWorkersWrite ==
    ASSUME TypeOK, [Next]_vars, NEW i \in Ingestions,
           row'[i].transcript # row[i].transcript
    PROVE  InFlight(i)
<1>1. ASSUME NEW r \in Runs, MarkPending(r) \/ FetchAudio(r) \/ BackendAnswers(r)
      PROVE  InFlight(i)
  <2>1. run[r].ing = i
    BY <1>1 DEF MarkPending, FetchAudio, BackendAnswers, SetTranscript, TypeOK
  <2> QED
    BY <1>1, <2>1 DEF MarkPending, FetchAudio, BackendAnswers, InFlight
<1>2. ASSUME NEW j \in Jobs, JobStarts(j) \/ JobEnds(j) PROVE InFlight(i)
  <2>1. job[j].ing = i
    BY <1>2 DEF JobStarts, JobEnds, SetTranscript, TypeOK
  <2> QED
    BY <2>1 DEF InFlight
<1>3. ASSUME NEW k \in Ingestions, CreateIngestion(k) \/ HandleNotice(k) PROVE FALSE
  BY <1>3 DEF CreateIngestion, HandleNotice, TypeOK
<1> QED
  BY <1>1, <1>2, <1>3
     DEF Next, vars, TranscriptionStep, WorkerStep, RouterStep, JobStep,
         Upload, Publish, PublishFails, RequestTranscription, ReceiveTrigger,
         ReadRecord, SubmitBatchJob, SubmitFails, DispatchInline, NoTranscriber,
         RunDies, TriggerReappears, JobDies

\* A transcript is lost only when two executions worked on the ingestion at once:
\* nobody who is alone writes over a verdict, neither a late job nor a late run.
THEOREM SucceededStays == Spec => SucceededStaysUnlessRaced
<1>1. Init => OneInFlight
  BY InitEstablishesIInv DEF IInv
<1>2. Spec => [](TypeOK /\ OneInFlight)
  BY <1>1, TypeCorrectness, NextKeepsOneInFlight, PTL DEF Spec
<1>3. ASSUME TypeOK, OneInFlight, [Next]_vars
      PROVE  [\A i \in Ingestions :
                row[i].transcript = "succeeded" /\ i \notin raced =>
                    row'[i].transcript = "succeeded"]_vars
  <2> SUFFICES ASSUME NEW i \in Ingestions, row[i].transcript = "succeeded", i \notin raced
               PROVE  row'[i].transcript = "succeeded"
    OBVIOUS
  <2>1. ~InFlight(i)
    BY <1>3 DEF OneInFlight, Single
  <2> QED
    BY <1>3, <2>1, OnlyWorkersWrite
<1> QED
  BY <1>2, <1>3, PTL DEF Spec, SucceededStaysUnlessRaced

-----------------------------------------------------------------------------
(* Pending transcriptions.                                                 *)

\* Whoever is at work on i goes on, and i is pending only if it was, or if
\* somebody is at work on it.
LEMMA PendingIsKept ==
    ASSUME NEW i \in Ingestions,
           row[i].transcript = "pending" => InFlight(i),
           \A r \in Runs : AtWork(r, i) => AtWork(r, i)',
           \A j \in Jobs : job[j].ing = i => job'[j].ing = i,
           row'[i].transcript = "pending" => row[i].transcript = "pending" \/ InFlight(i)
    PROVE  (row[i].transcript = "pending" => InFlight(i))'
BY DEF InFlight, AtWork

\* Without faults, every step that takes a pending ingestion out of somebody's
\* hands gives it a verdict or passes it to a job.
LEMMA NextKeepsPending ==
    TypeOK /\ PendingIsWorkedOn /\ [Next]_vars => PendingIsWorkedOn'
<1> SUFFICES ASSUME TypeOK, PendingIsWorkedOn, [Next]_vars, faults' = 0,
                    NEW i \in Ingestions
             PROVE  (row[i].transcript = "pending" => InFlight(i))'
  BY DEF PendingIsWorkedOn
<1> DEFINE Kept == (row[i].transcript = "pending" => InFlight(i))'
           Worked == row[i].transcript = "pending" => InFlight(i)
           Written == row'[i].transcript = "pending" =>
                        row[i].transcript = "pending" \/ InFlight(i)
<1>0. ~\E k : Fault(k)
  BY IngestionAssumption DEF Fault, TypeOK
<1>1. UNCHANGED faults
  BY <1>0 DEF Next, vars, TranscriptionStep, WorkerStep, RouterStep, JobStep,
         CreateIngestion, Upload, HandleNotice, Publish, PublishFails,
         RequestTranscription, ReceiveTrigger, MarkPending, FetchAudio, BackendAnswers,
         ReadRecord, SubmitBatchJob, SubmitFails, DispatchInline, NoTranscriber,
         RunDies, TriggerReappears, JobStarts, JobEnds, JobDies
<1>2. Worked
  BY <1>1 DEF PendingIsWorkedOn
<1>3. Written
  BY OnlyWorkersWrite
<1>4. ASSUME \A r \in Runs : AtWork(r, i) => AtWork(r, i)',
             \A j \in Jobs : job[j].ing = i => job'[j].ing = i
      PROVE  Kept
  BY <1>2, <1>3, <1>4, PendingIsKept
<1>5. ASSUME row'[i].transcript # "pending" PROVE Kept
  BY <1>5
<1>6. ASSUME UNCHANGED <<run, job>> PROVE Kept
  <2> HIDE DEF Kept
  <2> QED
    BY <1>4, <1>6 DEF AtWork
<1> HIDE DEF Kept, Worked, Written
<1>7. ASSUME NEW r \in Runs, run[r].at \in {"idle", "read"}, NEW v,
             run' = [run EXCEPT ![r] = v], UNCHANGED job
      PROVE  Kept
  BY <1>4, <1>7 DEF AtWork, TypeOK
<1>8. ASSUME NEW r \in Runs, NEW at, at \notin {"idle", "read"}, MoveRun(r, at), UNCHANGED job
      PROVE  Kept
  BY <1>4, <1>8 DEF AtWork, MoveRun, TypeOK
<1>9. ASSUME NEW k \in Ingestions,
             \/ CreateIngestion(k) \/ Upload(k) \/ RouterStep(k) \/ PublishFails(k)
      PROVE  Kept
  BY <1>6, <1>9 DEF CreateIngestion, Upload, RouterStep, HandleNotice, Publish, PublishFails
<1>10. ASSUME NEW r \in Runs, NEW k \in Ingestions, RequestTranscription(r, k) PROVE Kept
  BY <1>7, <1>10 DEF RequestTranscription
<1>11. ASSUME NEW r \in Runs, NEW m \in Messages, ReceiveTrigger(r, m) PROVE Kept
  BY <1>7, <1>11 DEF ReceiveTrigger
<1>12. ASSUME NEW r \in Runs, ReadRecord(r) PROVE Kept
  <2>1. CASE EndRun(r)
    BY <1>7, <1>12, <2>1 DEF ReadRecord, EndRun
  <2>2. CASE MoveRun(r, "mark")
    BY <1>8, <1>12, <2>2 DEF ReadRecord
  <2> QED
    BY <1>12, <2>1, <2>2 DEF ReadRecord
<1>13. ASSUME NEW r \in Runs, MarkPending(r) \/ DispatchInline(r) PROVE Kept
  BY <1>8, <1>13 DEF MarkPending, DispatchInline
<1>14. ASSUME NEW r \in Runs, NEW v \in {"succeeded", "failed"},
              SetTranscript(run[r].ing, v), EndRun(r), UNCHANGED job
       PROVE  Kept
  <2>1. CASE run[r].ing = i
    BY <1>5, <1>14, <2>1 DEF SetTranscript, TypeOK
  <2>2. CASE run[r].ing # i
    BY <1>4, <1>14, <2>2 DEF EndRun, AtWork, TypeOK
  <2> QED
    BY <2>1, <2>2
<1>15. ASSUME NEW r \in Runs, FetchAudio(r) \/ BackendAnswers(r) PROVE Kept
  <2>1. CASE MoveRun(r, "backend") /\ UNCHANGED job
    BY <1>8, <2>1
  <2> QED
    BY <1>14, <1>15, <2>1 DEF FetchAudio, BackendAnswers
<1>16. ASSUME NEW r \in Runs, SubmitBatchJob(r) PROVE Kept
  <2>1. PICK j \in Jobs :
          /\ job[j].at = "none"
          /\ job' = [job EXCEPT ![j] = [at |-> "submitted", ing |-> run[r].ing]]
    BY <1>16 DEF SubmitBatchJob, NewJob
  <2>2. \A k \in Jobs : job[k].ing = i => job'[k].ing = i
    BY <2>1 DEF TypeOK
  <2>3. CASE run[r].ing = i
    <3>1. job'[j].ing = i
      BY <2>1, <2>3 DEF TypeOK
    <3> QED
      BY <3>1 DEF Kept, InFlight
  <2>4. CASE run[r].ing # i
    BY <1>4, <1>16, <2>2, <2>4 DEF SubmitBatchJob, EndRun, AtWork, TypeOK
  <2> QED
    BY <2>3, <2>4
<1>17. ASSUME NEW r \in Runs, SubmitFails(r) \/ NoTranscriber(r) \/ RunDies(r) PROVE FALSE
  BY <1>0, <1>17 DEF SubmitFails, NoTranscriber, RunDies
<1>18. ASSUME NEW m \in Messages, TriggerReappears(m) PROVE Kept
  BY <1>6, <1>18 DEF TriggerReappears
<1>19. ASSUME NEW j \in Jobs, JobStarts(j) PROVE Kept
  BY <1>4, <1>19 DEF JobStarts, AtWork, TypeOK
<1>20. ASSUME NEW j \in Jobs, JobEnds(j) PROVE Kept
  <2>1. PICK v \in {"succeeded", "failed"} : SetTranscript(job[j].ing, v)
    BY <1>20 DEF JobEnds
  <2>2. CASE job[j].ing = i
    BY <1>5, <2>1, <2>2 DEF SetTranscript, TypeOK
  <2>3. CASE job[j].ing # i
    BY <1>4, <1>20, <2>3 DEF JobEnds, EndJob, AtWork, TypeOK
  <2> QED
    BY <2>2, <2>3
<1>21. ASSUME NEW j \in Jobs, JobDies(j) PROVE FALSE
  BY <1>0, <1>21 DEF JobDies
<1>22. ASSUME UNCHANGED vars PROVE Kept
  BY <1>6, <1>22 DEF vars
<1> QED
  BY <1>9, <1>10, <1>11, <1>12, <1>13, <1>15, <1>16, <1>17, <1>18, <1>19, <1>20, <1>21,
     <1>22 DEF Next, TranscriptionStep, WorkerStep, JobStep, Kept

\* As long as nothing has failed, a pending transcription is in somebody's hands:
\* a request, an invocation or the job that took over from one.
THEOREM PendingIsInHand == Spec => []PendingIsWorkedOn
<1>1. Init => PendingIsWorkedOn
  BY InitEstablishesIInv DEF IInv
<1> QED
  BY <1>1, TypeCorrectness, NextKeepsPending, PTL DEF Spec
=============================================================================
