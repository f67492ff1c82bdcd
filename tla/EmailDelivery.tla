---------------------------- MODULE EmailDelivery ----------------------------
(***************************************************************************)
(* How an email leaves the system: notify of                               *)
(* src/src/services/notification.service.js, the "email" queue, the worker *)
(* of src/src/jobs/processors/email.processor.js, and the life of the      *)
(* processes that run it (server.js, worker.js, jobs/index.js).            *)
(*                                                                         *)
(* The state of an email is kept twice: the Notification row, and the job  *)
(* of BullMQ that is to change the row.  BullMQ delivers at least once: an *)
(* active job whose lock is lost, because its process died or Redis was    *)
(* away too long, goes back to the queue, and after MaxStalls of these it  *)
(* fails.  That part is external, read from how the processor counts on    *)
(* it.  Left out: the back-off, and the removal of old jobs.               *)
(***************************************************************************)
EXTENDS Naturals, FiniteSets

CONSTANTS
    Notes,       \* notifications
    Workers,     \* processes that run the email worker, one job at a time
    Attempts,    \* defaultJobOptions.attempts
    MaxStalls,   \* BullMQ's maxStalledCount
    Nobody       \* null

ASSUME AttemptsAssumption == Attempts \in Nat \ {0} /\ MaxStalls \in Nat
ASSUME NobodyAssumption == Nobody \notin Notes

VARIABLES
    status,      \* Notification.status, "none" before there is a row
    caller,      \* how far notify is
    job,         \* its job: state, attemptsMade and how often it stalled
    proc,        \* the processes
    run,         \* the job a worker executes, and whether it has its lock
    failing,     \* the "failed" handlers under way in a process
    sent,        \* emails that left for the recipient
    slips,       \* how often a sent email could not be recorded, or a lock was lost
    lost         \* rows whose caller failed or whose last update died with its process

vars == <<status, caller, job, proc, run, failing, sent, slips, lost>>

NoJob == [state |-> "none", made |-> 0, stalled |-> 0]
Resting == [note |-> Nobody, pc |-> "idle", locked |-> FALSE]

Init ==
    /\ status = [n \in Notes |-> "none"]
    /\ caller = [n \in Notes |-> "none"]
    /\ job = [n \in Notes |-> NoJob]
    /\ proc = [w \in Workers |-> "up"]
    /\ run = [w \in Workers |-> Resting]
    /\ failing = [w \in Workers |-> {}]
    /\ sent = [n \in Notes |-> 0]
    /\ slips = [n \in Notes |-> 0]
    /\ lost = {}

-----------------------------------------------------------------------------
(* notify.                                                                 *)

notify(n) ==
    /\ status[n] = "none"
    /\ status' = [status EXCEPT ![n] = "PENDING"]
    /\ \E channel \in {"EMAIL", "SOCKET", "PUSH"} : caller' = [caller EXCEPT ![n] = channel]
    /\ UNCHANGED <<job, proc, run, failing, sent, slips, lost>>

enqueue(n) ==
    /\ caller[n] = "EMAIL"
    /\ job' = [job EXCEPT ![n].state = "waiting"]
    /\ caller' = [caller EXCEPT ![n] = "done"]
    /\ UNCHANGED <<status, proc, run, failing, sent, slips, lost>>

\* markSent after a message to the socket, markFailed for a push.
outcomeUnlisted(channel) == IF channel = "SOCKET" THEN "DELIVERED" ELSE "FAILED"
outcomeOf(channel) == IF channel = "SOCKET" THEN "SENT" ELSE "FAILED"

\* Nobody confirms what emitToUser sends; a push is never delivered.
deliverNow(n) ==
    /\ caller[n] \in {"SOCKET", "PUSH"}
    /\ status' = [status EXCEPT ![n] = outcomeOf(caller[n])]
    /\ sent' = [sent EXCEPT ![n] = IF caller[n] = "SOCKET" THEN 1 ELSE 0]
    /\ caller' = [caller EXCEPT ![n] = "done"]
    /\ UNCHANGED <<job, proc, run, failing, slips, lost>>

\* The caller dies, or Redis refuses the job: nobody comes back to the row.
callerFails(n) ==
    /\ caller[n] \in {"EMAIL", "SOCKET", "PUSH"}
    /\ caller' = [caller EXCEPT ![n] = "done"]
    /\ lost' = lost \cup {n}
    /\ UNCHANGED <<status, job, proc, run, failing, sent, slips>>

-----------------------------------------------------------------------------
(* The processor.                                                          *)

At(w, pc) == run[w].pc = pc
Go(w, pc) == run' = [run EXCEPT ![w].pc = pc]
Rest(w) == run' = [run EXCEPT ![w] = Resting]

\* A closing worker finishes its job and takes no other one.
take(w, n) ==
    /\ proc[w] = "up" /\ run[w] = Resting
    /\ job[n].state = "waiting"
    /\ job' = [job EXCEPT ![n].state = "active"]
    /\ run' = [run EXCEPT ![w] = [note |-> n, pc |-> "find", locked |-> TRUE]]
    /\ UNCHANGED <<status, caller, proc, failing, sent, slips, lost>>

\* Any row that is not PENDING any more is done with.
nextAlways(n) == "send"
nextFor(n) == IF status[n] = "PENDING" THEN "send" ELSE "complete"

find(w) ==
    /\ At(w, "find")
    /\ Go(w, nextFor(run[w].note))
    /\ UNCHANGED <<status, caller, job, proc, failing, sent, slips, lost>>

sendEmail(w) ==
    /\ At(w, "send")
    /\ Go(w, "mark")
    /\ sent' = [sent EXCEPT ![run[w].note] = @ + 1]
    /\ UNCHANGED <<status, caller, job, proc, failing, slips, lost>>

\* The answer of the mail server is lost, the email is not.
sendTimesOut(w) ==
    /\ At(w, "send")
    /\ Go(w, "fail")
    /\ sent' = [sent EXCEPT ![run[w].note] = @ + 1]
    /\ slips' = [slips EXCEPT ![run[w].note] = @ + 1]
    /\ UNCHANGED <<status, caller, job, proc, failing, lost>>

markSent(w) ==
    /\ At(w, "mark")
    /\ Go(w, "complete")
    /\ status' = [status EXCEPT ![run[w].note] = "SENT"]
    /\ UNCHANGED <<caller, job, proc, failing, sent, slips, lost>>

\* The database or the mail server refuses.
refused(w) ==
    /\ run[w].pc \in {"find", "send", "mark"}
    /\ Go(w, "fail")
    /\ slips' = [slips EXCEPT ![run[w].note] = IF At(w, "mark") THEN @ + 1 ELSE @]
    /\ UNCHANGED <<status, caller, job, proc, failing, sent, lost>>

\* BullMQ refuses the outcome of a worker that lost the lock.
complete(w) ==
    /\ At(w, "complete")
    /\ job' = IF run[w].locked THEN [job EXCEPT ![run[w].note].state = "completed"] ELSE job
    /\ Rest(w)
    /\ UNCHANGED <<status, caller, proc, failing, sent, slips, lost>>

exhaustedAtOnce(n) == TRUE
exhaustedLate(n) == job[n].made >= Attempts
exhausted(n) == job[n].made + 1 >= Attempts

\* The "failed" event follows each attempt; the handler is not awaited.
fail(w) ==
    LET n == run[w].note IN
    /\ At(w, "fail")
    /\ IF run[w].locked
       THEN /\ job' = [job EXCEPT ![n].made = @ + 1,
                                  ![n].state = IF job[n].made + 1 >= Attempts THEN "failed" ELSE "waiting"]
            /\ failing' = [failing EXCEPT ![w] = IF exhausted(n) THEN @ \cup {n} ELSE @]
       ELSE UNCHANGED <<job, failing>>
    /\ Rest(w)
    /\ UNCHANGED <<status, caller, proc, sent, slips, lost>>

markFailed(w, n) ==
    /\ n \in failing[w]
    /\ failing' = [failing EXCEPT ![w] = @ \ {n}]
    /\ status' = [status EXCEPT ![n] = "FAILED"]
    /\ UNCHANGED <<caller, job, proc, run, sent, slips, lost>>

-----------------------------------------------------------------------------
(* Stalled jobs and processes.                                             *)

\* A job that stalled too often fails with attempts to spare, which the
\* handler takes for a job that is still to be retried.
Stall(n) ==
    job' = IF job[n].stalled < MaxStalls
           THEN [job EXCEPT ![n].stalled = @ + 1, ![n].state = "waiting"]
           ELSE [job EXCEPT ![n].state = "failed"]

\* The lock of a running job is not renewed in time.
loseLock(w) ==
    /\ run[w].locked
    /\ run' = [run EXCEPT ![w].locked = FALSE]
    /\ Stall(run[w].note)
    /\ slips' = [slips EXCEPT ![run[w].note] = @ + 1]
    /\ UNCHANGED <<status, caller, proc, failing, sent, lost>>

\* SIGTERM closes the workers after what they do; an app that is not done
\* within ten seconds exits all the same, and a process may die at any time.
shutdown(w) ==
    /\ proc[w] = "up"
    /\ proc' = [proc EXCEPT ![w] = "closing"]
    /\ UNCHANGED <<status, caller, job, run, failing, sent, slips, lost>>

\* closeJobs waits for the job, not for the handlers of its events.
exit(w) ==
    /\ proc[w] = "closing" /\ run[w] = Resting
    /\ proc' = [proc EXCEPT ![w] = "down"]
    /\ failing' = [failing EXCEPT ![w] = {}]
    /\ lost' = lost \cup failing[w]
    /\ UNCHANGED <<status, caller, job, run, sent, slips>>

die(w) ==
    /\ proc[w] # "down"
    /\ proc' = [proc EXCEPT ![w] = "down"]
    /\ failing' = [failing EXCEPT ![w] = {}]
    /\ lost' = lost \cup failing[w]
    /\ Rest(w)
    /\ IF run[w].locked
       THEN /\ Stall(run[w].note)
            /\ slips' = [slips EXCEPT ![run[w].note] = IF At(w, "mark") THEN @ + 1 ELSE @]
       ELSE UNCHANGED <<job, slips>>
    /\ UNCHANGED <<status, caller, sent>>

start(w) ==
    /\ proc[w] = "down"
    /\ proc' = [proc EXCEPT ![w] = "up"]
    /\ UNCHANGED <<status, caller, job, run, failing, sent, slips, lost>>

-----------------------------------------------------------------------------

Execute(w) ==
    find(w) \/ sendEmail(w) \/ sendTimesOut(w) \/ markSent(w) \/ refused(w) \/ complete(w) \/ fail(w)

Next ==
    \/ \E n \in Notes : notify(n) \/ enqueue(n) \/ deliverNow(n) \/ callerFails(n)
    \/ \E w \in Workers, n \in Notes : take(w, n) \/ markFailed(w, n)
    \/ \E w \in Workers : Execute(w) \/ loseLock(w)
    \/ \E w \in Workers : shutdown(w) \/ exit(w) \/ die(w) \/ start(w)

Spec == Init /\ [][Next]_vars

\* Running code goes on, processes are started again, and a queue with a
\* worker is served.
FairSpec ==
    /\ Spec
    /\ \A n \in Notes :
          /\ WF_vars(enqueue(n) \/ deliverNow(n) \/ callerFails(n))
          /\ SF_vars(\E w \in Workers : take(w, n))
    /\ \A w \in Workers :
          /\ WF_vars(Execute(w)) /\ WF_vars(\E n \in Notes : markFailed(w, n))
          /\ WF_vars(exit(w)) /\ WF_vars(start(w))

-----------------------------------------------------------------------------
(* Properties.                                                             *)

MaxSends == Attempts + MaxStalls + 1

\* The types: no job has more attempts or stalls than BullMQ allows it.
TypeOK ==
    /\ status \in [Notes -> {"none", "PENDING", "SENT", "FAILED"}]
    /\ caller \in [Notes -> {"none", "EMAIL", "SOCKET", "PUSH", "done"}]
    /\ job \in [Notes -> [state : {"none", "waiting", "active", "completed", "failed"},
                          made : 0 .. Attempts, stalled : 0 .. MaxStalls]]
    /\ proc \in [Workers -> {"up", "closing", "down"}]
    /\ run \in [Workers -> [note : Notes \cup {Nobody},
                            pc : {"idle", "find", "send", "mark", "complete", "fail"},
                            locked : BOOLEAN]]
    /\ failing \in [Workers -> SUBSET Notes]
    /\ sent \in [Notes -> Nat] /\ slips \in [Notes -> Nat]
    /\ lost \in SUBSET Notes

\* "Without this check, that redelivery would send the email a second time."
\* (email.processor.js:27): an email is sent once, and once more for each time
\* that it could not be recorded that it was, or that two workers had its job;
\* a redelivery after the record is never a second email.
SentOnce == \A n \in Notes : sent[n] <= 1 + slips[n]

\* BullMQ gave the job up for its stalls, with attempts to spare: "exhausted" is
\* false, and nobody changes the row any more.
StalledOut(n) == job[n].state = "failed" /\ job[n].made < Attempts

\* What the row says in the end is so: SENT rows were sent, an email is FAILED only
\* when "actually gave up" is so (email.processor.js:58-62), whichever process says
\* it and however late, and once its last attempt has failed it is PENDING no
\* longer than the handler of the failure takes, but for a handler that died.  A
\* job that stalled too often is no part of the last: its row stays PENDING.
OutcomeIsTrue ==
    \A n \in Notes :
        /\ status[n] = "SENT" => sent[n] > 0
        /\ status[n] = "FAILED" => job[n].state \in {"none", "failed"}
        /\ job[n].state = "failed" /\ ~StalledOut(n) =>
              status[n] # "PENDING" \/ n \in lost \/ \E w \in Workers : n \in failing[w]

\* "stop the user waiting on an email that's never coming" (email.processor.js:62):
\* a queued email is SENT or FAILED in the end, through retries, shutdowns, crashes
\* and up to MaxStalls stalls.  Two kinds of rows stay PENDING for ever: one whose
\* last word died with a process, and, though nobody died, one whose job stalled
\* more often than that, which the words quoted do not except.
EmailsSettle ==
    \A n \in Notes : job[n].state # "none" ~>
        status[n] \in {"SENT", "FAILED"} \/ n \in lost \/ StalledOut(n)
===============================================================================
