-------------------------- MODULE EmailDeliveryProofs --------------------------
(***************************************************************************)
(* Theorems about EmailDelivery, for any notifications, workers, attempts  *)
(* and stalls: SentOnce, OutcomeIsTrue, and that nobody waits for an email *)
(* nobody works on.                                                        *)
(*                                                                         *)
(* The first two need an account of who may still send.  A worker that     *)
(* lost its lock before it sent has cost a slip already, which pays for    *)
(* the email it may send (Unbacked).  The worker that has the lock pays    *)
(* with the one email everybody is entitled to, which is taken once the    *)
(* email is sent and not recorded yet, or the row is no longer PENDING     *)
(* (Covered); a row that somebody settles behind the back of a worker      *)
(* about to send does not count until that worker has sent.                *)
(***************************************************************************)
EXTENDS EmailDelivery, FiniteSetTheorems, TLAPS

RunRow == [note : Notes \cup {Nobody},
           pc : {"idle", "find", "send", "mark", "complete", "fail"}, locked : BOOLEAN]
JobRow == [state : {"none", "waiting", "active", "completed", "failed"},
           made : 0 .. Attempts, stalled : 0 .. MaxStalls]

Unbacked(n) ==
    {w \in Workers : run[w].note = n /\ ~run[w].locked /\ run[w].pc \in {"find", "send"}}
Locked(n, pc) == \E w \in Workers : run[w].note = n /\ run[w].locked /\ run[w].pc = pc
Covered(n) == Locked(n, "mark") \/ (status[n] # "PENDING" /\ ~Locked(n, "send"))

Counted(n) ==
    /\ IsFiniteSet(Unbacked(n))
    /\ sent[n] + Cardinality(Unbacked(n)) <= slips[n] + (IF Covered(n) THEN 1 ELSE 0)

\* A worker has a job somebody has queued; the lock is that of an active one.
WorkerHolds(w) ==
    /\ run[w].pc = "idle" => run[w] = Resting
    /\ run[w].pc # "idle" =>
          run[w].note \in Notes /\ caller[run[w].note] = "done" /\ job[run[w].note].state # "none"
    /\ run[w].locked => run[w].pc # "idle" /\ job[run[w].note].state = "active"
    /\ run[w].pc = "mark" => sent[run[w].note] > 0
    /\ \A n \in failing[w] : job[n].state = "failed" /\ caller[n] = "done"

LocksDiffer ==
    \A v, w \in Workers : run[v].locked /\ run[w].locked /\ v # w => run[v].note # run[w].note

NoteHolds(n) ==
    /\ caller[n] = "none" <=> status[n] = "none"
    /\ caller[n] \in {"EMAIL", "SOCKET", "PUSH"} => status[n] = "PENDING"
    /\ caller[n] # "done" => job[n].state = "none" /\ sent[n] = 0
    /\ job[n].state # "failed" => job[n].made < Attempts
    /\ status[n] = "SENT" => sent[n] > 0
    /\ status[n] = "FAILED" => job[n].state \in {"none", "failed"}
    /\ job[n].state = "failed" =>
          \/ status[n] # "PENDING" \/ n \in lost \/ StalledOut(n)
          \/ \E w \in Workers : n \in failing[w]

EInv ==
    /\ TypeOK
    /\ \A w \in Workers : WorkerHolds(w)
    /\ LocksDiffer
    /\ \A n \in Notes : NoteHolds(n) /\ Counted(n)

-----------------------------------------------------------------------------
(* Rows.                                                                   *)

LEMMA RunRows ==
  ASSUME NEW x \in RunRow, NEW pc \in {"idle", "find", "send", "mark", "complete", "fail"}
  PROVE  /\ [x EXCEPT !.pc = pc] \in RunRow
         /\ [x EXCEPT !.pc = pc].note = x.note /\ [x EXCEPT !.pc = pc].pc = pc
         /\ [x EXCEPT !.pc = pc].locked = x.locked
         /\ [x EXCEPT !.locked = FALSE] \in RunRow
         /\ [x EXCEPT !.locked = FALSE].note = x.note /\ [x EXCEPT !.locked = FALSE].pc = x.pc
         /\ [x EXCEPT !.locked = FALSE].locked = FALSE
  BY DEF RunRow

LEMMA RestingRow ==
  /\ Resting \in RunRow /\ Resting.note = Nobody /\ Resting.pc = "idle"
  /\ Resting.locked = FALSE
  BY DEF Resting, RunRow

LEMMA TypedRows ==
  TypeOK <=>
    /\ status \in [Notes -> {"none", "PENDING", "SENT", "FAILED"}]
    /\ caller \in [Notes -> {"none", "EMAIL", "SOCKET", "PUSH", "done"}]
    /\ job \in [Notes -> JobRow] /\ proc \in [Workers -> {"up", "closing", "down"}]
    /\ run \in [Workers -> RunRow] /\ failing \in [Workers -> SUBSET Notes]
    /\ sent \in [Notes -> Nat] /\ slips \in [Notes -> Nat] /\ lost \in SUBSET Notes
  BY DEF TypeOK, JobRow, RunRow

LEMMA EmailStarts == Init => EInv
<1> SUFFICES ASSUME Init PROVE EInv
  OBVIOUS
<1>1. NoJob \in JobRow /\ NoJob.state = "none" /\ NoJob.made = 0
  BY AttemptsAssumption DEF NoJob, JobRow
<1>2. TypeOK
  BY <1>1, RestingRow, TypedRows DEF Init
<1>3. \A w \in Workers : WorkerHolds(w)
  BY RestingRow DEF Init, WorkerHolds
<1>4. LocksDiffer
  BY RestingRow DEF Init, LocksDiffer
<1>5. \A n \in Notes : NoteHolds(n)
  BY <1>1, AttemptsAssumption DEF Init, NoteHolds
<1>6. ASSUME NEW n \in Notes PROVE Counted(n)
  <2>1. Unbacked(n) = {}
    BY RestingRow, NobodyAssumption DEF Init, Unbacked
  <2>2. IsFiniteSet(Unbacked(n)) /\ Cardinality(Unbacked(n)) = 0
    BY <2>1, FS_EmptySet
  <2>3. QED
    BY <2>2 DEF Init, Counted
<1>7. QED
  BY <1>2, <1>3, <1>4, <1>5, <1>6 DEF EInv

-----------------------------------------------------------------------------
(* What a step of one worker does to who may still send.                   *)

Owes(x, n) == IF x.note = n /\ ~x.locked /\ x.pc \in {"find", "send"} THEN 1 ELSE 0
Credit(n) == IF Covered(n) THEN 1 ELSE 0

LEMMA UnbackedCount ==
  ASSUME EInv, NEW n \in Notes
  PROVE  IsFiniteSet(Unbacked(n)) /\ Cardinality(Unbacked(n)) \in Nat
  BY FS_CardinalityType DEF EInv, Counted

LEMMA UnbackedMoves ==
  ASSUME EInv, NEW w \in Workers, NEW n \in Notes, NEW r \in RunRow,
         run' = [run EXCEPT ![w] = r]
  PROVE  /\ IsFiniteSet(Unbacked(n)')
         /\ Cardinality(Unbacked(n)') + Owes(run[w], n) = Cardinality(Unbacked(n)) + Owes(r, n)
<1>0. IsFiniteSet(Unbacked(n)) /\ Cardinality(Unbacked(n)) \in Nat
  BY UnbackedCount
<1>1. run \in [Workers -> RunRow]
  BY TypedRows DEF EInv
<1>2. \A v \in Workers : run'[v] = IF v = w THEN r ELSE run[v]
  BY <1>1
<1>3. Owes(run[w], n) = IF w \in Unbacked(n) THEN 1 ELSE 0
  BY DEF Unbacked, Owes
<1>4. CASE Owes(r, n) = 1
  <2>1. Unbacked(n)' = Unbacked(n) \cup {w}
    BY <1>2, <1>4 DEF Unbacked, Owes
  <2>2. /\ IsFiniteSet(Unbacked(n) \cup {w})
        /\ Cardinality(Unbacked(n) \cup {w}) =
              IF w \in Unbacked(n) THEN Cardinality(Unbacked(n)) ELSE Cardinality(Unbacked(n)) + 1
    BY <1>0, FS_AddElement
  <2>3. QED
    BY <1>0, <1>3, <1>4, <2>1, <2>2
<1>5. CASE Owes(r, n) # 1
  <2>1. Unbacked(n)' = Unbacked(n) \ {w}
    BY <1>2, <1>5 DEF Unbacked, Owes
  <2>2. /\ IsFiniteSet(Unbacked(n) \ {w})
        /\ Cardinality(Unbacked(n) \ {w}) =
              IF w \in Unbacked(n) THEN Cardinality(Unbacked(n)) - 1 ELSE Cardinality(Unbacked(n))
    BY <1>0, FS_RemoveElement
  <2>3. Owes(r, n) = 0
    BY <1>5 DEF Owes
  <2>4. QED
    BY <1>0, <1>3, <2>1, <2>2, <2>3
<1>6. QED
  BY <1>4, <1>5

\* The lock of a note moves only with its worker.
LEMMA LocksMove ==
  ASSUME EInv, NEW w \in Workers, NEW n \in Notes, NEW r \in RunRow,
         run' = [run EXCEPT ![w] = r], NEW pc \in {"mark", "send"}
  PROVE  /\ run[w].note # n /\ r.note # n => (Locked(n, pc)' <=> Locked(n, pc))
         /\ ~run[w].locked /\ (~r.locked \/ r.pc = "find") => (Locked(n, pc)' <=> Locked(n, pc))
         /\ run[w].note = n /\ run[w].locked =>
              /\ Locked(n, pc) <=> run[w].pc = pc
              /\ Locked(n, pc)' <=> r.note = n /\ r.locked /\ r.pc = pc
<1>1. run \in [Workers -> RunRow] /\ LocksDiffer
  BY TypedRows DEF EInv
<1>2. \A v \in Workers : run'[v] = IF v = w THEN r ELSE run[v]
  BY <1>1
<1>3. run[w].note # n /\ r.note # n => (Locked(n, pc)' <=> Locked(n, pc))
  BY <1>2 DEF Locked
<1>4. ~run[w].locked /\ (~r.locked \/ r.pc = "find") => (Locked(n, pc)' <=> Locked(n, pc))
  BY <1>2 DEF Locked
<1>5. ASSUME run[w].note = n, run[w].locked
      PROVE  /\ Locked(n, pc) <=> run[w].pc = pc
             /\ Locked(n, pc)' <=> r.note = n /\ r.locked /\ r.pc = pc
  <2>1. \A v \in Workers : v # w => ~(run[v].note = n /\ run[v].locked)
    BY <1>1, <1>5 DEF LocksDiffer
  <2>2. QED
    BY <1>2, <1>5, <2>1 DEF Locked
<1>6. QED
  BY <1>3, <1>4, <1>5

\* A step that pays for what it may send keeps the account.
LEMMA AccountKept ==
  ASSUME EInv, NEW w \in Workers, NEW n \in Notes, NEW r \in RunRow,
         run' = [run EXCEPT ![w] = r], run[w].note \in {n, Nobody}, r.note \in {n, Nobody},
         \A m \in Notes : m # n => /\ status'[m] = status[m] /\ sent'[m] = sent[m]
                                   /\ slips'[m] = slips[m],
         sent'[n] \in Nat, slips'[n] \in Nat,
         sent'[n] + Owes(r, n) + Credit(n) + slips[n]
            <= sent[n] + Owes(run[w], n) + Credit(n)' + slips'[n]
  PROVE  \A m \in Notes : Counted(m)'
<1>1. ASSUME NEW m \in Notes, m # n PROVE Counted(m)'
  <2>1. run[w].note # m /\ r.note # m
    BY <1>1, NobodyAssumption
  <2>2. Locked(m, "mark")' <=> Locked(m, "mark")
    BY <2>1, LocksMove
  <2>3. Locked(m, "send")' <=> Locked(m, "send")
    BY <2>1, LocksMove
  <2>4. Covered(m)' <=> Covered(m)
    BY <1>1, <2>2, <2>3 DEF Covered
  <2>5. Owes(run[w], m) = 0 /\ Owes(r, m) = 0
    BY <2>1 DEF Owes
  <2>6. IsFiniteSet(Unbacked(m)')
        /\ Cardinality(Unbacked(m)') + Owes(run[w], m) = Cardinality(Unbacked(m)) + Owes(r, m)
    BY UnbackedMoves
  <2>7. Cardinality(Unbacked(m)') \in Nat /\ Cardinality(Unbacked(m)) \in Nat
    BY <2>6, UnbackedCount, FS_CardinalityType
  <2>8. Counted(m)
    BY DEF EInv
  <2>9. QED
    BY <1>1, <2>4, <2>5, <2>6, <2>7, <2>8 DEF Counted
<1>2. Counted(n)'
  <2>1. IsFiniteSet(Unbacked(n)')
        /\ Cardinality(Unbacked(n)') + Owes(run[w], n) = Cardinality(Unbacked(n)) + Owes(r, n)
    BY UnbackedMoves
  <2>2. Cardinality(Unbacked(n)') \in Nat /\ Cardinality(Unbacked(n)) \in Nat
    BY <2>1, UnbackedCount, FS_CardinalityType
  <2>3. sent[n] + Cardinality(Unbacked(n)) <= slips[n] + Credit(n)
    BY DEF EInv, Counted, Credit
  <2>4. sent[n] \in Nat /\ slips[n] \in Nat
    BY TypedRows DEF EInv
  <2>5. Owes(r, n) \in Nat /\ Owes(run[w], n) \in Nat /\ Credit(n) \in Nat /\ Credit(n)' \in Nat
    BY DEF Owes, Credit
  <2>6. sent'[n] + Cardinality(Unbacked(n)') <= slips'[n] + Credit(n)'
    BY <2>1, <2>2, <2>3, <2>4, <2>5
  <2>7. QED
    BY <2>1, <2>6 DEF Counted, Credit
<1>3. QED
  BY <1>1, <1>2

\* Nobody has a note that has no job.
LEMMA NobodyHasIt ==
  ASSUME EInv, NEW n \in Notes, caller[n] # "done"
  PROVE  /\ \A w \in Workers : run[w].note # n
         /\ Cardinality(Unbacked(n)) = 0 /\ ~Locked(n, "mark") /\ ~Locked(n, "send")
<1>1. ASSUME NEW w \in Workers PROVE run[w].note # n
  BY RestingRow, NobodyAssumption DEF EInv, WorkerHolds
<1>2. Unbacked(n) = {}
  BY <1>1 DEF Unbacked
<1>3. QED
  BY <1>1, <1>2, FS_EmptySet DEF Locked

-----------------------------------------------------------------------------
(* The account, step by step.                                              *)

LEMMA AccountUntouched ==
  ASSUME EInv, run' = run, sent' = sent, slips' = slips,
         \A n \in Notes : Covered(n) => Covered(n)'
  PROVE  \A n \in Notes : Counted(n)'
<1> SUFFICES ASSUME NEW n \in Notes PROVE Counted(n)'
  OBVIOUS
<1>1. Unbacked(n)' = Unbacked(n) /\ Counted(n) /\ Cardinality(Unbacked(n)) \in Nat
  BY UnbackedCount DEF Unbacked, EInv
<1>2. sent[n] \in Nat /\ slips[n] \in Nat
  BY TypedRows DEF EInv
<1>3. QED
  BY <1>1, <1>2 DEF Counted

LEMMA SameLocks ==
  ASSUME run' = run, NEW n, NEW pc PROVE Locked(n, pc)' <=> Locked(n, pc)
  BY DEF Locked

LEMMA CallerCounted ==
  ASSUME EInv, NEW n \in Notes, notify(n) \/ enqueue(n) \/ deliverNow(n) \/ callerFails(n)
  PROVE  \A m \in Notes : Counted(m)'
<1>0. status \in [Notes -> {"none", "PENDING", "SENT", "FAILED"}] /\ sent \in [Notes -> Nat]
      /\ slips \in [Notes -> Nat] /\ NoteHolds(n)
  BY TypedRows DEF EInv
<1>1. CASE enqueue(n) \/ callerFails(n)
  <2>1. run' = run /\ status' = status /\ sent' = sent /\ slips' = slips
    BY <1>1 DEF enqueue, callerFails
  <2>2. \A m \in Notes : Covered(m) => Covered(m)'
    BY <2>1 DEF Covered, Locked
  <2>3. QED
    BY <2>1, <2>2, AccountUntouched
<1>2. CASE notify(n) \/ deliverNow(n)
  <2>0. run' = run /\ slips' = slips
    BY <1>2 DEF notify, deliverNow
  <2>1. caller[n] # "done"
    BY <1>0, <1>2 DEF notify, deliverNow, NoteHolds
  <2>2. Cardinality(Unbacked(n)) = 0 /\ ~Locked(n, "mark") /\ ~Locked(n, "send")
        /\ sent[n] = 0
    BY <1>0, <2>1, NobodyHasIt DEF NoteHolds
  <2>3. ASSUME NEW m \in Notes, m # n PROVE Counted(m)'
    <3>1. status'[m] = status[m] /\ sent'[m] = sent[m]
      BY <1>0, <1>2, <2>3 DEF notify, deliverNow
    <3>2. Unbacked(m)' = Unbacked(m) /\ (Covered(m)' <=> Covered(m))
      BY <2>0, <3>1 DEF Unbacked, Covered, Locked
    <3>3. QED
      BY <2>0, <3>1, <3>2 DEF EInv, Counted
  <2>4. Unbacked(n)' = Unbacked(n)
    BY <2>0 DEF Unbacked
  <2>5. sent'[n] = 0 \/ (sent'[n] = 1 /\ status'[n] = "SENT")
    BY <1>0, <1>2, <2>2 DEF notify, deliverNow, outcomeOf
  <2>6. status'[n] = "SENT" => Covered(n)'
    BY <2>0, <2>2, SameLocks DEF Covered
  <2>7. Counted(n)'
    BY <1>0, <2>0, <2>2, <2>4, <2>5, <2>6, UnbackedCount DEF Counted
  <2>8. QED
    BY <2>3, <2>7
<1>3. QED
  BY <1>1, <1>2

LEMMA SettledCounted ==
  ASSUME EInv, NEW w \in Workers, NEW n \in Notes, markFailed(w, n)
  PROVE  \A m \in Notes : Counted(m)'
<1>1. run' = run /\ sent' = sent /\ slips' = slips
      /\ \A m \in Notes : status'[m] = status[m] \/ status'[m] = "FAILED"
  BY TypedRows DEF EInv, markFailed
<1>2. \A m \in Notes : Covered(m) => Covered(m)'
  BY <1>1 DEF Covered, Locked
<1>3. QED
  BY <1>1, <1>2, AccountUntouched

\* What a worker that has a note is at.
LEMMA AtNote ==
  ASSUME EInv, NEW w \in Workers, run[w].pc # "idle"
  PROVE  /\ run[w].note \in Notes /\ run[w] \in RunRow /\ run \in [Workers -> RunRow]
         /\ job[run[w].note].state # "none" /\ caller[run[w].note] = "done"
         /\ sent \in [Notes -> Nat] /\ slips \in [Notes -> Nat]
         /\ status \in [Notes -> {"none", "PENDING", "SENT", "FAILED"}]
         /\ job \in [Notes -> JobRow] /\ lost \in SUBSET Notes
  BY TypedRows DEF EInv, WorkerHolds

LEMMA TakeCounted ==
  ASSUME EInv, NEW w \in Workers, NEW n \in Notes, take(w, n)
  PROVE  \A m \in Notes : Counted(m)'
<1> DEFINE r == [note |-> n, pc |-> "find", locked |-> TRUE]
<1>1. r \in RunRow /\ run' = [run EXCEPT ![w] = r] /\ run[w] = Resting
      /\ status' = status /\ sent' = sent /\ slips' = slips
  BY DEF take, RunRow
<1>2. sent[n] \in Nat /\ slips[n] \in Nat
  BY TypedRows DEF EInv
<1>3. Locked(n, "mark")' <=> Locked(n, "mark")
  BY <1>1, RestingRow, LocksMove
<1>4. Locked(n, "send")' <=> Locked(n, "send")
  BY <1>1, RestingRow, LocksMove
<1>5. Credit(n)' = Credit(n) /\ Credit(n) \in Nat
  BY <1>1, <1>3, <1>4 DEF Credit, Covered
<1>6. Owes(r, n) = 0 /\ Owes(run[w], n) = 0
  BY <1>1, RestingRow, NobodyAssumption DEF Owes
<1> HIDE DEF r
<1>7. r.note = n
  BY DEF r
<1>8. sent'[n] + Owes(r, n) + Credit(n) + slips[n]
        <= sent[n] + Owes(run[w], n) + Credit(n)' + slips'[n]
  BY <1>1, <1>2, <1>5, <1>6
<1>9. QED
  BY <1>1, <1>2, <1>7, <1>8, RestingRow, AccountKept

\* What a step of an execution may do to a note for the account: a is what
\* it adds to sent, b what it adds to slips.
MayGo(from, to, a, b, before, after) ==
    /\ a > b => from = "send" /\ to = "mark" /\ a = b + 1
    /\ from = "send" => to \in {"mark", "fail"}
    /\ from = "mark" => b > a \/ after = "SENT"
    /\ to # "find" /\ (to = "send" => from = "find" /\ after = "PENDING")
    /\ after = before \/ after = "SENT"

LEMMA GoCounted ==
  ASSUME EInv, NEW w \in Workers, NEW n \in Notes, run[w].note = n,
         NEW r \in RunRow, r.note = n, r.locked = run[w].locked, run' = [run EXCEPT ![w] = r],
         NEW a \in Nat, NEW b \in Nat, sent'[n] = sent[n] + a, slips'[n] = slips[n] + b,
         \A m \in Notes : m # n => /\ status'[m] = status[m] /\ sent'[m] = sent[m]
                                   /\ slips'[m] = slips[m],
         MayGo(run[w].pc, r.pc, a, b, status[n], status'[n])
  PROVE  \A m \in Notes : Counted(m)'
<1>1. sent[n] \in Nat /\ slips[n] \in Nat
  BY TypedRows DEF EInv
<1>2. a + Owes(r, n) + Credit(n) <= b + Owes(run[w], n) + Credit(n)'
  <2>1. CASE run[w].locked
    <3>1. Owes(r, n) = 0 /\ Owes(run[w], n) = 0
      BY <2>1 DEF Owes
    <3>2. /\ Locked(n, "mark") <=> run[w].pc = "mark"
          /\ Locked(n, "mark")' <=> r.note = n /\ r.locked /\ r.pc = "mark"
      BY <2>1, LocksMove
    <3>3. /\ Locked(n, "send") <=> run[w].pc = "send"
          /\ Locked(n, "send")' <=> r.note = n /\ r.locked /\ r.pc = "send"
      BY <2>1, LocksMove
    <3>4. Covered(n) => Covered(n)' \/ b > a
      BY <2>1, <3>2, <3>3 DEF Covered, MayGo
    <3>5. a > b => ~Covered(n) /\ Covered(n)' /\ a = b + 1
      BY <2>1, <3>2, <3>3 DEF Covered, MayGo
    <3>6. QED
      BY <3>1, <3>4, <3>5 DEF Credit
  <2>2. CASE ~run[w].locked
    <3>1. Locked(n, "mark")' <=> Locked(n, "mark")
      BY <2>2, LocksMove
    <3>2. Locked(n, "send")' <=> Locked(n, "send")
      BY <2>2, LocksMove
    <3>3. Covered(n) => Covered(n)'
      BY <3>1, <3>2 DEF Covered, MayGo
    <3>4. a + Owes(r, n) <= b + Owes(run[w], n)
      BY <2>2 DEF Owes, MayGo
    <3>5. Owes(r, n) \in Nat /\ Owes(run[w], n) \in Nat
      BY DEF Owes
    <3>6. QED
      BY <3>3, <3>4, <3>5 DEF Credit
  <2>3. QED
    BY <2>1, <2>2
<1>3. Owes(r, n) \in Nat /\ Owes(run[w], n) \in Nat /\ Credit(n) \in Nat /\ Credit(n)' \in Nat
  BY DEF Owes, Credit
<1>4. sent'[n] + Owes(r, n) + Credit(n) + slips[n]
        <= sent[n] + Owes(run[w], n) + Credit(n)' + slips'[n]
  BY <1>1, <1>2, <1>3
<1>5. sent'[n] \in Nat /\ slips'[n] \in Nat
  BY <1>1
<1>6. QED
  BY <1>4, <1>5, AccountKept

\* Go changes nothing but pc.
LEMMA GoRow ==
  ASSUME EInv, NEW w \in Workers, NEW pc \in {"send", "mark", "complete", "fail"}, Go(w, pc)
  PROVE  \E r \in RunRow : /\ r.note = run[w].note /\ r.locked = run[w].locked /\ r.pc = pc
                           /\ run' = [run EXCEPT ![w] = r]
<1>1. run \in [Workers -> RunRow]
  BY TypedRows DEF EInv
<1>2. [run[w] EXCEPT !.pc = pc] \in RunRow
  BY <1>1, RunRows
<1>3. run' = [run EXCEPT ![w] = [run[w] EXCEPT !.pc = pc]]
  BY DEF Go
<1>4. /\ [run[w] EXCEPT !.pc = pc].note = run[w].note
      /\ [run[w] EXCEPT !.pc = pc].pc = pc
      /\ [run[w] EXCEPT !.pc = pc].locked = run[w].locked
  BY <1>1 DEF RunRow
<1>5. QED
  BY <1>2, <1>3, <1>4

LEMMA ExecuteGoes ==
  ASSUME EInv, NEW w \in Workers,
         find(w) \/ sendEmail(w) \/ sendTimesOut(w) \/ markSent(w) \/ refused(w)
  PROVE  \A m \in Notes : Counted(m)'
<1>0. run[w].pc # "idle"
  BY DEF find, sendEmail, sendTimesOut, markSent, refused, At
<1>1. PICK n \in Notes : run[w].note = n
  BY <1>0, AtNote
<1>2. sent \in [Notes -> Nat] /\ slips \in [Notes -> Nat]
      /\ status \in [Notes -> {"none", "PENDING", "SENT", "FAILED"}]
  BY TypedRows DEF EInv
<1>3. ASSUME NEW pc \in {"send", "mark", "complete", "fail"}, Go(w, pc), NEW a \in Nat, NEW b \in Nat,
             sent'[n] = sent[n] + a, slips'[n] = slips[n] + b,
             \A m \in Notes : m # n => /\ status'[m] = status[m] /\ sent'[m] = sent[m]
                                       /\ slips'[m] = slips[m],
             MayGo(run[w].pc, pc, a, b, status[n], status'[n])
      PROVE  \A m \in Notes : Counted(m)'
  <2>1. PICK r \in RunRow : /\ r.note = n /\ r.locked = run[w].locked /\ r.pc = pc
                            /\ run' = [run EXCEPT ![w] = r]
    BY <1>1, <1>3, GoRow
  <2>2. QED
    BY <1>1, <1>3, <2>1, GoCounted
<1>4. CASE find(w)
  <2>1. PICK pc \in {"send", "complete"} : Go(w, pc) /\ (pc = "send" => status[n] = "PENDING")
    BY <1>1, <1>4 DEF find, nextFor
  <2>2. MayGo(run[w].pc, pc, 0, 0, status[n], status'[n])
    BY <1>4, <2>1 DEF find, At, MayGo
  <2>3. sent'[n] = sent[n] + 0 /\ slips'[n] = slips[n] + 0
    BY <1>2, <1>4 DEF find
  <2>4. QED
    BY <1>3, <1>4, <2>1, <2>2, <2>3 DEF find
<1>5. CASE sendEmail(w)
  <2>1. MayGo(run[w].pc, "mark", 1, 0, status[n], status'[n])
    BY <1>5 DEF sendEmail, At, MayGo
  <2>2. sent'[n] = sent[n] + 1 /\ slips'[n] = slips[n] + 0
        /\ \A m \in Notes : m # n => sent'[m] = sent[m]
    BY <1>1, <1>2, <1>5 DEF sendEmail
  <2>3. QED
    BY <1>3, <1>5, <2>1, <2>2 DEF sendEmail
<1>6. CASE sendTimesOut(w)
  <2>1. MayGo(run[w].pc, "fail", 1, 1, status[n], status'[n])
    BY <1>6 DEF sendTimesOut, At, MayGo
  <2>2. /\ sent'[n] = sent[n] + 1 /\ slips'[n] = slips[n] + 1
        /\ \A m \in Notes : m # n => sent'[m] = sent[m] /\ slips'[m] = slips[m]
    BY <1>1, <1>2, <1>6 DEF sendTimesOut
  <2>3. QED
    BY <1>3, <1>6, <2>1, <2>2 DEF sendTimesOut
<1>7. CASE markSent(w)
  <2>1. status'[n] = "SENT" /\ \A m \in Notes : m # n => status'[m] = status[m]
    BY <1>1, <1>2, <1>7 DEF markSent
  <2>2. MayGo(run[w].pc, "complete", 0, 0, status[n], status'[n])
    BY <1>7, <2>1 DEF markSent, At, MayGo
  <2>3. sent'[n] = sent[n] + 0 /\ slips'[n] = slips[n] + 0
    BY <1>2, <1>7 DEF markSent
  <2>4. QED
    BY <1>3, <1>7, <2>1, <2>2, <2>3 DEF markSent
<1>8. CASE refused(w)
  <2> DEFINE b == IF At(w, "mark") THEN 1 ELSE 0
  <2>1. MayGo(run[w].pc, "fail", 0, b, status[n], status'[n])
    BY <1>8 DEF refused, At, MayGo
  <2>2. /\ sent'[n] = sent[n] + 0 /\ slips'[n] = slips[n] + b
        /\ \A m \in Notes : m # n => slips'[m] = slips[m]
    BY <1>1, <1>2, <1>8 DEF refused
  <2>3. QED
    BY <1>3, <1>8, <2>1, <2>2 DEF refused
<1>9. QED
  BY <1>4, <1>5, <1>6, <1>7, <1>8

\* A worker that rests owes nothing.
LEMMA RestCounted ==
  ASSUME EInv, NEW w \in Workers, complete(w) \/ fail(w)
  PROVE  \A m \in Notes : Counted(m)'
<1>0. run[w].pc \in {"complete", "fail"}
  BY DEF complete, fail, At
<1>1. PICK n \in Notes : run[w].note = n
  BY <1>0, AtNote
<1>2. run' = [run EXCEPT ![w] = Resting] /\ sent' = sent /\ slips' = slips /\ status' = status
  BY DEF complete, fail, Rest
<1>3. sent[n] \in Nat /\ slips[n] \in Nat
  BY TypedRows DEF EInv
<1>4. Owes(Resting, n) = 0 /\ Owes(run[w], n) = 0
  BY <1>0, RestingRow DEF Owes
<1>5. Locked(n, "mark")' <=> Locked(n, "mark")
  BY <1>0, <1>1, <1>2, RestingRow, LocksMove
<1>6. Locked(n, "send")' <=> Locked(n, "send")
  BY <1>0, <1>1, <1>2, RestingRow, LocksMove
<1>7. Credit(n)' = Credit(n) /\ Credit(n) \in Nat
  BY <1>2, <1>5, <1>6 DEF Credit, Covered
<1>8. sent'[n] + Owes(Resting, n) + Credit(n) + slips[n]
        <= sent[n] + Owes(run[w], n) + Credit(n)' + slips'[n]
  BY <1>2, <1>3, <1>4, <1>7
<1>9. QED
  BY <1>1, <1>2, <1>3, <1>8, RestingRow, AccountKept

LEMMA LoseCounted ==
  ASSUME EInv, NEW w \in Workers, loseLock(w)
  PROVE  \A m \in Notes : Counted(m)'
<1>0. run[w].pc # "idle" /\ run[w].locked
  BY DEF loseLock, EInv, WorkerHolds
<1>1. PICK n \in Notes : run[w].note = n
  BY <1>0, AtNote
<1> DEFINE r == [run[w] EXCEPT !.locked = FALSE]
<1>2. run \in [Workers -> RunRow] /\ sent \in [Notes -> Nat] /\ slips \in [Notes -> Nat]
  BY TypedRows DEF EInv
<1>3. r \in RunRow /\ r.note = n /\ r.locked = FALSE /\ r.pc = run[w].pc
  BY <1>1, <1>2 DEF RunRow
<1>4. run' = [run EXCEPT ![w] = r] /\ sent' = sent /\ status' = status
  BY DEF loseLock
<1>5. slips'[n] = slips[n] + 1 /\ \A m \in Notes : m # n => slips'[m] = slips[m]
  BY <1>1, <1>2 DEF loseLock
<1> HIDE DEF r
<1>6. /\ Locked(n, "mark") <=> run[w].pc = "mark"
      /\ Locked(n, "mark")' <=> r.note = n /\ r.locked /\ r.pc = "mark"
  BY <1>0, <1>1, <1>3, <1>4, LocksMove
<1>7. /\ Locked(n, "send") <=> run[w].pc = "send"
      /\ Locked(n, "send")' <=> r.note = n /\ r.locked /\ r.pc = "send"
  BY <1>0, <1>1, <1>3, <1>4, LocksMove
<1>8. Owes(r, n) + Credit(n) <= 1 + Owes(run[w], n) + Credit(n)'
  <2>1. CASE run[w].pc = "mark"
    BY <1>3, <2>1 DEF Owes, Credit
  <2>2. CASE run[w].pc # "mark"
    <3>1. Covered(n) => Covered(n)'
      BY <1>3, <1>4, <1>6, <1>7, <2>2 DEF Covered
    <3>2. QED
      BY <3>1 DEF Owes, Credit
  <2>3. QED
    BY <2>1, <2>2
<1>9. Owes(r, n) \in Nat /\ Owes(run[w], n) \in Nat /\ Credit(n) \in Nat /\ Credit(n)' \in Nat
      /\ sent[n] \in Nat /\ slips[n] \in Nat
  BY <1>2 DEF Owes, Credit
<1>10. sent'[n] + Owes(r, n) + Credit(n) + slips[n]
        <= sent[n] + Owes(run[w], n) + Credit(n)' + slips'[n]
  BY <1>4, <1>5, <1>8, <1>9
<1>11. sent'[n] \in Nat /\ slips'[n] \in Nat
  BY <1>4, <1>5, <1>9
<1>12. QED
  BY <1>1, <1>3, <1>4, <1>5, <1>10, <1>11, AccountKept

LEMMA DieCounted ==
  ASSUME EInv, NEW w \in Workers, die(w)
  PROVE  \A m \in Notes : Counted(m)'
<1>1. run' = [run EXCEPT ![w] = Resting] /\ sent' = sent /\ status' = status
  BY DEF die, Rest
<1>2. sent \in [Notes -> Nat] /\ slips \in [Notes -> Nat] /\ run \in [Workers -> RunRow]
  BY TypedRows DEF EInv
<1>3. CASE run[w].pc = "idle"
  <2>1. run[w] = Resting /\ run[w].locked = FALSE
    BY <1>3, RestingRow DEF EInv, WorkerHolds
  <2>2. run' = run /\ slips' = slips
    BY <1>1, <1>2, <2>1 DEF die
  <2>3. \A m \in Notes : Covered(m) => Covered(m)'
    BY <1>1, <2>2 DEF Covered, Locked
  <2>4. QED
    BY <1>1, <2>2, <2>3, AccountUntouched
<1>4. CASE run[w].pc # "idle"
  <2>1. PICK n \in Notes : run[w].note = n
    BY <1>4, AtNote
  <2> DEFINE b == IF run[w].locked /\ At(w, "mark") THEN 1 ELSE 0
  <2>2. slips'[n] = slips[n] + b /\ \A m \in Notes : m # n => slips'[m] = slips[m]
    BY <1>2, <2>1 DEF die
  <2>3. Owes(Resting, n) = 0 /\ Owes(run[w], n) \in Nat /\ Credit(n) \in Nat /\ Credit(n)' \in Nat
    BY RestingRow DEF Owes, Credit
  <2>4. Covered(n) => Covered(n)' \/ b = 1
    <3>1. CASE run[w].locked
      <4>1. /\ Locked(n, "mark") <=> run[w].pc = "mark"
            /\ Locked(n, "mark")' <=> Resting.note = n /\ Resting.locked /\ Resting.pc = "mark"
        BY <1>1, <2>1, <3>1, RestingRow, LocksMove
      <4>2. /\ Locked(n, "send") <=> run[w].pc = "send"
            /\ Locked(n, "send")' <=> Resting.note = n /\ Resting.locked /\ Resting.pc = "send"
        BY <1>1, <2>1, <3>1, RestingRow, LocksMove
      <4>3. QED
        BY <1>1, <3>1, <4>1, <4>2, RestingRow DEF Covered, At
    <3>2. CASE ~run[w].locked
      <4>1. Locked(n, "mark")' <=> Locked(n, "mark")
        BY <1>1, <3>2, RestingRow, LocksMove
      <4>2. Locked(n, "send")' <=> Locked(n, "send")
        BY <1>1, <3>2, RestingRow, LocksMove
      <4>3. QED
        BY <1>1, <4>1, <4>2 DEF Covered
    <3>3. QED
      BY <3>1, <3>2
  <2>5. b \in Nat /\ sent[n] \in Nat /\ slips[n] \in Nat /\ sent'[n] = sent[n]
    BY <1>1, <1>2
  <2> HIDE DEF b
  <2>6. Credit(n) <= Credit(n)' + b
    BY <2>4, <2>5 DEF Credit
  <2>7. sent'[n] + Owes(Resting, n) + Credit(n) + slips[n]
          <= sent[n] + Owes(run[w], n) + Credit(n)' + slips'[n]
    BY <2>2, <2>3, <2>5, <2>6
  <2>8. sent'[n] \in Nat /\ slips'[n] \in Nat
    BY <2>2, <2>5
  <2>9. QED
    BY <1>1, <2>1, <2>2, <2>7, <2>8, RestingRow, AccountKept
<1>5. QED
  BY <1>3, <1>4

LEMMA CountedStep == ASSUME EInv, [Next]_vars PROVE \A m \in Notes : Counted(m)'
<1>1. ASSUME run' = run, sent' = sent, slips' = slips, status' = status
      PROVE  \A m \in Notes : Counted(m)'
  <2>1. \A m \in Notes : Covered(m) => Covered(m)'
    BY <1>1 DEF Covered, Locked
  <2>2. QED
    BY <1>1, <2>1, AccountUntouched
<1>2. ASSUME NEW w \in Workers, shutdown(w) \/ exit(w) \/ start(w)
      PROVE  \A m \in Notes : Counted(m)'
  BY <1>1, <1>2 DEF shutdown, exit, start
<1>3. CASE UNCHANGED vars
  BY <1>1, <1>3 DEF vars
<1>4. QED
  BY <1>2, <1>3, CallerCounted, SettledCounted, TakeCounted, ExecuteGoes, RestCounted,
     LoseCounted, DieCounted DEF Next, Execute

-----------------------------------------------------------------------------
(* The life of a job: what a step makes of it.                             *)

JobMoves(n) ==
    \/ job'[n] = job[n]
    \/ /\ job[n].state = "none" /\ job'[n].state = "waiting" /\ job'[n].made = job[n].made
       /\ caller[n] = "EMAIL" /\ status[n] = "PENDING" /\ status'[n] = "PENDING"
    \/ /\ job[n].state = "waiting" /\ job'[n].state = "active" /\ job'[n].made = job[n].made
       /\ status'[n] = status[n]
    \/ /\ job[n].state = "active" /\ job'[n].state \in {"waiting", "completed", "failed"}
       /\ \E w \in Workers : run[w].locked /\ run[w].note = n /\ ~run'[w].locked
       /\ job'[n].state # "failed" => job'[n].made < Attempts
       /\ job'[n].state = "failed" => StalledOut(n)' \/ \E w \in Workers : n \in failing'[w]
       /\ status'[n] = status[n]

JobStates == {"none", "waiting", "active", "completed", "failed"}

LEMMA JobState ==
  ASSUME NEW j \in JobRow, NEW s \in JobStates
  PROVE  /\ [j EXCEPT !.state = s] \in JobRow
         /\ [j EXCEPT !.state = s].state = s /\ [j EXCEPT !.state = s].made = j.made
  BY DEF JobRow, JobStates

LEMMA JobRetry ==
  ASSUME NEW j \in JobRow, NEW s \in JobStates, j.made < Attempts
  PROVE  /\ [j EXCEPT !.made = @ + 1, !.state = s] \in JobRow
         /\ [j EXCEPT !.made = @ + 1, !.state = s].state = s
         /\ [j EXCEPT !.made = @ + 1, !.state = s].made = j.made + 1
<1>1. j.made + 1 \in 0 .. Attempts
  BY AttemptsAssumption DEF JobRow
<1>2. QED
  BY <1>1 DEF JobRow, JobStates

LEMMA JobStall ==
  ASSUME NEW j \in JobRow, j.stalled < MaxStalls
  PROVE  /\ [j EXCEPT !.stalled = @ + 1, !.state = "waiting"] \in JobRow
         /\ [j EXCEPT !.stalled = @ + 1, !.state = "waiting"].state = "waiting"
         /\ [j EXCEPT !.stalled = @ + 1, !.state = "waiting"].made = j.made
<1>1. j.stalled + 1 \in 0 .. MaxStalls
  BY AttemptsAssumption DEF JobRow
<1>2. QED
  BY <1>1 DEF JobRow

LEMMA StallMoves ==
  ASSUME EInv, NEW n \in Notes, job[n].state = "active", Stall(n)
  PROVE  /\ job' \in [Notes -> JobRow]
         /\ \A m \in Notes : m # n => job'[m] = job[m]
         /\ job'[n].state \in {"waiting", "failed"} /\ job'[n].made = job[n].made
<1>1. job \in [Notes -> JobRow]
  BY TypedRows DEF EInv
<1>2. CASE job[n].stalled < MaxStalls
  <2> DEFINE j == [job[n] EXCEPT !.stalled = @ + 1, !.state = "waiting"]
  <2>1. job' = [job EXCEPT ![n] = j]
    BY <1>1, <1>2 DEF Stall
  <2>2. [job[n] EXCEPT !.stalled = @ + 1, !.state = "waiting"] \in JobRow
        /\ [job[n] EXCEPT !.stalled = @ + 1, !.state = "waiting"].state = "waiting"
        /\ [job[n] EXCEPT !.stalled = @ + 1, !.state = "waiting"].made = job[n].made
    BY <1>1, <1>2, JobStall
  <2>3. QED
    BY <1>1, <2>1, <2>2
<1>3. CASE ~(job[n].stalled < MaxStalls)
  <2>1. job' = [job EXCEPT ![n] = [job[n] EXCEPT !.state = "failed"]]
    BY <1>1, <1>3 DEF Stall
  <2>2. [job[n] EXCEPT !.state = "failed"] \in JobRow
        /\ [job[n] EXCEPT !.state = "failed"].state = "failed"
        /\ [job[n] EXCEPT !.state = "failed"].made = job[n].made
    BY <1>1, JobState DEF JobStates
  <2>3. QED
    BY <1>1, <1>3, <2>1, <2>2
<1>4. QED
  BY <1>2, <1>3

LEMMA JobStep ==
  ASSUME EInv, [Next]_vars
  PROVE  job' \in [Notes -> JobRow] /\ \A n \in Notes : JobMoves(n)
<1> DEFINE Goal == job' \in [Notes -> JobRow] /\ \A m \in Notes : JobMoves(m)
<1>0. /\ job \in [Notes -> JobRow] /\ run \in [Workers -> RunRow]
      /\ failing \in [Workers -> SUBSET Notes] /\ lost \in SUBSET Notes
      /\ \A n \in Notes : NoteHolds(n)
  BY TypedRows DEF EInv
<1>1. ASSUME job' = job PROVE Goal
  BY <1>0, <1>1 DEF JobMoves
<1>2. ASSUME NEW n \in Notes, enqueue(n) PROVE Goal
  <2>1. job' = [job EXCEPT ![n] = [job[n] EXCEPT !.state = "waiting"]] /\ status' = status
        /\ caller[n] = "EMAIL"
    BY <1>2 DEF enqueue
  <2>2. job[n].state = "none" /\ status[n] = "PENDING"
    BY <1>0, <2>1 DEF NoteHolds
  <2>3. job'[n] = [job[n] EXCEPT !.state = "waiting"] /\ \A m \in Notes : m # n => job'[m] = job[m]
    BY <1>0, <2>1
  <2>4. [job[n] EXCEPT !.state = "waiting"] \in JobRow
        /\ job'[n].state = "waiting" /\ job'[n].made = job[n].made
    <3>1. job[n] \in JobRow /\ "waiting" \in JobStates
      BY <1>0 DEF JobStates
    <3>2. QED
      BY <2>3, <3>1, JobState
  <2>5. JobMoves(n)
    BY <2>1, <2>2, <2>4 DEF JobMoves
  <2>6. QED
    BY <1>0, <2>1, <2>3, <2>4, <2>5 DEF JobMoves
<1>3. ASSUME NEW w \in Workers, NEW n \in Notes, take(w, n) PROVE Goal
  <2>1. job' = [job EXCEPT ![n] = [job[n] EXCEPT !.state = "active"]] /\ status' = status
        /\ job[n].state = "waiting"
    BY <1>3 DEF take
  <2>2. job'[n] = [job[n] EXCEPT !.state = "active"] /\ \A m \in Notes : m # n => job'[m] = job[m]
    BY <1>0, <2>1
  <2>3. [job[n] EXCEPT !.state = "active"] \in JobRow
        /\ job'[n].state = "active" /\ job'[n].made = job[n].made
    <3>1. job[n] \in JobRow /\ "active" \in JobStates
      BY <1>0 DEF JobStates
    <3>2. QED
      BY <2>2, <3>1, JobState
  <2>4. JobMoves(n)
    BY <2>1, <2>3 DEF JobMoves
  <2>5. QED
    BY <1>0, <2>1, <2>2, <2>3, <2>4 DEF JobMoves
<1>4. ASSUME NEW w \in Workers, run[w].locked
      PROVE  /\ run[w].note \in Notes /\ job[run[w].note].state = "active"
             /\ job[run[w].note].made < Attempts
  BY <1>0, <1>4, AtNote DEF EInv, WorkerHolds, NoteHolds
<1>5. ASSUME NEW w \in Workers, complete(w) PROVE Goal
  <2>1. CASE run[w].locked
    <3>1. PICK n \in Notes : run[w].note = n /\ job[n].state = "active" /\ job[n].made < Attempts
      BY <1>4, <2>1
    <3>2. job' = [job EXCEPT ![n] = [job[n] EXCEPT !.state = "completed"]] /\ status' = status
      BY <1>5, <2>1, <3>1 DEF complete
    <3>3. job'[n] = [job[n] EXCEPT !.state = "completed"]
          /\ \A m \in Notes : m # n => job'[m] = job[m]
      BY <1>0, <3>2
    <3>4. [job[n] EXCEPT !.state = "completed"] \in JobRow
          /\ job'[n].state = "completed" /\ job'[n].made = job[n].made
      <4>1. job[n] \in JobRow /\ "completed" \in JobStates
        BY <1>0 DEF JobStates
      <4>2. QED
        BY <3>3, <4>1, JobState
    <3>5. ~run'[w].locked
      BY <1>0, <1>5, RestingRow DEF complete, Rest
    <3>6. JobMoves(n)
      BY <2>1, <3>1, <3>2, <3>4, <3>5 DEF JobMoves
    <3>7. QED
      BY <1>0, <3>2, <3>3, <3>4, <3>6 DEF JobMoves
  <2>2. CASE ~run[w].locked
    BY <1>1, <1>5, <2>2 DEF complete
  <2>3. QED
    BY <2>1, <2>2
<1>6. ASSUME NEW w \in Workers, fail(w) PROVE Goal
  <2>1. CASE run[w].locked
    <3>1. PICK n \in Notes : run[w].note = n /\ job[n].state = "active" /\ job[n].made < Attempts
      BY <1>4, <2>1
    <3> DEFINE s == IF job[n].made + 1 >= Attempts THEN "failed" ELSE "waiting"
               j == [job[n] EXCEPT !.made = @ + 1, !.state = s]
    <3>2. job' = [job EXCEPT ![n] = j] /\ status' = status
          /\ failing' = [failing EXCEPT ![w] = IF exhausted(n) THEN @ \cup {n} ELSE @]
      BY <1>0, <1>6, <2>1, <3>1 DEF fail
    <3>3. s \in {"failed", "waiting"}
      OBVIOUS
    <3> HIDE DEF s
    <3>4. j \in JobRow /\ j.state = s /\ j.made = job[n].made + 1
      <4>1. job[n] \in JobRow /\ s \in JobStates
        BY <1>0, <3>3 DEF JobStates
      <4>2. QED
        BY <3>1, <4>1, JobRetry
    <3>5. job'[n] = j /\ \A m \in Notes : m # n => job'[m] = job[m]
      BY <1>0, <3>2
    <3>6. ~run'[w].locked
      BY <1>0, <1>6, RestingRow DEF fail, Rest
    <3>7. s = "failed" => n \in failing'[w]
      BY <1>0, <3>2 DEF s, exhausted
    <3>8. s # "failed" => job[n].made + 1 < Attempts
      BY <1>0, <3>4, AttemptsAssumption DEF s, JobRow
    <3> HIDE DEF j
    <3>9. JobMoves(n)
      BY <2>1, <3>1, <3>2, <3>3, <3>4, <3>5, <3>6, <3>7, <3>8 DEF JobMoves
    <3>10. QED
      BY <1>0, <3>2, <3>4, <3>5, <3>9 DEF JobMoves
  <2>2. CASE ~run[w].locked
    BY <1>1, <1>6, <2>2 DEF fail
  <2>3. QED
    BY <2>1, <2>2
<1>7. ASSUME NEW w \in Workers, run[w].locked, Stall(run[w].note), ~run'[w].locked, status' = status
      PROVE  Goal
  <2>1. PICK n \in Notes : run[w].note = n /\ job[n].state = "active" /\ job[n].made < Attempts
    BY <1>4, <1>7
  <2>2. /\ job' \in [Notes -> JobRow] /\ \A m \in Notes : m # n => job'[m] = job[m]
        /\ job'[n].state \in {"waiting", "failed"} /\ job'[n].made = job[n].made
    BY <1>7, <2>1, StallMoves
  <2>3. job'[n].state = "failed" => StalledOut(n)'
    BY <2>1, <2>2 DEF StalledOut
  <2>5. JobMoves(n)
    BY <1>0, <1>7, <2>1, <2>2, <2>3 DEF JobMoves
  <2>6. QED
    BY <2>2, <2>5 DEF JobMoves
<1>8. ASSUME NEW w \in Workers, loseLock(w) PROVE Goal
  <2>1. ~run'[w].locked
    BY <1>0, <1>8 DEF loseLock, RunRow
  <2>2. QED
    BY <1>7, <1>8, <2>1 DEF loseLock
<1>9. ASSUME NEW w \in Workers, die(w) PROVE Goal
  <2>1. ~run'[w].locked
    BY <1>0, <1>9, RestingRow DEF die, Rest
  <2>2. CASE run[w].locked
    BY <1>7, <1>9, <2>1, <2>2 DEF die
  <2>3. CASE ~run[w].locked
    BY <1>1, <1>9, <2>3 DEF die
  <2>4. QED
    BY <2>2, <2>3
<1>10. QED
  BY <1>1, <1>2, <1>3, <1>5, <1>6, <1>8, <1>9 DEF Next, vars, Execute, notify, deliverNow,
     callerFails, markFailed, find, sendEmail, sendTimesOut, markSent, refused, shutdown, exit, start

-----------------------------------------------------------------------------
(* What a step makes of the other variables.                               *)

\* A run goes on with its note, ends, or begins with a waiting job.
RunMoves(w) ==
    \/ run'[w] = run[w]
    \/ run'[w] = Resting
    \/ /\ run[w].pc # "idle" /\ run'[w].pc # "idle" /\ run'[w].note = run[w].note
       /\ run'[w].locked => run[w].locked
       /\ run'[w].pc = "mark" => run[w].pc = "mark" \/ sent'[run[w].note] > 0
    \/ /\ run'[w].pc = "find" /\ run'[w].note \in Notes
       /\ job[run'[w].note].state = "waiting" /\ job'[run'[w].note].state = "active"
       /\ \A v \in Workers : v # w => run'[v] = run[v]

NoteMoves(n) ==
    /\ caller[n] = "done" => caller'[n] = "done"
    /\ sent[n] > 0 => sent'[n] > 0
    /\ job[n].state = "none" /\ job'[n].state # "none" => caller'[n] = "done"
    /\ caller'[n] = "none" <=> status'[n] = "none"
    /\ caller'[n] \in {"EMAIL", "SOCKET", "PUSH"} => status'[n] = "PENDING"
    /\ caller'[n] # "done" => caller[n] # "done" /\ job'[n] = job[n] /\ sent'[n] = sent[n]
    /\ status'[n] = "SENT" => sent'[n] > 0
    /\ status'[n] = "FAILED" =>
          status[n] = "FAILED" \/ job[n].state = "failed" \/ (job[n].state = "none" /\ job'[n] = job[n])
    /\ status'[n] = "PENDING" => status[n] \in {"none", "PENDING"}
    /\ n \in lost => n \in lost'
    /\ \A w \in Workers : n \in failing'[w] =>
          n \in failing[w] \/ (job'[n].state = "failed" /\ caller[n] = "done")
    /\ \A w \in Workers : n \in failing[w] =>
          n \in lost' \/ status'[n] = "FAILED" \/ n \in failing'[w]

LEMMA RunStep ==
  ASSUME EInv, [Next]_vars
  PROVE  run' \in [Workers -> RunRow] /\ \A w \in Workers : RunMoves(w)
<1> DEFINE Goal == run' \in [Workers -> RunRow] /\ \A v \in Workers : RunMoves(v)
<1>0. run \in [Workers -> RunRow] /\ sent \in [Notes -> Nat] /\ job \in [Notes -> JobRow]
  BY TypedRows DEF EInv
<1>1. ASSUME NEW w \in Workers, NEW r \in RunRow, run' = [run EXCEPT ![w] = r], RunMoves(w) PROVE Goal
  BY <1>0, <1>1 DEF RunMoves
<1>2. ASSUME run' = run PROVE Goal
  BY <1>0, <1>2 DEF RunMoves
<1>3. ASSUME NEW w \in Workers, Rest(w) PROVE Goal
  <2>1. RunMoves(w)
    BY <1>0, <1>3 DEF Rest, RunMoves
  <2>2. QED
    BY <1>1, <1>3, <2>1, RestingRow DEF Rest
<1>4. ASSUME NEW w \in Workers, NEW n \in Notes, take(w, n) PROVE Goal
  <2> DEFINE r == [note |-> n, pc |-> "find", locked |-> TRUE]
  <2>1. r \in RunRow /\ r.pc = "find" /\ r.note = n
    BY DEF RunRow
  <2>2. run' = [run EXCEPT ![w] = r]
    BY <1>4 DEF take
  <2> HIDE DEF r
  <2>3. job'[n].state = "active" /\ job[n].state = "waiting"
    BY <1>0, <1>4 DEF take, JobRow
  <2>4. RunMoves(w)
    BY <1>0, <2>1, <2>2, <2>3 DEF RunMoves
  <2>5. QED
    BY <1>1, <2>1, <2>2, <2>4
<1>5. ASSUME NEW w \in Workers, NEW pc \in {"send", "mark", "complete", "fail"}, Go(w, pc),
             run[w].pc # "idle", pc = "mark" => sent'[run[w].note] > 0
      PROVE  Goal
  <2>1. PICK r \in RunRow : /\ r.note = run[w].note /\ r.locked = run[w].locked /\ r.pc = pc
                            /\ run' = [run EXCEPT ![w] = r]
    BY <1>5, GoRow
  <2>2. RunMoves(w)
    BY <1>0, <1>5, <2>1 DEF RunMoves
  <2>3. QED
    BY <1>1, <2>1, <2>2
<1>6. ASSUME NEW w \in Workers, find(w) PROVE Goal
  <2>1. PICK pc \in {"send", "complete"} : Go(w, pc)
    BY <1>6 DEF find, nextFor
  <2>2. QED
    BY <1>5, <1>6, <2>1 DEF find, At
<1>7. ASSUME NEW w \in Workers, sendEmail(w) PROVE Goal
  <2>1. run[w].pc # "idle" /\ run[w].note \in Notes
    BY <1>7, AtNote DEF sendEmail, At
  <2>2. sent'[run[w].note] > 0
    BY <1>0, <1>7, <2>1 DEF sendEmail
  <2>3. QED
    BY <1>5, <1>7, <2>1, <2>2 DEF sendEmail
<1>8. ASSUME NEW w \in Workers, sendTimesOut(w) \/ markSent(w) \/ refused(w) PROVE Goal
  BY <1>5, <1>8 DEF sendTimesOut, markSent, refused, At
<1>9. ASSUME NEW w \in Workers, complete(w) \/ fail(w) \/ die(w) PROVE Goal
  BY <1>3, <1>9 DEF complete, fail, die
<1>10. ASSUME NEW w \in Workers, loseLock(w) PROVE Goal
  <2> DEFINE r == [run[w] EXCEPT !.locked = FALSE]
  <2>1. r \in RunRow /\ r.note = run[w].note /\ r.locked = FALSE /\ r.pc = run[w].pc
    BY <1>0 DEF RunRow
  <2>2. run' = [run EXCEPT ![w] = r]
    BY <1>10 DEF loseLock
  <2>3. run[w].pc # "idle"
    BY <1>10 DEF loseLock, EInv, WorkerHolds
  <2> HIDE DEF r
  <2>4. RunMoves(w)
    BY <1>0, <2>1, <2>2, <2>3 DEF RunMoves
  <2>5. QED
    BY <1>1, <2>1, <2>2, <2>4
<1>11. QED
  BY <1>2, <1>4, <1>6, <1>7, <1>8, <1>9, <1>10 DEF Next, vars, Execute, notify, enqueue,
     deliverNow, callerFails, markFailed, shutdown, exit, start

\* Rows, callers and handlers.
LEMMA NotesStep == ASSUME EInv, [Next]_vars PROVE \A n \in Notes : NoteMoves(n)
<1> SUFFICES ASSUME NEW n \in Notes PROVE NoteMoves(n)
  OBVIOUS
<1>0. /\ status \in [Notes -> {"none", "PENDING", "SENT", "FAILED"}]
      /\ caller \in [Notes -> {"none", "EMAIL", "SOCKET", "PUSH", "done"}]
      /\ job \in [Notes -> JobRow] /\ failing \in [Workers -> SUBSET Notes]
      /\ sent \in [Notes -> Nat] /\ lost \in SUBSET Notes
      /\ NoteHolds(n) /\ \A w \in Workers : n \in failing[w] => job[n].state = "failed"
      /\ \A w \in Workers : n \in failing[w] => caller[n] = "done"
  BY TypedRows DEF EInv, WorkerHolds
<1>1. ASSUME UNCHANGED <<status, caller, job, failing, sent, lost>> PROVE NoteMoves(n)
  BY <1>0, <1>1 DEF NoteMoves, NoteHolds
<1>2. ASSUME NEW m \in Notes, notify(m) \/ enqueue(m) \/ deliverNow(m) \/ callerFails(m)
      PROVE  NoteMoves(n)
  <2>0. job'[n] = job[n] \/ caller'[n] = "done"
    BY <1>0, <1>2 DEF notify, enqueue, deliverNow, callerFails
  <2>1. CASE n # m
    <3>1. /\ status'[n] = status[n] /\ caller'[n] = caller[n] /\ job'[n] = job[n]
          /\ sent'[n] = sent[n] /\ (n \in lost => n \in lost')
          /\ \A w \in Workers : failing'[w] = failing[w]
      BY <1>0, <1>2, <2>1 DEF notify, enqueue, deliverNow, callerFails
    <3>2. QED
      BY <1>0, <3>1 DEF NoteMoves, NoteHolds
  <2>2. CASE n = m /\ notify(m)
    BY <1>0, <2>2 DEF NoteMoves, NoteHolds, notify
  <2>3. CASE n = m /\ enqueue(m)
    BY <1>0, <2>3 DEF NoteMoves, NoteHolds, enqueue
  <2>4. CASE n = m /\ deliverNow(m)
    BY <1>0, <2>4 DEF NoteMoves, NoteHolds, deliverNow, outcomeOf
  <2>5. CASE n = m /\ callerFails(m)
    BY <1>0, <2>5 DEF NoteMoves, NoteHolds, callerFails
  <2>6. QED
    BY <1>2, <2>1, <2>2, <2>3, <2>4, <2>5
<1>3. JobMoves(n)
  BY JobStep
<1>4. ASSUME NEW w \in Workers, NEW m \in Notes, take(w, m) PROVE NoteMoves(n)
  <2>1. UNCHANGED <<status, caller, failing, sent, lost>>
    BY <1>4 DEF take
  <2>2. job[n].state = "none" => job'[n] = job[n]
    BY <1>0, <1>4 DEF take
  <2>3. caller[n] # "done" => job'[n] = job[n]
    BY <1>0, <2>2 DEF NoteHolds
  <2>4. QED
    BY <1>0, <2>1, <2>2, <2>3 DEF NoteMoves, NoteHolds
<1>5. ASSUME NEW w \in Workers, NEW m \in Notes, markFailed(w, m) PROVE NoteMoves(n)
  <2>1. UNCHANGED <<caller, job, sent, lost>>
    BY <1>5 DEF markFailed
  <2>2. status'[n] = IF n = m THEN "FAILED" ELSE status[n]
    BY <1>0, <1>5 DEF markFailed
  <2>3. m \in failing[w]
    BY <1>5 DEF markFailed
  <2>4. \A v \in Workers : n \in failing'[v] => n \in failing[v]
    BY <1>0, <1>5 DEF markFailed
  <2>5. \A v \in Workers : n \in failing[v] /\ n # m => n \in failing'[v]
    BY <1>0, <1>5 DEF markFailed
  <2>6. QED
    BY <1>0, <2>1, <2>2, <2>3, <2>4, <2>5 DEF NoteMoves, NoteHolds
<1>6. ASSUME NEW w \in Workers, sendEmail(w) \/ sendTimesOut(w) PROVE NoteMoves(n)
  <2>1. run[w].note \in Notes /\ caller[run[w].note] = "done"
    BY <1>6, AtNote DEF sendEmail, sendTimesOut, At
  <2>2. UNCHANGED <<status, caller, job, failing, lost>>
    BY <1>6 DEF sendEmail, sendTimesOut
  <2>3. sent'[n] = IF n = run[w].note THEN sent[n] + 1 ELSE sent[n]
    BY <1>0, <1>6, <2>1 DEF sendEmail, sendTimesOut
  <2>4. QED
    BY <1>0, <2>1, <2>2, <2>3 DEF NoteMoves, NoteHolds
<1>7. ASSUME NEW w \in Workers, markSent(w) PROVE NoteMoves(n)
  <2>1. run[w].note \in Notes /\ caller[run[w].note] = "done" /\ sent[run[w].note] > 0
    BY <1>7, AtNote DEF markSent, At, EInv, WorkerHolds
  <2>2. UNCHANGED <<caller, job, failing, sent, lost>>
    BY <1>7 DEF markSent
  <2>3. status'[n] = IF n = run[w].note THEN "SENT" ELSE status[n]
    BY <1>0, <1>7, <2>1 DEF markSent
  <2>4. QED
    BY <1>0, <2>1, <2>2, <2>3 DEF NoteMoves, NoteHolds
<1>8. ASSUME NEW w \in Workers, find(w) \/ refused(w) PROVE NoteMoves(n)
  BY <1>1, <1>8 DEF find, refused
<1>9. ASSUME NEW w \in Workers, complete(w) \/ loseLock(w) \/ fail(w) \/ exit(w) \/ die(w)
      PROVE  NoteMoves(n)
  <2>1. UNCHANGED <<status, caller, sent>>
    BY <1>9 DEF complete, loseLock, fail, exit, die
  <2>2. n \in lost => n \in lost'
    BY <1>9 DEF complete, loseLock, fail, exit, die
  <2>3. \A v \in Workers : n \in failing[v] => n \in lost' \/ n \in failing'[v]
    BY <1>0, <1>9 DEF complete, loseLock, fail, exit, die
  <2>4. \A v \in Workers : n \in failing'[v] =>
           n \in failing[v] \/ (job'[n].state = "failed" /\ caller[n] = "done")
    <3>1. CASE complete(w) \/ loseLock(w) \/ exit(w) \/ die(w)
      BY <1>0, <3>1 DEF complete, loseLock, exit, die
    <3>2. CASE fail(w)
      <4>1. run[w].note \in Notes /\ caller[run[w].note] = "done"
        BY <3>2, AtNote DEF fail, At
      <4>2. CASE n = run[w].note /\ run[w].locked /\ exhausted(n)
        <5>1. job'[n].state = "failed"
          BY <1>0, <3>2, <4>2 DEF fail, exhausted, JobRow
        <5>2. QED
          BY <4>1, <4>2, <5>1
      <4>3. CASE ~(n = run[w].note /\ run[w].locked /\ exhausted(n))
        BY <1>0, <3>2, <4>3 DEF fail
      <4>4. QED
        BY <4>2, <4>3
    <3>3. QED
      BY <1>9, <3>1, <3>2
  <2>5. job[n].state = "none" => job'[n] = job[n]
    <3>1. ASSUME NEW v \in Workers, run[v].locked, job[n].state = "none" PROVE run[v].note # n
      BY <3>1 DEF EInv, WorkerHolds
    <3>2. CASE job'[n] = job[n]
      BY <3>2
    <3>3. CASE job'[n] # job[n]
      BY <1>0, <1>3, <1>9, <3>1, <3>3 DEF JobMoves, complete, loseLock, fail, exit, die, Stall
    <3>4. QED
      BY <3>2, <3>3
  <2>6. caller[n] # "done" => job'[n] = job[n]
    BY <1>0, <2>5 DEF NoteHolds
  <2>7. QED
    BY <1>0, <2>1, <2>2, <2>3, <2>4, <2>5, <2>6 DEF NoteMoves, NoteHolds
<1>10. ASSUME NEW w \in Workers, shutdown(w) \/ start(w) PROVE NoteMoves(n)
  BY <1>1, <1>10 DEF shutdown, start
<1>11. QED
  BY <1>1, <1>2, <1>4, <1>5, <1>6, <1>7, <1>8, <1>9, <1>10 DEF Next, vars, Execute

-----------------------------------------------------------------------------
(* The invariant.                                                          *)

LEMMA TypesStep == ASSUME EInv, [Next]_vars PROVE TypeOK'
<1>0. /\ status \in [Notes -> {"none", "PENDING", "SENT", "FAILED"}]
      /\ caller \in [Notes -> {"none", "EMAIL", "SOCKET", "PUSH", "done"}]
      /\ proc \in [Workers -> {"up", "closing", "down"}]
      /\ failing \in [Workers -> SUBSET Notes] /\ run \in [Workers -> RunRow]
      /\ sent \in [Notes -> Nat] /\ slips \in [Notes -> Nat] /\ lost \in SUBSET Notes
  BY TypedRows DEF EInv
<1> DEFINE Typed ==
       /\ status' \in [Notes -> {"none", "PENDING", "SENT", "FAILED"}]
       /\ caller' \in [Notes -> {"none", "EMAIL", "SOCKET", "PUSH", "done"}]
       /\ proc' \in [Workers -> {"up", "closing", "down"}]
       /\ failing' \in [Workers -> SUBSET Notes]
       /\ sent' \in [Notes -> Nat] /\ slips' \in [Notes -> Nat] /\ lost' \in SUBSET Notes
<1>1. ASSUME NEW n \in Notes, notify(n) \/ enqueue(n) \/ deliverNow(n) \/ callerFails(n) PROVE Typed
  BY <1>0, <1>1 DEF notify, enqueue, deliverNow, outcomeOf, callerFails
<1>2. ASSUME NEW w \in Workers, NEW n \in Notes, take(w, n) \/ markFailed(w, n) PROVE Typed
  BY <1>0, <1>2 DEF take, markFailed
<1>3. ASSUME NEW w \in Workers, run[w].pc # "idle" PROVE run[w].note \in Notes
  BY <1>3, AtNote
<1>4. ASSUME NEW w \in Workers, find(w) \/ sendEmail(w) \/ sendTimesOut(w) \/ markSent(w) \/ refused(w)
      PROVE  Typed
  <2>1. run[w].note \in Notes
    BY <1>3, <1>4 DEF find, sendEmail, sendTimesOut, markSent, refused, At
  <2>2. CASE find(w)
    BY <1>0, <2>2 DEF find
  <2>3. CASE sendEmail(w)
    BY <1>0, <2>1, <2>3 DEF sendEmail
  <2>4. CASE sendTimesOut(w)
    BY <1>0, <2>1, <2>4 DEF sendTimesOut
  <2>5. CASE markSent(w)
    BY <1>0, <2>1, <2>5 DEF markSent
  <2>6. CASE refused(w)
    BY <1>0, <2>1, <2>6 DEF refused
  <2>7. QED
    BY <1>4, <2>2, <2>3, <2>4, <2>5, <2>6
<1>5. ASSUME NEW w \in Workers, complete(w) \/ fail(w) PROVE Typed
  <2>1. run[w].note \in Notes
    BY <1>3, <1>5 DEF complete, fail, At
  <2>2. QED
    BY <1>0, <1>5, <2>1 DEF complete, fail
<1>6. ASSUME NEW w \in Workers, loseLock(w) PROVE Typed
  <2>1. run[w].note \in Notes
    BY <1>3, <1>6 DEF loseLock, EInv, WorkerHolds
  <2>2. QED
    BY <1>0, <1>6, <2>1 DEF loseLock
<1>7. ASSUME NEW w \in Workers, die(w) PROVE Typed
  <2>1. CASE run[w].locked
    <3>1. run[w].note \in Notes
      BY <1>3, <2>1 DEF EInv, WorkerHolds
    <3>2. slips' \in [Notes -> Nat] /\ lost' \in SUBSET Notes
      BY <1>0, <1>7, <2>1, <3>1 DEF die
    <3>3. QED
      BY <1>0, <1>7, <3>2 DEF die
  <2>2. CASE ~run[w].locked
    BY <1>0, <1>7, <2>2 DEF die
  <2>3. QED
    BY <2>1, <2>2
<1>8. ASSUME NEW w \in Workers, shutdown(w) \/ exit(w) \/ start(w) PROVE Typed
  BY <1>0, <1>8 DEF shutdown, exit, start
<1>9. ASSUME UNCHANGED vars PROVE Typed
  <2>1. UNCHANGED <<status, caller, proc>> /\ UNCHANGED <<failing, sent, slips, lost>>
    BY <1>9 DEF vars
  <2>2. QED
    BY <1>0, <2>1
<1> HIDE DEF Typed
<1>10. Typed
  BY <1>1, <1>2, <1>4, <1>5, <1>6, <1>7, <1>8, <1>9 DEF Next, Execute
<1>11. run' \in [Workers -> RunRow] /\ job' \in [Notes -> JobRow]
  BY RunStep, JobStep
<1>12. QED
  BY <1>10, <1>11 DEF Typed, TypeOK, RunRow, JobRow

LEMMA WorkersStep ==
  ASSUME EInv, [Next]_vars PROVE LocksDiffer' /\ \A w \in Workers : WorkerHolds(w)'
<1>0. /\ run' \in [Workers -> RunRow] /\ \A w \in Workers : RunMoves(w)
      /\ \A n \in Notes : NoteMoves(n) /\ JobMoves(n)
      /\ \A w \in Workers : WorkerHolds(w)
      /\ job \in [Notes -> JobRow] /\ sent \in [Notes -> Nat]
      /\ LocksDiffer
  BY RunStep, NotesStep, JobStep, TypedRows DEF EInv
<1>1. ASSUME NEW w \in Workers, run[w].locked, run'[w].locked, run'[w].note = run[w].note
      PROVE  run[w].note \in Notes /\ job[run[w].note].state = "active"
             /\ job'[run[w].note].state = "active"
  <2>1. run[w].note \in Notes /\ job[run[w].note].state = "active"
    BY <1>0, <1>1, AtNote DEF WorkerHolds
  <2>2. \A v \in Workers : run[v].locked /\ run[v].note = run[w].note => run'[v].locked
    BY <1>0, <1>1 DEF LocksDiffer
  <2>3. QED
    BY <1>0, <2>1, <2>2 DEF JobMoves
<1>2. ASSUME NEW n \in Notes, job[n].state # "none" PROVE job'[n].state # "none"
  BY <1>0, <1>2 DEF JobMoves
<1>3. ASSUME NEW w \in Workers, RunMoves(w)
      PROVE  /\ run'[w].pc = "idle" => run'[w] = Resting
             /\ run'[w].pc # "idle" => run'[w].note \in Notes /\ caller'[run'[w].note] = "done"
                                       /\ job'[run'[w].note].state # "none"
             /\ run'[w].locked => run'[w].pc # "idle" /\ job'[run'[w].note].state = "active"
             /\ run'[w].pc = "mark" => sent'[run'[w].note] > 0
  <2>1. CASE run'[w] = run[w]
    <3>1. run[w].pc # "idle" => caller'[run[w].note] = "done"
      BY <1>0 DEF WorkerHolds, NoteMoves
    <3>2. run[w].pc = "mark" => sent'[run[w].note] > 0
      BY <1>0 DEF WorkerHolds, NoteMoves
    <3>3. QED
      BY <1>0, <1>1, <1>2, <2>1, <3>1, <3>2 DEF WorkerHolds
  <2>2. CASE run'[w] = Resting
    BY <2>2, RestingRow
  <2>3. CASE /\ run[w].pc # "idle" /\ run'[w].pc # "idle" /\ run'[w].note = run[w].note
             /\ run'[w].locked => run[w].locked
             /\ run'[w].pc = "mark" => run[w].pc = "mark" \/ sent'[run[w].note] > 0
    <3>1. run[w].note \in Notes /\ caller'[run[w].note] = "done" /\ job'[run[w].note].state # "none"
      BY <1>0, <1>2, <2>3 DEF WorkerHolds, NoteMoves
    <3>2. run'[w].pc = "mark" => sent'[run[w].note] > 0
      BY <1>0, <2>3 DEF WorkerHolds, NoteMoves
    <3>3. run'[w].locked => job'[run[w].note].state = "active"
      BY <1>0, <1>1, <2>3
    <3>4. QED
      BY <2>3, <3>1, <3>2, <3>3
  <2>4. CASE /\ run'[w].pc = "find" /\ run'[w].note \in Notes
             /\ job[run'[w].note].state = "waiting" /\ job'[run'[w].note].state = "active"
    <3>1. caller[run'[w].note] = "done"
      BY <1>0, <2>4 DEF EInv, NoteHolds
    <3>2. QED
      BY <1>0, <2>4, <3>1 DEF NoteMoves
  <2>5. QED
    BY <1>3, <2>1, <2>2, <2>3, <2>4 DEF RunMoves
<1>4. ASSUME NEW w \in Workers, NEW n \in failing'[w] PROVE job'[n].state = "failed" /\ caller'[n] = "done"
  <2>1. n \in Notes
    BY <1>4, TypesStep DEF TypeOK
  <2>2. n \in failing[w] \/ (job'[n].state = "failed" /\ caller[n] = "done")
    BY <1>0, <1>4, <2>1 DEF NoteMoves
  <2>3. job[n].state = "failed" => job'[n].state = "failed"
    BY <1>0, <2>1 DEF JobMoves
  <2>4. QED
    BY <1>0, <2>1, <2>2, <2>3 DEF WorkerHolds, NoteMoves
<1>5. \A w \in Workers : WorkerHolds(w)'
  BY <1>0, <1>3, <1>4 DEF WorkerHolds
<1>6. LocksDiffer'
  <2> SUFFICES ASSUME NEW v \in Workers, NEW w \in Workers, run'[v].locked, run'[w].locked, v # w,
                      run'[v].note = run'[w].note
               PROVE  FALSE
    BY DEF LocksDiffer
  <2>1. ASSUME NEW u \in Workers, run'[u].locked
        PROVE  \/ run[u].locked /\ run'[u].note = run[u].note
               \/ /\ run'[u].note \in Notes /\ job[run'[u].note].state = "waiting"
                  /\ \A x \in Workers : x # u => run'[x] = run[x]
    BY <1>0, <2>1, RestingRow DEF RunMoves
  <2>2. ASSUME NEW u \in Workers, NEW x \in Workers, x # u, run'[u].note = run'[x].note, run'[x].locked,
               run'[u].note \in Notes, job[run'[u].note].state = "waiting",
               \A y \in Workers : y # u => run'[y] = run[y]
        PROVE  FALSE
    BY <1>0, <2>2 DEF WorkerHolds
  <2>3. QED
    BY <1>0, <2>1, <2>2 DEF LocksDiffer
<1>7. QED
  BY <1>5, <1>6

LEMMA NoteHoldsStep == ASSUME EInv, [Next]_vars PROVE \A n \in Notes : NoteHolds(n)'
<1> SUFFICES ASSUME NEW n \in Notes PROVE NoteHolds(n)'
  OBVIOUS
<1>0. /\ NoteHolds(n) /\ NoteMoves(n) /\ JobMoves(n)
      /\ job \in [Notes -> JobRow] /\ job' \in [Notes -> JobRow]
      /\ status \in [Notes -> {"none", "PENDING", "SENT", "FAILED"}]
  BY NotesStep, JobStep, TypedRows DEF EInv
<1>1. caller'[n] # "done" => job'[n].state = "none" /\ sent'[n] = 0
  BY <1>0 DEF NoteHolds, NoteMoves
<1>2. job'[n].state # "failed" => job'[n].made < Attempts
  BY <1>0 DEF NoteHolds, JobMoves
<1>3. status'[n] = "FAILED" => job'[n].state \in {"none", "failed"}
  <2>1. CASE status[n] = "FAILED"
    BY <1>0, <2>1 DEF NoteHolds, JobMoves
  <2>2. CASE job[n].state = "failed"
    BY <1>0, <2>2 DEF JobMoves
  <2>3. CASE job[n].state = "none" /\ job'[n] = job[n]
    BY <2>3
  <2>4. QED
    BY <1>0, <2>1, <2>2, <2>3 DEF NoteMoves
<1>4. job'[n].state = "failed" /\ status'[n] = "PENDING" =>
         n \in lost' \/ StalledOut(n)' \/ \E w \in Workers : n \in failing'[w]
  <2>1. CASE job[n].state = "failed"
    <3>1. status'[n] = "PENDING" => status[n] = "PENDING"
      BY <1>0, <2>1 DEF NoteHolds, NoteMoves
    <3>2. QED
      BY <1>0, <2>1, <3>1 DEF NoteHolds, NoteMoves, JobMoves, StalledOut
  <2>2. CASE job[n].state # "failed"
    BY <1>0, <2>2 DEF JobMoves
  <2>3. QED
    BY <2>1, <2>2
<1>5. QED
  BY <1>0, <1>1, <1>2, <1>3, <1>4 DEF NoteHolds, NoteMoves

LEMMA EmailStep == ASSUME EInv, [Next]_vars PROVE EInv'
  BY TypesStep, WorkersStep, NoteHoldsStep, CountedStep DEF EInv

\* Whatever callers, workers and processes do, and whenever they stall or die, the
\* account of who may still send holds.
THEOREM Invariance == Spec => []EInv
  BY EmailStarts, EmailStep, PTL DEF Spec

\* Rows, jobs, workers and callers keep their types, for any numbers of them and
\* wherever they stall or die (email.processor.js, notification.service.js:25-50).
THEOREM TypeCorrectness == Spec => []TypeOK
<1>1. EInv => TypeOK
  BY DEF EInv
<1>2. QED
  BY <1>1, Invariance, PTL

\* An email is sent once, and once more for each slip at most
\* (email.processor.js:27).
THEOREM SentOnceOnly == Spec => []SentOnce
<1>1. ASSUME EInv PROVE SentOnce
  <2> SUFFICES ASSUME NEW n \in Notes PROVE sent[n] <= 1 + slips[n]
    BY DEF SentOnce
  <2>1. Cardinality(Unbacked(n)) \in Nat /\ sent[n] \in Nat /\ slips[n] \in Nat
    BY <1>1, UnbackedCount, TypedRows DEF EInv
  <2>2. sent[n] + Cardinality(Unbacked(n)) <= slips[n] + (IF Covered(n) THEN 1 ELSE 0)
    BY <1>1 DEF EInv, Counted
  <2>3. QED
    BY <2>1, <2>2
<1>2. QED
  BY <1>1, Invariance, PTL

\* What the row of an email says in the end is so (email.processor.js:54-58).
THEOREM OutcomesAreTrue == Spec => []OutcomeIsTrue
<1>1. EInv => OutcomeIsTrue
  BY DEF EInv, NoteHolds, OutcomeIsTrue
<1>2. QED
  BY <1>1, Invariance, PTL
-----------------------------------------------------------------------------
(* Nobody waits for an email that nobody works on: what EmailsSettle needs *)
(* to be so in every state.                                                *)

\* Its caller, the queue, the worker with the lock or the handler of its failure
\* will come back to the row.
InHands(n) ==
    \/ caller[n] \in {"EMAIL", "SOCKET", "PUSH"}
    \/ job[n].state = "waiting"
    \/ \E w \in Workers : run[w].note = n /\ run[w].locked
    \/ \E w \in Workers : n \in failing[w]

\* "lost" holds the rows whose caller failed or whose last update died.
PendingInHands ==
    \A n \in Notes :
        status[n] = "PENDING" => InHands(n) \/ n \in lost \/ StalledOut(n)

CompletesSettled ==
    \A w \in Workers : run[w].pc = "complete" => status[run[w].note] \in {"SENT", "FAILED"}

\* What a step must do to an email for it to stay in hands.
LEMMA HandsStay ==
    ASSUME EInv, NEW n \in Notes, InHands(n) \/ n \in lost \/ StalledOut(n), lost \subseteq lost',
           caller'[n] = caller[n], job'[n] = job[n],
           \A w \in Workers : run[w].note = n /\ run[w].locked =>
              run'[w].note = n /\ run'[w].locked,
           \A w \in Workers : n \in failing[w] => n \in failing'[w] \/ n \in lost'
    PROVE  InHands(n)' \/ n \in lost' \/ StalledOut(n)'
  BY DEF InHands, StalledOut

LEMMA RunTypes ==
    ASSUME EInv, NEW w \in Workers
    PROVE  /\ run[w] \in RunRow /\ (run[w].pc # "idle" => run[w].note \in Notes)
           /\ run[w].pc # "idle" => status[run[w].note] # "none"
           /\ run[w].locked => run[w].pc # "idle" /\ run[w].note \in Notes
           /\ \A pc : Go(w, pc) =>
                 /\ run'[w].pc = pc /\ run'[w].note = run[w].note
                 /\ run'[w].locked = run[w].locked
                 /\ \A v \in Workers \ {w} : run'[v] = run[v]
           /\ Rest(w) => run'[w] = Resting /\ \A v \in Workers \ {w} : run'[v] = run[v]
<1>1. run \in [Workers -> RunRow]
  BY DEF EInv, TypeOK, RunRow
<1>2. run[w].pc # "idle" => run[w].note \in Notes /\ caller[run[w].note] = "done"
  BY DEF EInv, WorkerHolds
<1>3. run[w].pc # "idle" => status[run[w].note] # "none"
  BY <1>2 DEF EInv, NoteHolds
<1>4. run[w].locked => run[w].pc # "idle"
  BY DEF EInv, WorkerHolds
<1>5. \A pc : Go(w, pc) => /\ run'[w].pc = pc /\ run'[w].note = run[w].note
                           /\ run'[w].locked = run[w].locked
                           /\ \A v \in Workers \ {w} : run'[v] = run[v]
  BY <1>1 DEF Go, RunRow
<1>6. Rest(w) => run'[w] = Resting /\ \A v \in Workers \ {w} : run'[v] = run[v]
  BY <1>1 DEF Rest
<1>7. QED
  BY <1>1, <1>2, <1>3, <1>4, <1>5, <1>6

LEMMA HandsStep ==
    ASSUME EInv, PendingInHands, CompletesSettled, [Next]_vars
    PROVE  PendingInHands'
<1>0. /\ status \in [Notes -> {"none", "PENDING", "SENT", "FAILED"}]
      /\ caller \in [Notes -> {"none", "EMAIL", "SOCKET", "PUSH", "done"}]
      /\ job \in [Notes -> JobRow] /\ run \in [Workers -> RunRow]
      /\ failing \in [Workers -> SUBSET Notes]
  BY DEF EInv, TypeOK, JobRow, RunRow
<1>1. ASSUME NEW n \in Notes, notify(n) \/ enqueue(n) \/ deliverNow(n) \/ callerFails(n)
      PROVE  PendingInHands'
  <2> SUFFICES ASSUME NEW m \in Notes, status'[m] = "PENDING"
               PROVE  InHands(m)' \/ m \in lost' \/ StalledOut(m)'
    BY DEF PendingInHands
  <2>1. CASE m = n
    <3>1. CASE notify(n)
      <4>1. caller'[n] \in {"EMAIL", "SOCKET", "PUSH"}
        BY <1>0, <3>1 DEF notify
      <4>2. QED
        BY <2>1, <4>1 DEF InHands
    <3>2. CASE enqueue(n)
      <4>1. job'[n].state = "waiting"
        BY <1>0, <3>2 DEF enqueue, JobRow
      <4>2. QED
        BY <2>1, <4>1 DEF InHands
    <3>3. CASE deliverNow(n)
      BY <1>0, <2>1, <3>3 DEF deliverNow, outcomeOf
    <3>4. CASE callerFails(n)
      BY <2>1, <3>4 DEF callerFails
    <3>5. QED
      BY <1>1, <3>1, <3>2, <3>3, <3>4
  <2>2. CASE m # n
    <3>1. /\ status[m] = "PENDING" /\ caller'[m] = caller[m] /\ job'[m] = job[m]
          /\ lost \subseteq lost' /\ UNCHANGED <<run, failing>>
      BY <1>0, <1>1, <2>2 DEF notify, enqueue, deliverNow, callerFails
    <3>2. QED
      BY <3>1, HandsStay DEF PendingInHands
  <2>3. QED
    BY <2>1, <2>2
<1>2. ASSUME NEW w \in Workers, NEW n \in Notes, take(w, n)
      PROVE  PendingInHands'
  <2> SUFFICES ASSUME NEW m \in Notes, status'[m] = "PENDING"
               PROVE  InHands(m)' \/ m \in lost' \/ StalledOut(m)'
    BY DEF PendingInHands
  <2>1. /\ status[m] = "PENDING" /\ UNCHANGED <<caller, failing, lost>>
        /\ ~run[w].locked /\ run'[w].note = n /\ run'[w].locked
        /\ \A v \in Workers \ {w} : run'[v] = run[v]
        /\ m # n => job'[m] = job[m]
    BY <1>0, <1>2 DEF take, Resting
  <2>2. CASE m = n
    BY <2>1, <2>2 DEF InHands
  <2>3. CASE m # n
    BY <2>1, <2>3, HandsStay DEF PendingInHands
  <2>4. QED
    BY <2>2, <2>3
<1>3. ASSUME NEW w \in Workers, NEW n \in Notes, markFailed(w, n)
      PROVE  PendingInHands'
  <2> SUFFICES ASSUME NEW m \in Notes, status'[m] = "PENDING"
               PROVE  InHands(m)' \/ m \in lost' \/ StalledOut(m)'
    BY DEF PendingInHands
  <2>1. /\ m # n /\ status[m] = "PENDING" /\ UNCHANGED <<caller, job, run, lost>>
        /\ \A v \in Workers : m \in failing[v] => m \in failing'[v]
    BY <1>0, <1>3 DEF markFailed
  <2>2. QED
    BY <2>1, HandsStay DEF PendingInHands
<1>4. ASSUME NEW w \in Workers,
             \/ find(w) \/ sendEmail(w) \/ sendTimesOut(w) \/ markSent(w) \/ refused(w)
      PROVE  PendingInHands'
  <2> SUFFICES ASSUME NEW m \in Notes, status'[m] = "PENDING"
               PROVE  InHands(m)' \/ m \in lost' \/ StalledOut(m)'
    BY DEF PendingInHands
  <2>1. /\ \E pc : Go(w, pc) /\ UNCHANGED <<caller, job, failing, lost>>
    BY <1>4 DEF find, sendEmail, sendTimesOut, markSent, refused
  <2>2. status[m] = "PENDING"
    BY <1>0, <1>4 DEF find, sendEmail, sendTimesOut, markSent, refused
  <2>3. \A v \in Workers : run[v].note = m /\ run[v].locked => run'[v].note = m /\ run'[v].locked
    BY <2>1, RunTypes
  <2>4. QED
    BY <2>1, <2>2, <2>3, HandsStay DEF PendingInHands
<1>5. ASSUME NEW w \in Workers, complete(w)
      PROVE  PendingInHands'
  <2> SUFFICES ASSUME NEW m \in Notes, status'[m] = "PENDING"
               PROVE  InHands(m)' \/ m \in lost' \/ StalledOut(m)'
    BY DEF PendingInHands
  <2>1. /\ run[w].pc = "complete" /\ Rest(w) /\ UNCHANGED <<status, caller, failing, lost>>
        /\ \A n \in Notes : n # run[w].note => job'[n] = job[n]
    BY <1>0, <1>5 DEF complete, At
  <2>2. m # run[w].note
    BY <2>1 DEF CompletesSettled
  <2>3. \A v \in Workers : run[v].note = m /\ run[v].locked => run'[v].note = m /\ run'[v].locked
    BY <2>1, <2>2, RunTypes
  <2>4. QED
    BY <2>1, <2>2, <2>3, HandsStay DEF PendingInHands
<1>6. ASSUME NEW w \in Workers, fail(w)
      PROVE  PendingInHands'
  <2> SUFFICES ASSUME NEW m \in Notes, status'[m] = "PENDING"
               PROVE  InHands(m)' \/ m \in lost' \/ StalledOut(m)'
    BY DEF PendingInHands
  <2>1. run[w].note \in Notes /\ Rest(w) /\ UNCHANGED <<status, caller, lost>>
    BY <1>6, RunTypes DEF fail, At
  <2>2. CASE m = run[w].note /\ run[w].locked
    <3>1. job'[m].state = "waiting" \/ m \in failing'[w]
      BY <1>0, <1>6, <2>1, <2>2 DEF fail, exhausted, JobRow
    <3>2. QED
      BY <3>1 DEF InHands
  <2>3. CASE m # run[w].note \/ ~run[w].locked
    <3>1. /\ job'[m] = job[m]
          /\ \A v \in Workers : m \in failing[v] => m \in failing'[v]
      BY <1>0, <1>6, <2>1, <2>3 DEF fail
    <3>2. \A v \in Workers : run[v].note = m /\ run[v].locked => run'[v].note = m /\ run'[v].locked
      BY <2>1, <2>3, RunTypes
    <3>3. QED
      BY <2>1, <3>1, <3>2, HandsStay DEF PendingInHands
  <2>4. QED
    BY <2>2, <2>3
<1>7. ASSUME NEW w \in Workers, run[w].locked, Stall(run[w].note),
             lost \subseteq lost',
             \A v \in Workers \ {w} : run'[v] = run[v],
             \A v \in Workers, n \in Notes : n \in failing[v] => n \in failing'[v] \/ n \in lost',
             UNCHANGED <<status, caller>>
      PROVE  PendingInHands'
  <2> SUFFICES ASSUME NEW m \in Notes, status'[m] = "PENDING"
               PROVE  InHands(m)' \/ m \in lost' \/ StalledOut(m)'
    BY DEF PendingInHands
  <2>1. run[w].note \in Notes
    BY <1>7, RunTypes
  <2>2. CASE m = run[w].note
    <3>1. CASE job[m].stalled < MaxStalls
      <4>1. job'[m].state = "waiting"
        BY <1>0, <1>7, <2>1, <2>2, <3>1 DEF Stall, JobRow
      <4>2. QED
        BY <4>1 DEF InHands
    <3>2. CASE ~(job[m].stalled < MaxStalls)
      <4>1. job[m].made < Attempts
        BY <1>7, <2>1, <2>2 DEF EInv, WorkerHolds, NoteHolds
      <4>2. job'[m].state = "failed" /\ job'[m].made = job[m].made
        BY <1>0, <1>7, <2>1, <2>2, <3>2 DEF Stall, JobRow
      <4>3. QED
        BY <4>1, <4>2 DEF StalledOut
    <3>3. QED
      BY <3>1, <3>2
  <2>3. CASE m # run[w].note
    <3>1. job'[m] = job[m]
      BY <1>0, <1>7, <2>3 DEF Stall
    <3>2. QED
      BY <1>7, <2>3, <3>1, HandsStay DEF PendingInHands
  <2>4. QED
    BY <2>2, <2>3
<1>8. ASSUME NEW w \in Workers, loseLock(w)
      PROVE  PendingInHands'
  BY <1>0, <1>7, <1>8 DEF loseLock
<1>9. ASSUME NEW w \in Workers, die(w)
      PROVE  PendingInHands'
  <2>1. /\ Rest(w) /\ UNCHANGED <<status, caller>> /\ lost \subseteq lost'
        /\ \A v \in Workers, n \in Notes : n \in failing[v] => n \in failing'[v] \/ n \in lost'
    BY <1>0, <1>9 DEF die
  <2>2. \A v \in Workers \ {w} : run'[v] = run[v]
    BY <2>1, RunTypes
  <2>3. CASE run[w].locked
    <3>1. Stall(run[w].note)
      BY <1>9, <2>3 DEF die
    <3>2. QED
      BY <1>7, <2>1, <2>2, <2>3, <3>1
  <2>4. CASE ~run[w].locked
    <3> SUFFICES ASSUME NEW m \in Notes, status'[m] = "PENDING"
                 PROVE  InHands(m)' \/ m \in lost' \/ StalledOut(m)'
      BY DEF PendingInHands
    <3>1. job' = job
      BY <1>9, <2>4 DEF die
    <3>2. QED
      BY <2>1, <2>2, <2>4, <3>1, HandsStay DEF PendingInHands
  <2>5. QED
    BY <2>3, <2>4
<1>10. ASSUME NEW w \in Workers, shutdown(w) \/ exit(w) \/ start(w)
       PROVE  PendingInHands'
  <2> SUFFICES ASSUME NEW m \in Notes, status'[m] = "PENDING"
               PROVE  InHands(m)' \/ m \in lost' \/ StalledOut(m)'
    BY DEF PendingInHands
  <2>1. /\ UNCHANGED <<status, caller, job, run>> /\ lost \subseteq lost'
        /\ \A v \in Workers : m \in failing[v] => m \in failing'[v] \/ m \in lost'
    BY <1>0, <1>10 DEF shutdown, exit, start
  <2>2. QED
    BY <2>1, HandsStay DEF PendingInHands
<1>11. CASE UNCHANGED vars
  BY <1>11 DEF vars, PendingInHands, InHands, StalledOut
<1>12. QED
  BY <1>1, <1>2, <1>3, <1>4, <1>5, <1>6, <1>8, <1>9, <1>10, <1>11 DEF Next, Execute

LEMMA CompletesStep ==
    ASSUME EInv, CompletesSettled, [Next]_vars
    PROVE  CompletesSettled'
<1>0. /\ status \in [Notes -> {"none", "PENDING", "SENT", "FAILED"}]
      /\ run \in [Workers -> RunRow]
  BY DEF EInv, TypeOK, RunRow
<1>1. \A n \in Notes : status[n] \in {"SENT", "FAILED"} => status'[n] \in {"SENT", "FAILED"}
  BY <1>0 DEF Next, Execute, notify, enqueue, deliverNow, outcomeOf, callerFails, take, markFailed, find,
              sendEmail, sendTimesOut, markSent, refused, complete, fail, loseLock, shutdown,
              exit, die, start, vars
<1>2. ASSUME NEW v \in Workers, run'[v] = run[v], run[v].pc = "complete"
      PROVE  status'[run'[v].note] \in {"SENT", "FAILED"}
  BY <1>1, <1>2, RunTypes DEF CompletesSettled
<1>3. ASSUME NEW w \in Workers, \A v \in Workers \ {w} : run'[v] = run[v],
             run'[w].pc = "complete" => status'[run'[w].note] \in {"SENT", "FAILED"}
      PROVE  CompletesSettled'
  BY <1>2, <1>3 DEF CompletesSettled
<1>4. ASSUME UNCHANGED run PROVE CompletesSettled'
  BY <1>2, <1>4 DEF CompletesSettled
<1>5. ASSUME NEW w \in Workers, find(w) PROVE CompletesSettled'
  <2>1. Go(w, nextFor(run[w].note)) /\ status' = status /\ run[w].note \in Notes
        /\ status[run[w].note] # "none"
    BY <1>5, RunTypes DEF find, At
  <2>2. nextFor(run[w].note) = "complete" => status[run[w].note] \in {"SENT", "FAILED"}
    BY <1>0, <2>1 DEF nextFor
  <2>3. QED
    BY <1>3, <2>1, <2>2, RunTypes
<1>6. ASSUME NEW w \in Workers, markSent(w) PROVE CompletesSettled'
  <2>1. Go(w, "complete") /\ run[w].note \in Notes /\ status' = [status EXCEPT ![run[w].note] = "SENT"]
    BY <1>6, RunTypes DEF markSent, At
  <2>2. status'[run[w].note] = "SENT"
    BY <1>0, <2>1
  <2>3. QED
    BY <1>3, <2>1, <2>2, RunTypes
<1>7. ASSUME NEW w \in Workers, sendEmail(w) \/ sendTimesOut(w) \/ refused(w) PROVE CompletesSettled'
  <2>1. \E pc \in {"mark", "fail"} : Go(w, pc)
    BY <1>7 DEF sendEmail, sendTimesOut, refused
  <2>2. QED
    BY <1>3, <2>1, RunTypes
<1>8. ASSUME NEW w \in Workers, complete(w) \/ fail(w) \/ die(w) PROVE CompletesSettled'
  <2>1. Rest(w)
    BY <1>8 DEF complete, fail, die
  <2>2. QED
    BY <1>3, <2>1, RunTypes DEF Resting
<1>9. ASSUME NEW w \in Workers, NEW n \in Notes, take(w, n) PROVE CompletesSettled'
  <2>1. run'[w].pc = "find" /\ \A v \in Workers \ {w} : run'[v] = run[v]
    BY <1>0, <1>9 DEF take
  <2>2. QED
    BY <1>3, <2>1
<1>10. ASSUME NEW w \in Workers, loseLock(w) PROVE CompletesSettled'
  <2>1. /\ run'[w].pc = run[w].pc /\ run'[w].note = run[w].note /\ status' = status
        /\ \A v \in Workers \ {w} : run'[v] = run[v]
    BY <1>0, <1>10 DEF loseLock, RunRow
  <2>2. QED
    BY <1>3, <2>1 DEF CompletesSettled
<1>11. QED
  BY <1>4, <1>5, <1>6, <1>7, <1>8, <1>9, <1>10
     DEF Next, Execute, notify, enqueue, deliverNow, callerFails, markFailed, shutdown, exit,
         start, vars

LEMMA HandsStart == Init => PendingInHands /\ CompletesSettled
  BY DEF Init, Resting, PendingInHands, CompletesSettled

\* Who may be waiting for an email that is never coming (email.processor.js:58-62):
\* a row is PENDING only while its caller, the queue, a worker that has its lock or
\* the handler of its last failure is going to come back to it, unless its caller
\* failed (it died, or the queue refused the job), a handler died before it could, or
\* BullMQ gave the job up for its stalls with attempts to spare.  There is no other
\* way to be forgotten.
THEOREM NoEmailIsForgotten == Spec => []PendingInHands
<1>1. EInv /\ PendingInHands /\ CompletesSettled /\ [Next]_vars
         => PendingInHands' /\ CompletesSettled'
  BY HandsStep, CompletesStep
<1>2. QED
  BY <1>1, HandsStart, Invariance, PTL DEF Spec
===============================================================================
