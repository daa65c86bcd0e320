-------------------------- MODULE SteerQueueProofs --------------------------
(***************************************************************************)
(* What holds of the instructions typed at a run for every number of jobs  *)
(* and instructions: the types, and, in the scenes where nobody races the  *)
(* appliers, that one session works at a time, that an instruction is read *)
(* once, that the record of it is true and never goes back, and that no    *)
(* one is owed an answer when all is quiet.                                *)
(***************************************************************************)
EXTENDS SteerQueue, FiniteSetTheorems, TLAPS

USE DEF vars, files, job

-----------------------------------------------------------------------------
(* The state a job copies.                                                  *)

\* MergeSteerInbox adds what the state does not have and touches nothing else.
LEMMA MergedState ==
  ASSUME NEW st \in State
  PROVE /\ Merged(st) \in State
        /\ Merged(st).status = st.status
        /\ \A q \in Steers : Merged(st).queue[q] =
             IF st.queue[q] = "absent" /\ q \in inbox THEN "queued" ELSE st.queue[q]
BY DEF State, Merged, Verdicts

\* ResolveSteers settles the named instructions and touches nothing else.
LEMMA ResolvedState ==
  ASSUME NEW st \in State, NEW B, NEW v \in Verdicts
  PROVE /\ Resolved(st, B, v) \in State
        /\ Resolved(st, B, v).status = st.status
        /\ \A q \in Steers : Resolved(st, B, v).queue[q] = IF q \in B THEN v ELSE st.queue[q]
BY DEF State, Resolved

\* holdSteers holds what is queued and touches nothing else.
LEMMA HeldStateState ==
  ASSUME NEW st \in State
  PROVE /\ HeldState(st) \in State
        /\ HeldState(st).status = st.status
        /\ \A q \in Steers : HeldState(st).queue[q] =
             IF st.queue[q] = "queued" THEN "held" ELSE st.queue[q]
BY DEF State, HeldState, Verdicts

\* The executor's copy goes to the file with a status of its choosing.
LEMMA WorkingState ==
  ASSUME NEW st \in State
  PROVE /\ Working(st) \in State /\ Live(Working(st)) /\ Working(st).queue = st.queue
        /\ \A end \in Ends : /\ [st EXCEPT !.status = end] \in State
                             /\ [st EXCEPT !.status = end].queue = st.queue
BY DEF State, Working, Live

-----------------------------------------------------------------------------
(* Types.                                                                   *)

\* A job has a call of ApplyHeldSteers to make until it is done, holds the lock
\* in that call only, and has a pass left for the session it starts there.
Counted ==
  \A j \in Jobs :
    /\ rounds[j] = 0 => pc[j] = "done"
    /\ Applying(j) => pc[j] \notin {"idle", "apply", "done"}
    /\ Applying(j) /\ pc[j] \in {"mark", "steer", "begin", "work", "ending"} => passes[j] > 0

TypeInv == TypeOK /\ Counted

\* The run has just been prepared, and nobody has typed.
LEMMA InitTypes == Init => TypeInv
<1> SUFFICES ASSUME Init PROVE TypeInv
  OBVIOUS
<1>1. disk \in State
  BY DEF Init, State, Verdicts
<1>2. FileTypes
  BY <1>1, SteerQueueAssumption DEF Init, FileTypes
<1>3. JobTypes
  BY <1>1, SteerQueueAssumption DEF Init, JobTypes
<1>4. Home \in [Jobs -> Procs]
  BY SteerQueueAssumption DEF Init, Home
<1>5. LockTypes /\ Counted
  BY <1>4, SteerQueueAssumption DEF Init, LockTypes, Counted, Applying
<1> QED
  BY <1>2, <1>3, <1>5 DEF TypeOK, TypeInv

\* Every step keeps the types: the passes and the rounds of a job are never
\* counted below zero.
LEMMA NextTypes == TypeInv /\ [Next]_vars => TypeInv'
<1> SUFFICES ASSUME TypeInv, [Next]_vars PROVE TypeInv'
  OBVIOUS
<1>h. Home \in [Jobs -> Procs]
  BY SteerQueueAssumption DEF TypeInv, TypeOK, FileTypes, Home
<1>t. Typists \subseteq Procs
  BY <1>h DEF Typists

<1>1. ASSUME NEW q \in Steers, NEW p \in Typists, SeeLive(q, p) PROVE TypeInv'
  <2>h. Home' = Home
    BY <1>1 DEF SeeLive, Home
  <2>1. FileTypes'
    BY <1>1, <1>t DEF TypeInv, TypeOK, FileTypes, SeeLive
  <2>2. JobTypes'
    BY <1>1 DEF TypeInv, TypeOK, JobTypes, SeeLive
  <2>3. LockTypes'
    BY <1>1, <2>h DEF TypeInv, TypeOK, LockTypes, Applying, SeeLive
  <2>4. Counted'
    BY <1>1, <2>h DEF TypeInv, TypeOK, Counted, Applying, SeeLive
  <2> QED
    BY <2>1, <2>2, <2>3, <2>4 DEF TypeInv, TypeOK
<1>2. ASSUME NEW q \in Steers, NEW p \in Typists, SteerSettled(q, p) PROVE TypeInv'
  <2>h. Home' = Home
    BY <1>2 DEF SteerSettled, Home
  <2>1. FileTypes'
    BY <1>2, <1>t DEF TypeInv, TypeOK, FileTypes, SteerSettled, Goes
  <2>2. JobTypes'
    <3>1. CASE UNCHANGED job
      BY <3>1, <1>2 DEF TypeInv, TypeOK, JobTypes, SteerSettled
    <3>2. ASSUME NEW j \in Jobs, Goes(j, "steer"), batch' = [batch EXCEPT ![j] = {q}],
                 rounds' = [rounds EXCEPT ![j] = 1], UNCHANGED <<mem, passes, stopped>>
          PROVE JobTypes'
      BY <3>2 DEF TypeInv, TypeOK, JobTypes, Goes
    <3> QED
      BY <1>2, <3>1, <3>2 DEF SteerSettled, Idle
  <2>3. LockTypes'
    BY <1>2, <2>h DEF TypeInv, TypeOK, JobTypes, LockTypes, Applying, SteerSettled, Goes
  <2>4. Counted'
    BY <1>2, <2>h
       DEF TypeInv, TypeOK, JobTypes, Counted, Applying, SteerSettled, Goes, Idle
  <2> QED
    BY <2>1, <2>2, <2>3, <2>4 DEF TypeInv, TypeOK
<1>3. ASSUME NEW q \in Steers, QueueSteer(q) PROVE TypeInv'
  <2>h. Home' = Home
    BY <1>3 DEF QueueSteer, Home
  <2>1. FileTypes'
    BY <1>3 DEF TypeInv, TypeOK, FileTypes, QueueSteer
  <2>2. JobTypes'
    BY <1>3 DEF TypeInv, TypeOK, JobTypes, QueueSteer
  <2>3. LockTypes'
    BY <1>3, <2>h DEF TypeInv, TypeOK, LockTypes, Applying, QueueSteer
  <2>4. Counted'
    BY <1>3, <2>h DEF TypeInv, TypeOK, Counted, Applying, QueueSteer
  <2> QED
    BY <2>1, <2>2, <2>3, <2>4 DEF TypeInv, TypeOK
<1>4. ASSUME NEW q \in Steers, LookAgain(q) PROVE TypeInv'
  <2>h. Home' = Home
    BY <1>4 DEF LookAgain, Home
  <2>1. FileTypes'
    BY <1>4 DEF TypeInv, TypeOK, FileTypes, LookAgain, Goes
  <2>2. JobTypes'
    <3>1. CASE UNCHANGED job
      BY <3>1, <1>4 DEF TypeInv, TypeOK, JobTypes, LookAgain
    <3>2. ASSUME NEW j \in Jobs, Goes(j, "apply"), rounds' = [rounds EXCEPT ![j] = 2],
                 UNCHANGED <<mem, batch, passes, stopped>>
          PROVE JobTypes'
      BY <3>2 DEF TypeInv, TypeOK, JobTypes, Goes
    <3> QED
      BY <1>4, <3>1, <3>2 DEF LookAgain, Idle
  <2>3. LockTypes'
    BY <1>4, <2>h DEF TypeInv, TypeOK, JobTypes, LockTypes, Applying, LookAgain, Goes
  <2>4. Counted'
    BY <1>4, <2>h
       DEF TypeInv, TypeOK, JobTypes, Counted, Applying, LookAgain, Goes, Idle
  <2> QED
    BY <2>1, <2>2, <2>3, <2>4 DEF TypeInv, TypeOK
<1>5. ASSUME NEW j \in Jobs, Resume(j) PROVE TypeInv'
  <2>h. Home' = Home
    BY <1>5 DEF Resume, Home
  <2>1. FileTypes'
    BY <1>5 DEF TypeInv, TypeOK, FileTypes, Resume, Goes, Copies
  <2>2. JobTypes'
    BY <1>5 DEF TypeInv, TypeOK, FileTypes, JobTypes, Resume, Goes, Copies
  <2>3. LockTypes'
    BY <1>5, <2>h DEF TypeInv, TypeOK, LockTypes, Applying, Resume, Goes, Copies
  <2>4. Counted'
    BY <1>5, <2>h DEF TypeInv, TypeOK, Counted, Applying, Resume, Goes, Copies, Idle
  <2> QED
    BY <2>1, <2>2, <2>3, <2>4 DEF TypeInv, TypeOK
<1>6. ASSUME NEW j \in Jobs, Stop(j) PROVE TypeInv'
  <2>h. Home' = Home
    BY <1>6 DEF Stop, Home
  <2>1. FileTypes'
    BY <1>6 DEF TypeInv, TypeOK, FileTypes, Stop
  <2>2. JobTypes'
    BY <1>6 DEF TypeInv, TypeOK, JobTypes, Stop
  <2>3. LockTypes'
    BY <1>6, <2>h DEF TypeInv, TypeOK, LockTypes, Applying, Stop
  <2>4. Counted'
    BY <1>6, <2>h DEF TypeInv, TypeOK, Counted, Applying, Stop
  <2> QED
    BY <2>1, <2>2, <2>3, <2>4 DEF TypeInv, TypeOK
<1>7. ASSUME NEW j \in Jobs, Begin(j) PROVE TypeInv'
  <2>h. Home' = Home
    BY <1>7 DEF Begin, Home
  <2>1. FileTypes'
    BY <1>7, MergedState, WorkingState
       DEF TypeInv, TypeOK, FileTypes, JobTypes, Begin, Goes, Copies, Given
  <2>2. JobTypes'
    BY <1>7, MergedState DEF TypeInv, TypeOK, JobTypes, Begin, Goes, Copies
  <2>3. LockTypes'
    BY <1>7, <2>h DEF TypeInv, TypeOK, LockTypes, Applying, Begin, Goes, Copies
  <2>4. Counted'
    BY <1>7, <2>h DEF TypeInv, TypeOK, Counted, Applying, Begin, Goes, Copies
  <2> QED
    BY <2>1, <2>2, <2>3, <2>4 DEF TypeInv, TypeOK
<1>8. ASSUME NEW j \in Jobs, NeverStarts(j) PROVE TypeInv'
  <2>h. Home' = Home
    BY <1>8 DEF NeverStarts, Home
  <2>e. PICK end \in Ends : Finishes(j, end)
    BY <1>8 DEF NeverStarts, Ends
  <2>d. disk' \in State
    BY <2>e, WorkingState DEF TypeInv, TypeOK, JobTypes, Finishes
  <2>1. FileTypes'
    BY <1>8, <2>d DEF TypeInv, TypeOK, FileTypes, NeverStarts
  <2>2. JobTypes'
    BY <1>8, <2>d, SteerQueueAssumption
       DEF TypeInv, TypeOK, JobTypes, Counted, NeverStarts, Finishes, Copies, Goes,
           AfterRun, AfterWrite, OwesRecord
  <2>3. LockTypes'
    BY <1>8, <2>h
       DEF TypeInv, TypeOK, JobTypes, LockTypes, Applying, NeverStarts, Finishes,
           Copies, Goes, AfterRun, AfterWrite, OwesRecord
  <2>4. Counted'
    BY <1>8, <2>h
       DEF TypeInv, TypeOK, JobTypes, Counted, Applying, NeverStarts, Finishes, Copies,
           Goes, AfterRun, AfterWrite, OwesRecord
  <2> QED
    BY <2>1, <2>2, <2>3, <2>4 DEF TypeInv, TypeOK
<1>9. ASSUME NEW j \in Jobs, Save(j) PROVE TypeInv'
  <2>h. Home' = Home
    BY <1>9 DEF Save, Home
  <2>1. FileTypes'
    BY <1>9, MergedState, WorkingState
       DEF TypeInv, TypeOK, FileTypes, JobTypes, Save, Copies
  <2>2. JobTypes'
    BY <1>9, MergedState DEF TypeInv, TypeOK, JobTypes, Save, Copies
  <2>3. LockTypes'
    BY <1>9, <2>h DEF TypeInv, TypeOK, LockTypes, Applying, Save, Copies
  <2>4. Counted'
    BY <1>9, <2>h DEF TypeInv, TypeOK, Counted, Applying, Save, Copies
  <2> QED
    BY <2>1, <2>2, <2>3, <2>4 DEF TypeInv, TypeOK
<1>10. ASSUME NEW j \in Jobs, Deliver(j) PROVE TypeInv'
  <2>h. Home' = Home
    BY <1>10 DEF Deliver, Home
  <2> DEFINE st == Merged(mem[j])
             B == Pending(st) \ OtherModel
  <2>s. st \in State /\ Resolved(st, B, "delivered") \in State
    BY MergedState, ResolvedState DEF TypeInv, TypeOK, JobTypes, Verdicts
  <2>d. disk' \in State
    BY <1>10, <2>s, WorkingState DEF Deliver
  <2>m. mem' \in [Jobs -> State]
    BY <1>10, <2>s DEF Deliver, Copies, TypeInv, TypeOK, JobTypes
  <2>r. read' \in [Steers -> Nat]
    BY <1>10 DEF Deliver, Given, TypeInv, TypeOK, FileTypes
  <2>1. FileTypes'
    BY <1>10, <2>d, <2>r DEF TypeInv, TypeOK, FileTypes, Deliver
  <2>2. JobTypes'
    BY <1>10, <2>m DEF TypeInv, TypeOK, JobTypes, Deliver
  <2>3. LockTypes'
    BY <1>10, <2>h DEF TypeInv, TypeOK, LockTypes, Applying, Deliver, Copies
  <2>4. Counted'
    BY <1>10, <2>h DEF TypeInv, TypeOK, Counted, Applying, Deliver, Copies
  <2> QED
    BY <2>1, <2>2, <2>3, <2>4 DEF TypeInv, TypeOK
<1>11. ASSUME NEW j \in Jobs, HoldSteers(j) PROVE TypeInv'
  <2>h. Home' = Home
    BY <1>11 DEF HoldSteers, Home
  <2>1. FileTypes'
    BY <1>11, MergedState, WorkingState
       DEF TypeInv, TypeOK, FileTypes, JobTypes, HoldSteers, Copies, Goes
  <2>2. JobTypes'
    BY <1>11, MergedState, HeldStateState
       DEF TypeInv, TypeOK, JobTypes, HoldSteers, Copies, Goes
  <2>3. LockTypes'
    BY <1>11, <2>h DEF TypeInv, TypeOK, LockTypes, Applying, HoldSteers, Copies, Goes
  <2>4. Counted'
    BY <1>11, <2>h DEF TypeInv, TypeOK, Counted, Applying, HoldSteers, Copies, Goes
  <2> QED
    BY <2>1, <2>2, <2>3, <2>4 DEF TypeInv, TypeOK
<1>12. ASSUME NEW j \in Jobs, Finish(j) PROVE TypeInv'
  <2>h. Home' = Home
    BY <1>12 DEF Finish, Home
  <2>e. PICK end \in Ends : Finishes(j, end)
    BY <1>12 DEF Finish
  <2>d. disk' \in State
    BY <2>e, WorkingState DEF TypeInv, TypeOK, JobTypes, Finishes
  <2>1. FileTypes'
    BY <1>12, <2>d DEF TypeInv, TypeOK, FileTypes, Finish
  <2>2. JobTypes'
    BY <1>12, <2>d, SteerQueueAssumption
       DEF TypeInv, TypeOK, JobTypes, Counted, Finish, Finishes, Copies, Goes, AfterRun,
           AfterWrite, OwesRecord
  <2>3. LockTypes'
    BY <1>12, <2>h
       DEF TypeInv, TypeOK, JobTypes, LockTypes, Applying, Finish, Finishes, Copies,
           Goes, AfterRun, AfterWrite, OwesRecord
  <2>4. Counted'
    BY <1>12, <2>h
       DEF TypeInv, TypeOK, JobTypes, Counted, Applying, Finish, Finishes, Copies, Goes,
           AfterRun, AfterWrite, OwesRecord
  <2> QED
    BY <2>1, <2>2, <2>3, <2>4 DEF TypeInv, TypeOK
<1>13. ASSUME NEW j \in Jobs, WriteAgain(j) PROVE TypeInv'
  <2>h. Home' = Home
    BY <1>13 DEF WriteAgain, Home
  <2>1. FileTypes'
    BY <1>13 DEF TypeInv, TypeOK, FileTypes, JobTypes, WriteAgain, Goes
  <2>2. JobTypes'
    BY <1>13
       DEF TypeInv, TypeOK, JobTypes, WriteAgain, Goes, AfterRun, AfterWrite, OwesRecord
  <2>3. LockTypes'
    BY <1>13, <2>h
       DEF TypeInv, TypeOK, LockTypes, Applying, WriteAgain, Goes, AfterRun, AfterWrite,
           OwesRecord
  <2>4. Counted'
    BY <1>13, <2>h
       DEF TypeInv, TypeOK, Counted, Applying, WriteAgain, Goes, AfterRun, AfterWrite,
           OwesRecord
  <2> QED
    BY <2>1, <2>2, <2>3, <2>4 DEF TypeInv, TypeOK
<1>14. ASSUME NEW j \in Jobs, Lock(j) PROVE TypeInv'
  <2>h. Home' = Home
    BY <1>14 DEF Lock, Home
  <2>1. FileTypes'
    BY <1>14 DEF TypeInv, TypeOK, FileTypes, Lock, Goes
  <2>2. JobTypes'
    BY <1>14, SteerQueueAssumption DEF TypeInv, TypeOK, JobTypes, Lock, Goes
  <2>3. LockTypes'
    BY <1>14, <1>h, <2>h, SteerQueueAssumption
       DEF TypeInv, TypeOK, LockTypes, Applying, Lock, Goes, Free
  <2>4. Counted'
    BY <1>14, <2>h DEF TypeInv, TypeOK, JobTypes, Counted, Applying, Lock, Goes
  <2> QED
    BY <2>1, <2>2, <2>3, <2>4 DEF TypeInv, TypeOK
<1>15. ASSUME NEW j \in Jobs, LookHeld(j) PROVE TypeInv'
  <2>h. Home' = Home
    BY <1>15 DEF LookHeld, Home
  <2> DEFINE st == Merged(disk)
  <2>s. st \in State /\ mem' = [mem EXCEPT ![j] = st]
    BY <1>15, MergedState DEF LookHeld, Copies, TypeInv, TypeOK, FileTypes
  <2>b. batch' \in [Jobs -> SUBSET Steers]
    BY <1>15 DEF LookHeld, Pending, TypeInv, TypeOK, JobTypes
  <2>g. Leaves(j) \/ (pc' \in {[pc EXCEPT ![j] = "drop"], [pc EXCEPT ![j] = "mark"]}
                        /\ UNCHANGED <<lock, rounds>>)
    BY <1>15 DEF LookHeld, Goes
  <2>p. passes[j] # 0 \/ Leaves(j)
    BY <1>15 DEF LookHeld
  <2>1. FileTypes'
    BY <1>15 DEF TypeInv, TypeOK, FileTypes, LookHeld
  <2>2. JobTypes'
    BY <1>15, <2>s, <2>b DEF TypeInv, TypeOK, JobTypes, Counted, LookHeld, Leaves, Goes
  <2>3. LockTypes'
    BY <1>15, <1>h, <2>h, <2>g, SteerQueueAssumption
       DEF TypeInv, TypeOK, JobTypes, LockTypes, Applying, LookHeld, Leaves, Goes
  <2>4. Counted'
    <3>1. CASE Leaves(j)
      BY <1>15, <1>h, <2>h, <3>1, SteerQueueAssumption
         DEF TypeInv, TypeOK, JobTypes, LockTypes, Counted, Applying, LookHeld, Leaves,
             Goes
    <3>2. CASE ~Leaves(j)
      BY <1>15, <2>h, <2>g, <3>2
         DEF TypeInv, TypeOK, JobTypes, Counted, Applying, LookHeld
    <3> QED
      BY <3>1, <3>2
  <2> QED
    BY <2>1, <2>2, <2>3, <2>4 DEF TypeInv, TypeOK
<1>16. ASSUME NEW j \in Jobs, DropHeld(j) PROVE TypeInv'
  <2>h. Home' = Home
    BY <1>16 DEF DropHeld, Home
  <2>1. FileTypes'
    BY <1>16, ResolvedState DEF TypeInv, TypeOK, FileTypes, JobTypes, DropHeld, Verdicts
  <2>2. JobTypes'
    BY <1>16 DEF TypeInv, TypeOK, JobTypes, Counted, DropHeld, Leaves, Goes
  <2>3. LockTypes'
    BY <1>16, <1>h, <2>h
       DEF TypeInv, TypeOK, JobTypes, LockTypes, Applying, DropHeld, Leaves, Goes
  <2>4. Counted'
    <3>1. rounds' = [rounds EXCEPT ![j] = rounds[j] - 1] /\ rounds[j] \in 1 .. 2
      BY <1>16 DEF TypeInv, TypeOK, JobTypes, Counted, DropHeld, Leaves
    <3>2. rounds'[j] = 0 => pc'[j] = "done"
      BY <1>16 DEF TypeInv, TypeOK, JobTypes, DropHeld, Leaves, Goes
    <3>3. ~Applying(j)'
      BY <1>16, <1>h, <2>h, SteerQueueAssumption
         DEF TypeInv, TypeOK, LockTypes, DropHeld, Leaves, Applying
    <3>4. ASSUME NEW k \in Jobs, k # j
          PROVE rounds'[k] = rounds[k] /\ pc'[k] = pc[k] /\ passes'[k] = passes[k]
                /\ (Applying(k)' => Applying(k))
      BY <1>16, <2>h, <3>4, SteerQueueAssumption
         DEF TypeInv, TypeOK, DropHeld, Leaves, Goes, Applying
    <3> QED
      BY <3>2, <3>3, <3>4 DEF TypeInv, Counted
  <2> QED
    BY <2>1, <2>2, <2>3, <2>4 DEF TypeInv, TypeOK
<1>17. ASSUME NEW j \in Jobs, MarkApplied(j) PROVE TypeInv'
  <2>h. Home' = Home
    BY <1>17 DEF MarkApplied, Home
  <2>1. FileTypes'
    BY <1>17, ResolvedState
       DEF TypeInv, TypeOK, FileTypes, JobTypes, MarkApplied, Marked, Verdicts
  <2>2. JobTypes'
    BY <1>17 DEF TypeInv, TypeOK, JobTypes, MarkApplied, Goes
  <2>3. LockTypes'
    BY <1>17, <2>h DEF TypeInv, TypeOK, LockTypes, Applying, MarkApplied, Goes
  <2>4. Counted'
    BY <1>17, <2>h DEF TypeInv, TypeOK, Counted, Applying, MarkApplied, Goes
  <2> QED
    BY <2>1, <2>2, <2>3, <2>4 DEF TypeInv, TypeOK
<1>18. ASSUME NEW j \in Jobs, Steer(j) PROVE TypeInv'
  <2>h. Home' = Home
    BY <1>18 DEF Steer, Home
  <2>1. FileTypes'
    BY <1>18 DEF TypeInv, TypeOK, FileTypes, Steer, Copies, Goes
  <2>2. JobTypes'
    <3>1. passes[j] \in 0 .. MaxPasses /\ (Applying(j) => passes[j] > 0)
      BY <1>18 DEF TypeInv, TypeOK, JobTypes, Counted, Steer
    <3>2. passes' \in [Jobs -> 0 .. MaxPasses]
      <4>1. /\ passes \in [Jobs -> 0 .. MaxPasses]
            /\ \/ passes' = passes
               \/ Applying(j) /\ passes' = [passes EXCEPT ![j] = @ - 1]
        BY <1>18 DEF TypeInv, TypeOK, JobTypes, Steer
      <4>2. passes[j] - 1 \in 0 .. MaxPasses \/ ~Applying(j)
        BY <3>1, SteerQueueAssumption
      <4> QED
        BY <4>1, <4>2
    <3>3. /\ pc' \in [Jobs -> {"idle", "begin", "work", "ending", "notified", "record",
                              "recording", "apply", "look", "drop", "mark", "steer",
                              "reopen", "done"}]
          /\ mem' \in [Jobs -> State]
      BY <1>18 DEF TypeInv, TypeOK, FileTypes, JobTypes, Steer, Copies, Goes
    <3> QED
      BY <1>18, <3>2, <3>3 DEF TypeInv, TypeOK, JobTypes, Steer
  <2>3. LockTypes'
    BY <1>18, <2>h
       DEF TypeInv, TypeOK, JobTypes, LockTypes, Applying, Steer, Copies, Goes
  <2>4. Counted'
    BY <1>18, <2>h DEF TypeInv, TypeOK, JobTypes, Counted, Applying, Steer, Copies, Goes
  <2> QED
    BY <2>1, <2>2, <2>3, <2>4 DEF TypeInv, TypeOK
<1>19. ASSUME NEW j \in Jobs, Reopen(j) PROVE TypeInv'
  <2>h. Home' = Home
    BY <1>19 DEF Reopen, Home
  <2>1. FileTypes'
    BY <1>19 DEF TypeInv, TypeOK, FileTypes, Reopen, Copies, Goes
  <2>2. JobTypes'
    BY <1>19 DEF TypeInv, TypeOK, FileTypes, JobTypes, Reopen, Copies, Goes
  <2>3. LockTypes'
    BY <1>19, <2>h DEF TypeInv, TypeOK, LockTypes, Applying, Reopen, Copies, Goes
  <2>4. Counted'
    BY <1>19, <2>h DEF TypeInv, TypeOK, Counted, Applying, Reopen, Copies, Goes
  <2> QED
    BY <2>1, <2>2, <2>3, <2>4 DEF TypeInv, TypeOK
<1>20. ASSUME NEW j \in Jobs, ReadRecord(j) PROVE TypeInv'
  <2>h. Home' = Home
    BY <1>20 DEF ReadRecord, Home
  <2>1. FileTypes'
    BY <1>20 DEF TypeInv, TypeOK, FileTypes, ReadRecord, Copies, Goes
  <2>2. JobTypes'
    BY <1>20 DEF TypeInv, TypeOK, FileTypes, JobTypes, ReadRecord, Copies, Goes
  <2>3. LockTypes'
    BY <1>20, <2>h DEF TypeInv, TypeOK, LockTypes, Applying, ReadRecord, Copies, Goes
  <2>4. Counted'
    BY <1>20, <2>h DEF TypeInv, TypeOK, Counted, Applying, ReadRecord, Copies, Goes
  <2> QED
    BY <2>1, <2>2, <2>3, <2>4 DEF TypeInv, TypeOK
<1>21. ASSUME NEW j \in Jobs, WriteRecord(j) PROVE TypeInv'
  <2>h. Home' = Home
    BY <1>21 DEF WriteRecord, Home
  <2>d. disk' \in State
    BY <1>21, WorkingState DEF TypeInv, TypeOK, JobTypes, WriteRecord, Ends, State
  <2>1. FileTypes'
    BY <1>21, <2>d DEF TypeInv, TypeOK, FileTypes, WriteRecord, Goes
  <2>2. JobTypes'
    BY <1>21
       DEF TypeInv, TypeOK, JobTypes, WriteRecord, Goes, AfterRun, AfterWrite, OwesRecord
  <2>3. LockTypes'
    BY <1>21, <2>h
       DEF TypeInv, TypeOK, LockTypes, Applying, WriteRecord, Goes, AfterRun, AfterWrite,
           OwesRecord
  <2>4. Counted'
    BY <1>21, <2>h
       DEF TypeInv, TypeOK, Counted, Applying, WriteRecord, Goes, AfterRun, AfterWrite,
           OwesRecord
  <2> QED
    BY <2>1, <2>2, <2>3, <2>4 DEF TypeInv, TypeOK
<1>22. CASE UNCHANGED vars
  BY <1>22 DEF TypeInv, TypeOK, FileTypes, JobTypes, LockTypes, Counted, Applying, Home
<1> QED
  BY <1>1, <1>2, <1>3, <1>4, <1>5, <1>6, <1>7, <1>8, <1>9, <1>10, <1>11, <1>12, <1>13,
     <1>14, <1>15, <1>16, <1>17, <1>18, <1>19, <1>20, <1>21, <1>22
     DEF Next, Operator, Executor, Applier

\* The types hold, whoever races whom.
THEOREM TypeCorrect == Spec => []TypeOK
<1>1. TypeInv => TypeOK
  BY DEF TypeInv
<1> QED
  BY <1>1, InitTypes, NextTypes, PTL DEF Spec

-----------------------------------------------------------------------------
(* One session at a time.                                                   *)

\* The job is at the run's state: it executes, or is inside ApplyHeldSteers.
Busy(j) == pc[j] \notin {"idle", "apply", "done"}
InApp == \E j \in Jobs : Home[j] = App

\* What keeps two jobs from the run at once.  An applier has the lock.  A job
\* that executes without it was started when nothing was under way, and until its
\* run has settled no typist starts another: the run is live, or nothing typed
\* waits for a second look.
Exclusive ==
  /\ \A j, k \in Jobs : Busy(j) /\ Busy(k) => j = k
  /\ \A j, k \in Jobs : Busy(j) /\ ~Applying(j) /\ k # j => pc[k] \in {"idle", "done"}
  /\ \A j \in Jobs : pc[j] \in {"work", "ending"} => Live(disk)
  /\ \A j \in Jobs : pc[j] \in {"steer", "begin"} /\ ~Applying(j) =>
       Live(disk) \/ \A q \in Steers : typing[q].stage \in {"none", "told", "unheard"}
  /\ \A j \in Jobs : pc[j] \in {"notified", "record", "recording"} => ~InApp
  /\ \A q \in Steers : typing[q].stage = "seen" => typing[q].proc \in Typists
  /\ \A q \in Steers : typing[q].stage = "queued" => InApp

\* In an orderly scene the jobs are of one process.
LEMMA OneHome ==
  ASSUME Orderly, TypeInv
  PROVE /\ ~scene.overlap
        /\ \A j, k \in Jobs : Home[j] = Home[k]
        /\ scene.notifyFails \/ scene.fix => ~InApp
        /\ Home \in [Jobs -> Procs]
<1>1. scene \in Scenes /\
      scene \in [home : [Jobs -> Procs], notifyFails : BOOLEAN, overlap : BOOLEAN,
                 fix : BOOLEAN]
  BY SteerQueueAssumption DEF TypeInv, TypeOK, FileTypes
<1>2. ~scene.overlap
  BY <1>1 DEF Orderly
<1>3. PICK p \in Procs : /\ scene.home = [j \in Jobs |-> p]
                         /\ scene.notifyFails \/ scene.fix => p # App
  BY <1>1 DEF Orderly
<1>4. \A j \in Jobs : Home[j] = p
  BY <1>3 DEF Home
<1>5. Home \in [Jobs -> Procs]
  BY <1>1 DEF Home
<1> QED
  BY <1>2, <1>3, <1>4, <1>5 DEF InApp

\* The host begins alone.
LEMMA InitExclusive == Init => Exclusive
BY DEF Init, Exclusive, Busy

\* No step lets a second job at the run.
LEMMA NextExclusive == Orderly /\ TypeInv /\ Exclusive /\ [Next]_vars => Exclusive'
<1> SUFFICES ASSUME Orderly, TypeInv, Exclusive, [Next]_vars PROVE Exclusive'
  OBVIOUS
<1>t. /\ typing \in [Steers -> [stage : {"none", "seen", "queued", "told", "unheard"},
                                proc : Procs]]
      /\ pc \in [Jobs -> {"idle", "begin", "work", "ending", "notified", "record",
                          "recording", "apply", "look", "drop", "mark", "steer", "reopen",
                          "done"}]
      /\ disk \in State /\ mem \in [Jobs -> State]
      /\ lock \in [Procs -> Jobs \cup {None}]
      /\ \A j \in Jobs : pc[j] \in {"look", "drop", "mark", "reopen"} => Applying(j)
      /\ \A j \in Jobs : Applying(j) => Busy(j)
  BY DEF TypeInv, TypeOK, FileTypes, JobTypes, LockTypes, Counted, Busy

<1>1. ASSUME NEW q \in Steers, NEW p \in Typists, SeeLive(q, p) PROVE Exclusive'
  <2>h. Home' = Home /\ InApp' = InApp /\ Typists' = Typists
    BY <1>1 DEF SeeLive, Home, InApp, Typists
  <2> QED
    BY <1>1, <2>h DEF Exclusive, Busy, Applying, SeeLive
<1>2. ASSUME NEW q \in Steers, NEW p \in Typists, SteerSettled(q, p) PROVE Exclusive'
  <2>h. Home' = Home /\ InApp' = InApp /\ Typists' = Typists
    BY <1>2 DEF SteerSettled, Home, InApp, Typists
  <2> QED
    BY <1>2, <1>t, OneHome DEF Exclusive, Busy, Quiet, SteerSettled, Goes
<1>3. ASSUME NEW q \in Steers, QueueSteer(q) PROVE Exclusive'
  <2>h. Home' = Home /\ InApp' = InApp /\ Typists' = Typists
    BY <1>3 DEF QueueSteer, Home, InApp, Typists
  <2> QED
    BY <1>3, <2>h DEF Exclusive, Busy, Applying, InApp, Typists, QueueSteer
<1>4. ASSUME NEW q \in Steers, LookAgain(q) PROVE Exclusive'
  <2>h. Home' = Home /\ InApp' = InApp /\ Typists' = Typists
    BY <1>4 DEF LookAgain, Home, InApp, Typists
  <2>t. PICK to \in {"told", "unheard"} : typing' = [typing EXCEPT ![q].stage = to]
    BY <1>4 DEF LookAgain
  <2>1. CASE UNCHANGED job
    <3>1. pc' = pc /\ lock' = lock /\ disk' = disk /\ Home' = Home
      BY <1>4, <2>1, <2>h DEF LookAgain, job, files
    <3>2. \A r \in Steers : typing'[r].stage \in {typing[r].stage, to}
                            /\ typing'[r].proc = typing[r].proc
      BY <1>t, <2>t DEF TypeInv, TypeOK, FileTypes
    <3> QED
      BY <2>h, <3>1, <3>2 DEF Exclusive, Busy, Applying, InApp, Typists, Live
  <2>2. CASE ~UNCHANGED job
    <3>1. PICK j \in Jobs : pc[j] = "idle" /\ Goes(j, "apply")
      BY <1>4, <2>2 DEF LookAgain, Idle
    <3>2. ~Live(disk) /\ typing[q].stage = "queued" /\ InApp
      BY <1>4, <2>2 DEF LookAgain, SettledSince, Exclusive
    <3>3. \A k \in Jobs : Busy(k) => Applying(k)
      BY <1>t, <3>2 DEF Exclusive, Busy
    <3> QED
      BY <1>4, <1>t, <2>h, <3>3 DEF Exclusive, Busy, Applying, LookAgain, Goes
  <2> QED
    BY <2>1, <2>2
<1>5. ASSUME NEW j \in Jobs, Resume(j) PROVE Exclusive'
  <2>h. Home' = Home /\ InApp' = InApp /\ Typists' = Typists
    BY <1>5 DEF Resume, Home, InApp, Typists
  <2> QED
    BY <1>5, OneHome DEF Exclusive, Busy, Quiet, Resume, Goes, Copies
<1>6. ASSUME NEW j \in Jobs, Stop(j) PROVE Exclusive'
  <2>h. Home' = Home /\ InApp' = InApp /\ Typists' = Typists
    BY <1>6 DEF Stop, Home, InApp, Typists
  <2> QED
    BY <1>6, <2>h DEF Exclusive, Busy, Applying, Stop
<1>7. ASSUME NEW j \in Jobs, Begin(j) PROVE Exclusive'
  <2>h. Home' = Home /\ InApp' = InApp /\ Typists' = Typists
    BY <1>7 DEF Begin, Home, InApp, Typists
  <2> QED
    BY <1>7, <1>t, <2>h, MergedState, WorkingState
       DEF Exclusive, Busy, Applying, Begin, Goes, Copies
<1>8. ASSUME NEW j \in Jobs, NeverStarts(j) PROVE Exclusive'
  <2>h. Home' = Home /\ InApp' = InApp /\ Typists' = Typists
    BY <1>8 DEF NeverStarts, Home, InApp, Typists
  <2> QED
    BY <1>8, <1>t, <2>h, OneHome
       DEF Exclusive, Busy, Applying, NeverStarts, Finishes, Copies, Goes, AfterRun,
           AfterWrite, OwesRecord
<1>9. ASSUME NEW j \in Jobs, Save(j) PROVE Exclusive'
  <2>h. Home' = Home /\ InApp' = InApp /\ Typists' = Typists
    BY <1>9 DEF Save, Home, InApp, Typists
  <2> QED
    BY <1>9, <1>t, <2>h, MergedState, WorkingState
       DEF Exclusive, Busy, Applying, Save, Copies
<1>10. ASSUME NEW j \in Jobs, Deliver(j) PROVE Exclusive'
  <2>h. Home' = Home /\ InApp' = InApp /\ Typists' = Typists
    BY <1>10 DEF Deliver, Home, InApp, Typists
  <2>1. Live(disk')
    BY <1>10 DEF Deliver, Working, Live
  <2> QED
    BY <1>10, <2>h, <2>1 DEF Exclusive, Busy, Applying, Deliver
<1>11. ASSUME NEW j \in Jobs, HoldSteers(j) PROVE Exclusive'
  <2>h. Home' = Home /\ InApp' = InApp /\ Typists' = Typists
    BY <1>11 DEF HoldSteers, Home, InApp, Typists
  <2> QED
    BY <1>11, <1>t, <2>h, MergedState, WorkingState
       DEF Exclusive, Busy, Applying, HoldSteers, Copies, Goes
<1>12. ASSUME NEW j \in Jobs, Finish(j) PROVE Exclusive'
  <2>h. Home' = Home /\ InApp' = InApp /\ Typists' = Typists
    BY <1>12 DEF Finish, Home, InApp, Typists
  <2> QED
    BY <1>12, <1>t, <2>h, OneHome
       DEF Exclusive, Busy, Applying, Finish, Finishes, Copies, Goes, AfterRun,
           AfterWrite, OwesRecord
<1>13. ASSUME NEW j \in Jobs, WriteAgain(j) PROVE Exclusive'
  <2>h. Home' = Home /\ InApp' = InApp /\ Typists' = Typists
    BY <1>13 DEF WriteAgain, Home, InApp, Typists
  <2> QED
    BY <1>13, <2>h
       DEF Exclusive, Busy, Applying, WriteAgain, Goes, AfterRun, AfterWrite, OwesRecord
<1>14. ASSUME NEW j \in Jobs, Lock(j) PROVE Exclusive'
  <2>h. Home' = Home /\ InApp' = InApp /\ Typists' = Typists
    BY <1>14 DEF Lock, Home, InApp, Typists
  <2> QED
    BY <1>14, <1>t, <2>h, OneHome, SteerQueueAssumption
       DEF Exclusive, Busy, Applying, Lock, Goes, Free
<1>15. ASSUME NEW j \in Jobs, LookHeld(j) PROVE Exclusive'
  <2>h. Home' = Home /\ InApp' = InApp /\ Typists' = Typists
    BY <1>15 DEF LookHeld, Home, InApp, Typists
  <2> QED
    BY <1>15, <1>t, <2>h DEF Exclusive, Busy, Applying, LookHeld, Copies, Goes, Leaves
<1>16. ASSUME NEW j \in Jobs, DropHeld(j) PROVE Exclusive'
  <2>h. Home' = Home /\ InApp' = InApp /\ Typists' = Typists
    BY <1>16 DEF DropHeld, Home, InApp, Typists
  <2> QED
    BY <1>16, <1>t, <2>h DEF Exclusive, Busy, DropHeld, Leaves, Goes
<1>17. ASSUME NEW j \in Jobs, MarkApplied(j) PROVE Exclusive'
  <2>h. Home' = Home /\ InApp' = InApp /\ Typists' = Typists
    BY <1>17 DEF MarkApplied, Home, InApp, Typists
  <2>1. /\ Applying(j) /\ pc[j] = "mark" /\ pc' = [pc EXCEPT ![j] = "steer"]
        /\ \A k \in Jobs : k # j => pc[k] \in {"idle", "apply", "done"}
        /\ UNCHANGED <<lock, typing>>
    BY <1>17, <1>t DEF MarkApplied, Goes, Exclusive, Busy
  <2> QED
    BY <2>h, <2>1 DEF Exclusive, Busy, Applying
<1>18. ASSUME NEW j \in Jobs, Steer(j) PROVE Exclusive'
  <2>h. Home' = Home /\ InApp' = InApp /\ Typists' = Typists
    BY <1>18 DEF Steer, Home, InApp, Typists
  <2> QED
    BY <1>18, <1>t, <2>h DEF Exclusive, Busy, Applying, Steer, Copies, Goes
<1>19. ASSUME NEW j \in Jobs, Reopen(j) PROVE Exclusive'
  <2>h. Home' = Home /\ InApp' = InApp /\ Typists' = Typists
    BY <1>19 DEF Reopen, Home, InApp, Typists
  <2> QED
    BY <1>19, <2>h DEF Exclusive, Busy, Applying, Reopen, Copies, Goes
<1>20. ASSUME NEW j \in Jobs, ReadRecord(j) PROVE Exclusive'
  <2>h. Home' = Home /\ InApp' = InApp /\ Typists' = Typists
    BY <1>20 DEF ReadRecord, Home, InApp, Typists
  <2> QED
    BY <1>20, <2>h DEF Exclusive, Busy, Applying, ReadRecord, Copies, Goes
<1>21. ASSUME NEW j \in Jobs, WriteRecord(j) PROVE Exclusive'
  <2>h. Home' = Home /\ InApp' = InApp /\ Typists' = Typists
    BY <1>21 DEF WriteRecord, Home, InApp, Typists
  <2>1. /\ pc[j] = "recording" /\ UNCHANGED <<typing, lock>>
        /\ \E to \in {"look", "apply", "done", "record"} : pc' = [pc EXCEPT ![j] = to]
        /\ \A k \in Jobs : k # j => pc[k] \in {"idle", "apply", "done"}
        /\ Applying(j) \/ \A k \in Jobs : k # j => pc[k] \in {"idle", "done"}
    BY <1>21, <1>t
       DEF WriteRecord, Goes, AfterRun, AfterWrite, OwesRecord, Exclusive, Busy
  <2> QED
    BY <1>t, <2>h, <2>1 DEF Exclusive, Busy, Applying
<1>22. CASE UNCHANGED vars
  BY <1>22 DEF Exclusive, Busy, Applying, Home, InApp, Typists
<1> QED
  BY <1>1, <1>2, <1>3, <1>4, <1>5, <1>6, <1>7, <1>8, <1>9, <1>10, <1>11, <1>12, <1>13,
     <1>14, <1>15, <1>16, <1>17, <1>18, <1>19, <1>20, <1>21, <1>22
     DEF Next, Operator, Executor, Applier

\* No two sessions are at work in an orderly scene, whatever is typed, resumed
\* and stopped and however many jobs look again.
THEOREM OneSessionAtATime == ASSUME Orderly PROVE Spec => []OneSession
<1>1. Exclusive => OneSession
  <2> SUFFICES ASSUME Exclusive PROVE OneSession
    OBVIOUS
  <2> DEFINE W == {j \in Jobs : pc[j] \in {"work", "ending"}}
  <2>1. \A j, k \in W : j = k
    BY DEF Exclusive, Busy
  <2>4. Cardinality(W) <= 1 => OneSession
    BY DEF OneSession
  <2>2. CASE W = {}
    BY <2>2, <2>4, FS_EmptySet
  <2>3. CASE W # {}
    <3>1. PICK j \in W : W = {j}
      BY <2>1, <2>3
    <3> QED
      BY <3>1, <2>4, FS_Singleton
  <2> QED
    BY <2>2, <2>3
<1> QED
  BY <1>1, InitTypes, NextTypes, InitExclusive, NextExclusive, PTL DEF Spec

-----------------------------------------------------------------------------
(* What a state says of an instruction.                                     *)

\* Nothing has settled what becomes of the instruction.
Fresh(st, q) == st.queue[q] \in {"absent", "queued", "held"}

\* The state tells the truth about the instruction.
Truthful(st, q) ==
  /\ q \in inbox /\ Fresh(st, q) => read[q] = 0
  /\ st.queue[q] = "dropped" => read[q] = 0
  /\ st.queue[q] = "delivered" => read[q] > 0

\* A job whose copy may go to the file: nothing is written beside it.
Copying == {"begin", "work", "ending", "notified", "recording", "drop", "mark"}

\* An instruction is in a state only if it is in the inbox, and in the inbox only
\* when its typist has appended it; until then nobody reads it.
Typed == \A q \in Steers :
  /\ q \in inbox => typing[q].stage \in {"queued", "told", "unheard"}
  /\ typing[q].stage = "queued" => q \in inbox
  /\ typing[q].stage \in {"none", "seen"} => read[q] = 0
  /\ disk.queue[q] # "absent" => q \in inbox
  /\ \A j \in Jobs : mem[j].queue[q] # "absent" => q \in inbox

\* A copy in use tells the truth, and what the file has settled it has too.
Copied == \A j \in Jobs, q \in Steers : pc[j] \in Copying =>
  /\ Truthful(mem[j], q)
  /\ ~Fresh(disk, q) => mem[j].queue[q] = disk.queue[q]

\* Nobody has read what the next session is to be started with.  What it has from
\* the inbox is marked applied, in the file and in the executor's copy, from
\* before the session is started until it is.
Batched == \A j \in Jobs : \A q \in batch[j] :
  /\ pc[j] # "idle"
  /\ pc[j] \in {"steer", "begin", "drop", "mark", "reopen"} =>
       /\ read[q] = 0
       /\ typing[q].stage \in {"queued", "told", "unheard"}
       /\ Applying(j) => q \in inbox
  /\ pc[j] \in {"steer", "begin", "reopen"} /\ q \in inbox => disk.queue[q] = "applied"
  /\ pc[j] = "begin" /\ q \in inbox => mem[j].queue[q] = "applied"
  /\ pc[j] = "mark" => Fresh(mem[j], q)
  /\ pc[j] = "drop" => disk.queue[q] \notin {"delivered", "dropped"}

OnDisk == \A q \in Steers : Truthful(disk, q) /\ read[q] <= 1

Records == Typed /\ Copied /\ Batched /\ OnDisk

\* Nobody has typed anything.
LEMMA InitRecords == Init => Records
BY DEF Init, Records, Typed, Copied, Batched, OnDisk, Truthful

\* What RecordStands says of a step.
Stands ==
  \A q \in Steers :
    /\ disk.queue[q] \in {"delivered", "dropped"} => disk'.queue[q] = disk.queue[q]
    /\ disk.queue[q] = "applied" => disk'.queue[q] \in {"applied", "dropped"}

\* Every step keeps the record true.
LEMMA NextRecords ==
  Orderly /\ TypeInv /\ Exclusive /\ Records /\ [Next]_vars => Records' /\ [Stands]_vars
<1> SUFFICES ASSUME Orderly, TypeInv, Exclusive, Records, [Next]_vars PROVE Records' /\ [Stands]_vars
  OBVIOUS
<1>t. /\ typing \in [Steers -> [stage : {"none", "seen", "queued", "told", "unheard"},
                                proc : Procs]]
      /\ pc \in [Jobs -> {"idle", "begin", "work", "ending", "notified", "record",
                          "recording", "apply", "look", "drop", "mark", "steer", "reopen",
                          "done"}]
      /\ disk \in State /\ mem \in [Jobs -> State] /\ batch \in [Jobs -> SUBSET Steers]
      /\ lock \in [Procs -> Jobs \cup {None}] /\ read \in [Steers -> Nat]
      /\ inbox \subseteq Steers
      /\ \A j \in Jobs : pc[j] \in {"look", "drop", "mark", "reopen"} => Applying(j)
      /\ \A j \in Jobs : Applying(j) => Busy(j)
      /\ \A j, k \in Jobs : Busy(j) /\ Busy(k) => j = k
  BY DEF TypeInv, TypeOK, FileTypes, JobTypes, LockTypes, Counted, Busy, Exclusive

<1>1. ASSUME NEW q \in Steers, NEW p \in Typists, SeeLive(q, p) PROVE Records' /\ Stands
  <2>h. Home' = Home
    BY <1>1 DEF SeeLive, Home
  <2>1. Typed'
    BY <1>1 DEF Records, Typed, SeeLive
  <2>2. Copied'
    BY <1>1 DEF Records, Copied, Truthful, SeeLive
  <2>3. Batched'
    BY <1>1, <2>h DEF Records, Batched, Applying, SeeLive
  <2>4. OnDisk'
    BY <1>1 DEF Records, OnDisk, Truthful, SeeLive
  <2>5. Stands
    BY <1>1 DEF Records, Stands, SeeLive
  <2> QED
    BY <2>1, <2>2, <2>3, <2>4, <2>5 DEF Records
<1>2. ASSUME NEW q \in Steers, NEW p \in Typists, SteerSettled(q, p) PROVE Records' /\ Stands
  <2>h. Home' = Home
    BY <1>2 DEF SteerSettled, Home
  <2>1. Typed'
    BY <1>2 DEF Records, Typed, SteerSettled, Goes
  <2>2. Copied'
    BY <1>2, <1>t DEF Records, Copied, Copying, Truthful, SteerSettled, Goes
  <2>3. Batched'
    BY <1>2, <1>t, <2>h
       DEF Records, Busy, Batched, Typed, Applying, SteerSettled, Goes, Idle
  <2>4. OnDisk'
    BY <1>2 DEF Records, OnDisk, Truthful, SteerSettled, Goes
  <2>5. Stands
    BY <1>2 DEF Records, Stands, SteerSettled, Goes
  <2> QED
    BY <2>1, <2>2, <2>3, <2>4, <2>5 DEF Records
<1>3. ASSUME NEW q \in Steers, QueueSteer(q) PROVE Records' /\ Stands
  <2>h. Home' = Home
    BY <1>3 DEF QueueSteer, Home
  <2>1. Typed'
    BY <1>3, <1>t DEF Records, Typed, QueueSteer
  <2>2. Copied'
    BY <1>3 DEF Records, Copied, Typed, Truthful, QueueSteer
  <2>3. Batched'
    BY <1>3, <2>h DEF Records, Batched, Applying, QueueSteer
  <2>4. OnDisk'
    BY <1>3 DEF Records, OnDisk, Typed, Truthful, QueueSteer
  <2>5. Stands
    BY <1>3 DEF Records, Stands, QueueSteer
  <2> QED
    BY <2>1, <2>2, <2>3, <2>4, <2>5 DEF Records
<1>4. ASSUME NEW q \in Steers, LookAgain(q) PROVE Records' /\ Stands
  <2>h. Home' = Home
    BY <1>4 DEF LookAgain, Home
  <2>t. PICK to \in {"told", "unheard"} : typing' = [typing EXCEPT ![q].stage = to]
    BY <1>4 DEF LookAgain
  <2>1. Typed'
    <3>1. inbox' = inbox /\ disk' = disk /\ mem' = mem /\ read' = read /\ q \in inbox
      BY <1>4 DEF Records, Typed, LookAgain, files, job
    <3>2. \A r \in Steers : typing'[r].stage = IF r = q THEN to ELSE typing[r].stage
      BY <1>t, <2>t DEF TypeInv, TypeOK, FileTypes
    <3> QED
      BY <3>1, <3>2 DEF Records, Typed
  <2>2. Copied'
    BY <1>4, <1>t DEF Records, Copied, Copying, Truthful, LookAgain, Goes
  <2>3. Batched'
    BY <1>4, <1>t, <2>h DEF Records, Batched, Applying, LookAgain, Goes
  <2>4. OnDisk'
    BY <1>4 DEF Records, OnDisk, Truthful, LookAgain, Goes
  <2>5. Stands
    BY <1>4 DEF Records, Stands, LookAgain, Goes
  <2> QED
    BY <2>1, <2>2, <2>3, <2>4, <2>5 DEF Records
<1>5. ASSUME NEW j \in Jobs, Resume(j) PROVE Records' /\ Stands
  <2>h. Home' = Home
    BY <1>5 DEF Resume, Home
  <2>1. Typed'
    BY <1>5 DEF Records, Typed, Resume, Goes, Copies
  <2>2. Copied'
    BY <1>5, <1>t DEF Records, Copied, OnDisk, Truthful, Resume, Goes, Copies
  <2>3. Batched'
    BY <1>5, <2>h DEF Records, Batched, Applying, Resume, Goes, Copies, Idle
  <2>4. OnDisk'
    BY <1>5 DEF Records, OnDisk, Truthful, Resume, Goes, Copies
  <2>5. Stands
    BY <1>5 DEF Records, Stands, Resume, Goes, Copies
  <2> QED
    BY <2>1, <2>2, <2>3, <2>4, <2>5 DEF Records
<1>6. ASSUME NEW j \in Jobs, Stop(j) PROVE Records' /\ Stands
  <2>h. Home' = Home
    BY <1>6 DEF Stop, Home
  <2>1. Typed'
    BY <1>6 DEF Records, Typed, Stop
  <2>2. Copied'
    BY <1>6 DEF Records, Copied, Truthful, Stop
  <2>3. Batched'
    BY <1>6, <2>h DEF Records, Batched, Applying, Stop
  <2>4. OnDisk'
    BY <1>6 DEF Records, OnDisk, Truthful, Stop
  <2>5. Stands
    BY <1>6 DEF Records, Stands, Stop
  <2> QED
    BY <2>1, <2>2, <2>3, <2>4, <2>5 DEF Records
<1>7. ASSUME NEW j \in Jobs, Begin(j) PROVE Records' /\ Stands
  <2>h. Home' = Home
    BY <1>7 DEF Begin, Home
  <2>o. \A k \in Jobs : k # j => pc[k] \in {"idle", "apply", "done"}
    BY <1>7, <1>t DEF Busy, Begin
  <2>m. PICK st \in State :
          /\ mem' = [mem EXCEPT ![j] = st] /\ disk' \in State /\ disk'.queue = st.queue
          /\ \A q \in Steers : st.queue[q] =
               IF mem[j].queue[q] = "absent" /\ q \in inbox THEN "queued" ELSE mem[j].queue[q]
          /\ \A q \in Steers : read'[q] = IF q \in batch[j] THEN read[q] + 1 ELSE read[q]
          /\ pc[j] = "begin" /\ pc' = [pc EXCEPT ![j] = "work"]
          /\ UNCHANGED <<inbox, typing, batch, lock>>
    <3> DEFINE seen == Merged(mem[j])
    <3>1. seen \in State /\ \A q \in Steers : seen.queue[q] =
            IF mem[j].queue[q] = "absent" /\ q \in inbox THEN "queued" ELSE mem[j].queue[q]
      BY <1>t, MergedState
    <3>2. /\ mem' = [mem EXCEPT ![j] = seen] /\ disk' = Working(seen)
          /\ read' = [q \in Steers |-> read[q] + (IF q \in batch[j] THEN 1 ELSE 0)]
          /\ pc[j] = "begin" /\ pc' = [pc EXCEPT ![j] = "work"]
          /\ UNCHANGED <<inbox, typing, batch, lock>>
      BY <1>7 DEF Begin, Given, Copies, Goes
    <3> HIDE DEF seen
    <3>3. disk' \in State /\ disk'.queue = seen.queue
      BY <3>1, <3>2, WorkingState
    <3>4. \A q \in Steers : read'[q] = IF q \in batch[j] THEN read[q] + 1 ELSE read[q]
      BY <1>t, <3>2
    <3> seen \in State
      BY <3>1
    <3> WITNESS seen \in State
    <3> QED
      BY <3>1, <3>2, <3>3, <3>4
  <2>1. Typed'
    BY <2>m DEF Records, Typed, Batched
  <2>2. Copied'
    BY <2>o, <2>m DEF Records, Copied, Batched, Typed, Copying, Truthful, Fresh
  <2>3. Batched'
    BY <1>t, <2>o, <2>m DEF Records, Batched
  <2>4. OnDisk'
    BY <2>m DEF Records, OnDisk, Batched, Copied, Typed, Copying, Truthful, Fresh
  <2>5. Stands
    BY <2>m DEF Records, Stands, Copied, Copying, Fresh
  <2> QED
    BY <2>1, <2>2, <2>3, <2>4, <2>5 DEF Records
<1>8. ASSUME NEW j \in Jobs, NeverStarts(j) PROVE Records' /\ Stands
  <2>h. Home' = Home
    BY <1>8 DEF NeverStarts, Home
  <2>o. \A k \in Jobs : k # j => pc[k] \in {"idle", "apply", "done"}
    BY <1>8, <1>t DEF Busy, NeverStarts
  <2>e. PICK end \in Ends : Finishes(j, end)
    BY <1>8 DEF NeverStarts, Ends
  <2>m. /\ mem' = [mem EXCEPT ![j] = disk'] /\ disk' \in State /\ disk'.queue = mem[j].queue
        /\ pc[j] \in Copying
        /\ \E to \in {"look", "apply", "done", "notified", "record"} :
             pc' = [pc EXCEPT ![j] = to]
        /\ UNCHANGED <<inbox, typing, batch, lock, read>>
    BY <1>8, <1>t, <2>e, WorkingState
       DEF NeverStarts, Finishes, Copies, Goes, AfterRun, AfterWrite, OwesRecord, Copying
  <2>1. Typed'
    BY <2>m DEF Records, Typed
  <2>2. Copied'
    BY <2>o, <2>m DEF Records, Copied, Copying, Truthful, Fresh
  <2>3. Batched'
    BY <1>t, <2>o, <2>m DEF Records, Batched
  <2>4. OnDisk'
    BY <2>m DEF Records, OnDisk, Copied, Truthful, Fresh
  <2>5. Stands
    BY <2>m DEF Records, Stands, Copied, Fresh
  <2> QED
    BY <2>1, <2>2, <2>3, <2>4, <2>5 DEF Records
<1>9. ASSUME NEW j \in Jobs, Save(j) PROVE Records' /\ Stands
  <2>h. Home' = Home
    BY <1>9 DEF Save, Home
  <2>o. \A k \in Jobs : k # j => pc[k] \in {"idle", "apply", "done"}
    BY <1>9, <1>t DEF Busy, Save
  <2>m. PICK st \in State :
          /\ mem' = [mem EXCEPT ![j] = st] /\ disk' \in State /\ disk'.queue = st.queue
          /\ \A q \in Steers : st.queue[q] = mem[j].queue[q] \/
               (mem[j].queue[q] = "absent" /\ st.queue[q] = "queued" /\ q \in inbox)
          /\ pc[j] = "work" /\ UNCHANGED <<inbox, typing, batch, lock, pc, read>>
    <3>1. PICK st \in {mem[j], Merged(mem[j])} : Copies(j, st) /\ disk' = Working(st)
      BY <1>9 DEF Save
    <3>4. Merged(mem[j]) \in State /\ \A q \in Steers : Merged(mem[j]).queue[q] =
            IF mem[j].queue[q] = "absent" /\ q \in inbox THEN "queued" ELSE mem[j].queue[q]
      BY <1>t, MergedState
    <3>2. st \in State /\ disk' \in State /\ disk'.queue = st.queue
      BY <1>t, <3>1, <3>4, WorkingState
    <3>3. \A q \in Steers : st.queue[q] = mem[j].queue[q] \/
               (mem[j].queue[q] = "absent" /\ st.queue[q] = "queued" /\ q \in inbox)
      BY <3>1, <3>4
    <3> QED
      BY <1>9, <3>1, <3>2, <3>3 DEF Save, Copies
  <2>1. Typed'
    BY <2>m DEF Records, Typed
  <2>2. Copied'
    BY <2>o, <2>m DEF Records, Copied, Batched, Copying, Truthful, Fresh
  <2>3. Batched'
    BY <2>o, <2>m DEF Records, Batched
  <2>4. OnDisk'
    BY <2>m DEF Records, OnDisk, Copied, Copying, Truthful, Fresh
  <2>5. Stands
    BY <2>m DEF Records, Stands, Copied, Copying, Fresh
  <2> QED
    BY <2>1, <2>2, <2>3, <2>4, <2>5 DEF Records
<1>10. ASSUME NEW j \in Jobs, Deliver(j) PROVE Records' /\ Stands
  <2>h. Home' = Home
    BY <1>10 DEF Deliver, Home
  <2>o. \A k \in Jobs : k # j => pc[k] \in {"idle", "apply", "done"}
    BY <1>10, <1>t DEF Busy, Deliver
  <2>m. PICK st \in State, B \in SUBSET Steers :
          /\ mem' = [mem EXCEPT ![j] = st] /\ disk' \in State /\ disk'.queue = st.queue
          /\ \A q \in B : st.queue[q] = "delivered" /\ q \in inbox /\ Fresh(mem[j], q)
          /\ \A q \in Steers \ B : st.queue[q] =
               IF mem[j].queue[q] = "absent" /\ q \in inbox THEN "queued" ELSE mem[j].queue[q]
          /\ \A q \in Steers : read'[q] = IF q \in B THEN read[q] + 1 ELSE read[q]
          /\ pc[j] = "work"
          /\ UNCHANGED <<inbox, typing, batch, lock, pc>>
    <3> DEFINE seen == Merged(mem[j])
               told == Pending(seen) \ OtherModel
               after == Resolved(seen, told, "delivered")
    <3>1. seen \in State /\ \A q \in Steers : seen.queue[q] =
            IF mem[j].queue[q] = "absent" /\ q \in inbox THEN "queued" ELSE mem[j].queue[q]
      BY <1>t, MergedState
    <3>2. told \in SUBSET Steers /\ \A q \in told : q \in inbox /\ Fresh(mem[j], q)
      BY <3>1 DEF Pending, Fresh, Records, Typed
    <3>4. /\ mem' = [mem EXCEPT ![j] = after] /\ disk' = Working(after)
          /\ read' = [q \in Steers |-> read[q] + (IF q \in told THEN 1 ELSE 0)]
          /\ pc[j] = "work" /\ UNCHANGED <<inbox, typing, batch, lock, pc>>
      BY <1>10 DEF Deliver, Given, Copies
    <3> HIDE DEF seen, told
    <3>3. after \in State /\ \A q \in Steers : after.queue[q] =
            IF q \in told THEN "delivered" ELSE seen.queue[q]
      BY <3>1, ResolvedState DEF Verdicts
    <3> HIDE DEF after
    <3>5. disk' \in State /\ disk'.queue = after.queue
      BY <3>3, <3>4, WorkingState
    <3>6. \A q \in Steers : read'[q] = IF q \in told THEN read[q] + 1 ELSE read[q]
      BY <1>t, <3>4
    <3> after \in State /\ told \in SUBSET Steers
      BY <3>2, <3>3
    <3> WITNESS after \in State, told \in SUBSET Steers
    <3> QED
      BY <3>1, <3>2, <3>3, <3>4, <3>5, <3>6
  <2>1. Typed'
    BY <2>m DEF Records, Typed
  <2>2. Copied'
    BY <1>t, <2>o, <2>m DEF Records, Copied, Copying, Truthful, Fresh
  <2>3. Batched'
    BY <2>o, <2>m DEF Records, Batched
  <2>4. OnDisk'
    BY <2>m DEF Records, OnDisk, Copied, Copying, Truthful, Fresh
  <2>5. Stands
    BY <2>m DEF Records, Stands, Copied, Copying, Fresh
  <2> QED
    BY <2>1, <2>2, <2>3, <2>4, <2>5 DEF Records
<1>11. ASSUME NEW j \in Jobs, HoldSteers(j) PROVE Records' /\ Stands
  <2>h. Home' = Home
    BY <1>11 DEF HoldSteers, Home
  <2>o. \A k \in Jobs : k # j => pc[k] \in {"idle", "apply", "done"}
    BY <1>11, <1>t DEF Busy, HoldSteers
  <2>m. PICK st \in State, held \in State :
          /\ mem' = [mem EXCEPT ![j] = held] /\ disk' \in State
          /\ disk' = disk \/ disk'.queue = st.queue
          /\ \A q \in Steers : st.queue[q] =
               IF mem[j].queue[q] = "absent" /\ q \in inbox THEN "queued" ELSE mem[j].queue[q]
          /\ \A q \in Steers : held.queue[q] =
               IF st.queue[q] = "queued" THEN "held" ELSE st.queue[q]
          /\ pc[j] = "work" /\ pc' = [pc EXCEPT ![j] = "ending"]
          /\ UNCHANGED <<inbox, typing, batch, lock, read>>
    <3> DEFINE seen == Merged(mem[j])
    <3>1. seen \in State /\ \A q \in Steers : seen.queue[q] =
            IF mem[j].queue[q] = "absent" /\ q \in inbox THEN "queued" ELSE mem[j].queue[q]
      BY <1>t, MergedState
    <3>2. /\ mem' = [mem EXCEPT ![j] = HeldState(seen)]
          /\ disk' = IF seen # mem[j] THEN Working(seen) ELSE disk
          /\ pc[j] = "work" /\ pc' = [pc EXCEPT ![j] = "ending"]
          /\ UNCHANGED <<inbox, typing, batch, lock, read>>
      BY <1>11 DEF HoldSteers, Copies, Goes
    <3> HIDE DEF seen
    <3>3. /\ HeldState(seen) \in State
          /\ \A q \in Steers : HeldState(seen).queue[q] =
               IF seen.queue[q] = "queued" THEN "held" ELSE seen.queue[q]
      BY <3>1, HeldStateState
    <3>4. disk' \in State /\ (disk' = disk \/ disk'.queue = seen.queue)
      BY <1>t, <3>1, <3>2, WorkingState
    <3> HeldState(seen) \in State /\ seen \in State
      BY <3>1, <3>3
    <3> WITNESS seen \in State, HeldState(seen) \in State
    <3> QED
      BY <3>1, <3>2, <3>3, <3>4
  <2>1. Typed'
    BY <2>m DEF Records, Typed
  <2>2. Copied'
    BY <2>o, <2>m DEF Records, Copied, Copying, Truthful, Fresh
  <2>3. Batched'
    BY <2>o, <2>m DEF Records, Batched
  <2>4. OnDisk'
    BY <2>m DEF Records, OnDisk, Copied, Typed, Copying, Truthful, Fresh
  <2>5. Stands
    BY <2>m DEF Records, Stands, Copied, Copying, Fresh
  <2> QED
    BY <2>1, <2>2, <2>3, <2>4, <2>5 DEF Records
<1>12. ASSUME NEW j \in Jobs, Finish(j) PROVE Records' /\ Stands
  <2>h. Home' = Home
    BY <1>12 DEF Finish, Home
  <2>o. \A k \in Jobs : k # j => pc[k] \in {"idle", "apply", "done"}
    BY <1>12, <1>t DEF Busy, Finish
  <2>e. PICK end \in Ends : Finishes(j, end)
    BY <1>12 DEF Finish
  <2>m. /\ mem' = [mem EXCEPT ![j] = disk'] /\ disk' \in State /\ disk'.queue = mem[j].queue
        /\ pc[j] \in Copying
        /\ \E to \in {"look", "apply", "done", "notified", "record"} :
             pc' = [pc EXCEPT ![j] = to]
        /\ UNCHANGED <<inbox, typing, batch, lock, read>>
    BY <1>12, <1>t, WorkingState
       DEF Finish, Finishes, Copies, Goes, AfterRun, AfterWrite, OwesRecord, Copying
  <2>1. Typed'
    BY <2>m DEF Records, Typed
  <2>2. Copied'
    BY <2>o, <2>m DEF Records, Copied, Copying, Truthful, Fresh
  <2>3. Batched'
    BY <1>t, <2>o, <2>m DEF Records, Batched
  <2>4. OnDisk'
    BY <2>m DEF Records, OnDisk, Copied, Truthful, Fresh
  <2>5. Stands
    BY <2>m DEF Records, Stands, Copied, Fresh
  <2> QED
    BY <2>1, <2>2, <2>3, <2>4, <2>5 DEF Records
<1>13. ASSUME NEW j \in Jobs, WriteAgain(j) PROVE Records' /\ Stands
  <2>h. Home' = Home
    BY <1>13 DEF WriteAgain, Home
  <2>1. Typed'
    BY <1>13 DEF Records, Typed, WriteAgain, Goes
  <2>2. Copied'
    BY <1>13, <1>t DEF Records, Busy, Copied, Copying, Truthful, WriteAgain, Goes
  <2>3. Batched'
    BY <1>13, <1>t
       DEF Records, Busy, Batched, Fresh, WriteAgain, Goes, AfterRun, AfterWrite,
           OwesRecord
  <2>4. OnDisk'
    BY <1>13 DEF Records, OnDisk, Copied, Copying, Truthful, WriteAgain, Goes
  <2>5. Stands
    BY <1>13 DEF Records, Stands, Copied, Copying, Fresh, WriteAgain, Goes
  <2> QED
    BY <2>1, <2>2, <2>3, <2>4, <2>5 DEF Records
<1>14. ASSUME NEW j \in Jobs, Lock(j) PROVE Records' /\ Stands
  <2>h. Home' = Home
    BY <1>14 DEF Lock, Home
  <2>1. Typed'
    BY <1>14 DEF Records, Typed, Lock, Goes
  <2>2. Copied'
    BY <1>14 DEF Records, Copied, Copying, Truthful, Lock, Goes
  <2>3. Batched'
    BY <1>14, <2>h DEF Records, Batched, Applying, Lock, Goes
  <2>4. OnDisk'
    BY <1>14 DEF Records, OnDisk, Truthful, Lock, Goes
  <2>5. Stands
    BY <1>14 DEF Records, Stands, Lock, Goes
  <2> QED
    BY <2>1, <2>2, <2>3, <2>4, <2>5 DEF Records
<1>15. ASSUME NEW j \in Jobs, LookHeld(j) PROVE Records' /\ Stands
  <2>h. Home' = Home
    BY <1>15 DEF LookHeld, Home
  <2>1. Typed'
    BY <1>15, <1>t, MergedState DEF Records, Typed, LookHeld, Copies, Goes
  <2>2. Copied'
    BY <1>15, <1>t, MergedState
       DEF Records, Copied, OnDisk, Truthful, Fresh, LookHeld, Copies, Goes, Leaves
  <2>3. Batched'
    BY <1>15, <1>t, MergedState
       DEF Records, Busy, Batched, Typed, OnDisk, Truthful, Fresh, LookHeld, Copies,
           Goes, Leaves, Pending
  <2>4. OnDisk'
    BY <1>15 DEF Records, OnDisk, Truthful, LookHeld, Copies, Goes
  <2>5. Stands
    BY <1>15 DEF Records, Stands, LookHeld, Copies, Goes
  <2> QED
    BY <2>1, <2>2, <2>3, <2>4, <2>5 DEF Records
<1>16. ASSUME NEW j \in Jobs, DropHeld(j) PROVE Records' /\ Stands
  <2>h. Home' = Home
    BY <1>16 DEF DropHeld, Home
  <2>o. \A k \in Jobs : k # j => pc[k] \in {"idle", "apply", "done"}
    BY <1>16, <1>t DEF Busy, DropHeld
  <2>m. /\ disk' \in State
        /\ \A q \in Steers : disk'.queue[q] = IF q \in batch[j] THEN "dropped" ELSE mem[j].queue[q]
        /\ pc[j] = "drop" /\ \E to \in {"apply", "done"} : pc' = [pc EXCEPT ![j] = to]
        /\ lock' = [lock EXCEPT ![Home[j]] = None]
        /\ UNCHANGED <<inbox, typing, batch, mem, read>>
    <3>1. disk' = Resolved(mem[j], batch[j], "dropped") /\ Leaves(j) /\ pc[j] = "drop"
          /\ UNCHANGED <<inbox, typing, batch, mem, read>>
      BY <1>16 DEF DropHeld
    <3>2. disk' \in State /\ \A q \in Steers :
            disk'.queue[q] = IF q \in batch[j] THEN "dropped" ELSE mem[j].queue[q]
      BY <1>t, <3>1, ResolvedState DEF Verdicts
    <3> QED
      BY <3>1, <3>2 DEF Leaves, Goes
  <2>1. Typed'
    BY <1>t, <2>m DEF Records, Typed, Batched
  <2>2. Copied'
    BY <1>t, <2>o, <2>m DEF Records, Copied, Copying
  <2>3. Batched'
    BY <1>t, <2>o, <2>m DEF Records, Batched, Applying
  <2>4. OnDisk'
    BY <2>m DEF Records, OnDisk, Batched, Copied, Copying, Truthful, Fresh
  <2>5. Stands
    BY <2>m DEF Records, Stands, Copied, Copying, Fresh, Batched
  <2> QED
    BY <2>1, <2>2, <2>3, <2>4, <2>5 DEF Records
<1>17. ASSUME NEW j \in Jobs, MarkApplied(j) PROVE Records' /\ Stands
  <2>h. Home' = Home
    BY <1>17 DEF MarkApplied, Home
  <2>o. \A k \in Jobs : k # j => pc[k] \in {"idle", "apply", "done"}
    BY <1>17, <1>t DEF Busy, MarkApplied
  <2>m. /\ disk' \in State
        /\ \A q \in Steers : disk'.queue[q] = IF q \in batch[j] THEN "applied" ELSE mem[j].queue[q]
        /\ pc[j] = "mark" /\ pc' = [pc EXCEPT ![j] = "steer"]
        /\ UNCHANGED <<inbox, typing, batch, lock, mem, read>>
    BY <1>17, <1>t, ResolvedState DEF MarkApplied, Marked, Goes, Verdicts
  <2>1. Typed'
    BY <1>t, <2>m DEF Records, Typed, Copied, Batched
  <2>2. Copied'
    BY <1>t, <2>o, <2>m DEF Records, Copied, Copying
  <2>3. Batched'
    BY <1>t, <2>o, <2>m DEF Records, Batched
  <2>4. OnDisk'
    BY <2>m DEF Records, OnDisk, Copied, Copying, Truthful, Fresh
  <2>5. Stands
    BY <2>m DEF Records, Stands, Copied, Copying, Fresh, Batched
  <2> QED
    BY <2>1, <2>2, <2>3, <2>4, <2>5 DEF Records
<1>18. ASSUME NEW j \in Jobs, Steer(j) PROVE Records' /\ Stands
  <2>h. Home' = Home
    BY <1>18 DEF Steer, Home
  <2>o. \A k \in Jobs : k # j => pc[k] \in {"idle", "apply", "done"}
    BY <1>18, <1>t DEF Busy, Steer
  <2>m. /\ pc[j] = "steer"
        /\ \/ mem' = [mem EXCEPT ![j] = disk] /\ pc' = [pc EXCEPT ![j] = "begin"]
           \/ mem' = mem /\ Applying(j) /\ pc' = [pc EXCEPT ![j] = "reopen"]
           \/ mem' = mem /\ \E to \in {"look", "apply", "done"} : pc' = [pc EXCEPT ![j] = to]
        /\ UNCHANGED <<disk, inbox, typing, batch, lock, read>>
    BY <1>18 DEF Steer, Copies, Goes
  <2>1. Typed'
    BY <1>t, <2>m DEF Records, Typed
  <2>2. Copied'
    BY <1>t, <2>m DEF Records, Copied, OnDisk, Copying, Truthful
  <2>3. Batched'
    BY <1>t, <2>h, <2>m DEF Records, Batched, Applying
  <2>4. OnDisk'
    BY <2>m DEF Records, OnDisk, Truthful
  <2>5. Stands
    BY <2>m DEF Records, Stands
  <2> QED
    BY <2>1, <2>2, <2>3, <2>4, <2>5 DEF Records
<1>19. ASSUME NEW j \in Jobs, Reopen(j) PROVE Records' /\ Stands
  <2>h. Home' = Home
    BY <1>19 DEF Reopen, Home
  <2>1. Typed'
    BY <1>19 DEF Records, Typed, Reopen, Copies, Goes
  <2>2. Copied'
    BY <1>19, <1>t DEF Records, Copied, OnDisk, Truthful, Reopen, Copies, Goes
  <2>3. Batched'
    BY <1>19, <1>t DEF Records, Busy, Batched, Reopen, Copies, Goes
  <2>4. OnDisk'
    BY <1>19 DEF Records, OnDisk, Truthful, Reopen, Copies, Goes
  <2>5. Stands
    BY <1>19 DEF Records, Stands, Reopen, Copies, Goes
  <2> QED
    BY <2>1, <2>2, <2>3, <2>4, <2>5 DEF Records
<1>20. ASSUME NEW j \in Jobs, ReadRecord(j) PROVE Records' /\ Stands
  <2>h. Home' = Home
    BY <1>20 DEF ReadRecord, Home
  <2>1. Typed'
    BY <1>20 DEF Records, Typed, ReadRecord, Copies, Goes
  <2>2. Copied'
    BY <1>20, <1>t DEF Records, Copied, OnDisk, Truthful, ReadRecord, Copies, Goes
  <2>3. Batched'
    BY <1>20, <1>t, <2>h DEF Records, Batched, Applying, ReadRecord, Copies, Goes
  <2>4. OnDisk'
    BY <1>20 DEF Records, OnDisk, Truthful, ReadRecord, Copies, Goes
  <2>5. Stands
    BY <1>20 DEF Records, Stands, ReadRecord, Copies, Goes
  <2> QED
    BY <2>1, <2>2, <2>3, <2>4, <2>5 DEF Records
<1>21. ASSUME NEW j \in Jobs, WriteRecord(j) PROVE Records' /\ Stands
  <2>h. Home' = Home
    BY <1>21 DEF WriteRecord, Home
  <2>o. \A k \in Jobs : k # j => pc[k] \in {"idle", "apply", "done"}
    BY <1>21, <1>t DEF Busy, WriteRecord
  <2>m. /\ disk' \in State /\ disk'.queue = mem[j].queue /\ pc[j] = "recording"
        /\ \E to \in {"look", "apply", "done", "record"} : pc' = [pc EXCEPT ![j] = to]
        /\ UNCHANGED <<inbox, typing, batch, mem, lock, read>>
    BY <1>21, <1>t DEF WriteRecord, Goes, AfterRun, AfterWrite, OwesRecord, State, Ends
  <2>1. Typed'
    BY <2>m DEF Records, Typed
  <2>2. Copied'
    BY <1>t, <2>o, <2>m DEF Records, Copied, Copying, Truthful, Fresh
  <2>3. Batched'
    BY <1>t, <2>o, <2>m DEF Records, Batched
  <2>4. OnDisk'
    BY <2>m DEF Records, OnDisk, Copied, Copying, Truthful, Fresh
  <2>5. Stands
    BY <2>m DEF Records, Stands, Copied, Copying, Fresh
  <2> QED
    BY <2>1, <2>2, <2>3, <2>4, <2>5 DEF Records
<1>22. CASE UNCHANGED vars
  BY <1>22 DEF Records, Typed, Copied, Batched, OnDisk, Truthful, Applying, Home
<1> QED
  BY <1>1, <1>2, <1>3, <1>4, <1>5, <1>6, <1>7, <1>8, <1>9, <1>10, <1>11, <1>12, <1>13,
     <1>14, <1>15, <1>16, <1>17, <1>18, <1>19, <1>20, <1>21, <1>22
     DEF Next, Operator, Executor, Applier

\* What else an orderly scene keeps, with the types and one job at the run.
LEMMA RecordsKept == ASSUME Orderly PROVE Spec => [](TypeInv /\ Exclusive /\ Records)
<1>1. Init => TypeInv /\ Exclusive /\ Records
  BY InitTypes, InitExclusive, InitRecords
<1>2. TypeInv /\ Exclusive /\ Records /\ [Next]_vars => (TypeInv /\ Exclusive /\ Records)'
  BY NextTypes, NextExclusive, NextRecords
<1> QED
  BY <1>1, <1>2, PTL DEF Spec

\* An instruction is read by one session, live, applied or its own, in an orderly
\* scene.
THEOREM ReadByOne == ASSUME Orderly PROVE Spec => []ReadOnce
<1>1. Records => ReadOnce
  BY DEF Records, OnDisk, ReadOnce
<1> QED
  BY <1>1, RecordsKept, PTL

\* The file never says dropped of what was read, nor delivered of what was not.
THEOREM RecordTellsTruth == ASSUME Orderly PROVE Spec => []RecordIsTrue
<1>1. Records => RecordIsTrue
  BY DEF Records, OnDisk, Truthful, RecordIsTrue
<1> QED
  BY <1>1, RecordsKept, PTL

\* What the file says of an instruction it has settled stays.
THEOREM RecordNeverGoesBack == ASSUME Orderly PROVE Spec => RecordStands
<1>1. TypeInv /\ Exclusive /\ Records /\ [Next]_vars => [Stands]_vars
  BY NextRecords
<1>2. [Stands]_vars => [\A q \in Steers :
         /\ disk.queue[q] \in {"delivered", "dropped"} => disk'.queue[q] = disk.queue[q]
         /\ disk.queue[q] = "applied" => disk'.queue[q] \in {"applied", "dropped"}]_vars
  BY DEF Stands
<1> QED
  BY <1>1, <1>2, RecordsKept, PTL DEF Spec, RecordStands

-----------------------------------------------------------------------------
(* What is owed to who types.                                               *)

\* As many passes as there can be instructions: each pass settles one at least.
PassesEnough == IsFiniteSet(Steers) /\ Cardinality(Steers) <= MaxPasses

Settled == {q \in Steers : ~Fresh(disk, q)}

\* The job has a look at the inbox before it.
Watching(j) ==
  \/ pc[j] \in {"begin", "work", "ending", "notified", "apply", "look"}
  \/ pc[j] = "steer" /\ ~Applying(j)

\* An instruction nothing has settled has somebody who will look at it: its typist,
\* a job that has its look before it, or the applier that has it in hand.
Watched == \A q \in inbox : Fresh(disk, q) /\ typing[q].proc = App =>
  \/ typing[q].stage \in {"queued", "unheard"}
  \/ \E j \in Jobs : Watching(j)
  \/ \E j \in Jobs : pc[j] \in {"mark", "drop"} /\ q \in batch[j]
  \/ disk.status = "kept" \/ stopped # {}

\* What the file and an applier's copy say of the run is so, and who typed is one
\* of the processes there are.
Placed ==
  /\ Live(disk) => \E j \in Jobs : pc[j] \in {"begin", "work", "ending"}
  /\ \A j \in Jobs : pc[j] \in {"mark", "drop"} => mem[j].status = disk.status
  /\ \A j \in Jobs : pc[j] \in {"notified", "recording"} => mem[j] = disk
  /\ \A j \in Jobs : pc[j] = "mark" => batch[j] # {}
  /\ \A q \in Steers : typing[q].stage # "none" => typing[q].proc \in Typists

\* A pass that is spent has settled an instruction.
Spent == \A j \in Jobs : Applying(j) =>
  passes[j] + Cardinality(Settled)
    >= MaxPasses + (IF pc[j] \in {"steer", "begin", "work", "ending"} THEN 1 ELSE 0)

\* The run has just been prepared.
LEMMA InitOwed == ASSUME Init PROVE Placed /\ Spent /\ Watched
<1>1. Host \in Jobs
  BY SteerQueueAssumption
<1>2. Placed
  BY <1>1 DEF Init, Placed
<1>3. Watched
  BY DEF Init, Watched
<1>4. Home \in [Jobs -> Procs]
  BY SteerQueueAssumption DEF Init, Home
<1>5. Spent
  BY <1>4, SteerQueueAssumption DEF Init, Spent, Applying
<1> QED
  BY <1>2, <1>3, <1>5

\* What the file and the copies say of the run: every step.
LEMMA NextPlaced ==
  ASSUME Orderly, TypeInv, Exclusive, Placed, [Next]_vars
  PROVE  Placed'
<1>t. /\ typing \in [Steers -> [stage : {"none", "seen", "queued", "told", "unheard"},
                                proc : Procs]]
      /\ pc \in [Jobs -> {"idle", "begin", "work", "ending", "notified", "record",
                          "recording", "apply", "look", "drop", "mark", "steer", "reopen",
                          "done"}]
      /\ disk \in State /\ mem \in [Jobs -> State] /\ batch \in [Jobs -> SUBSET Steers]
      /\ \A j, k \in Jobs : Busy(j) /\ Busy(k) => j = k
  BY DEF TypeInv, TypeOK, FileTypes, JobTypes, Exclusive
<1>u. \A j, k \in Jobs : Busy(j) /\ k # j => pc[k] \in {"idle", "apply", "done"}
  BY <1>t DEF Busy

<1>1. ASSUME NEW q \in Steers, NEW p \in Typists, SeeLive(q, p) \/ SteerSettled(q, p)
      PROVE  Placed'
  <2>h. Typists' = Typists
    BY <1>1 DEF SeeLive, SteerSettled, Home, Typists
  <2>1. CASE SeeLive(q, p)
    BY <1>t, <2>h, <2>1 DEF Placed, SeeLive
  <2>2. CASE SteerSettled(q, p)
    <3>1. /\ UNCHANGED <<disk, mem>>
          /\ typing' = [typing EXCEPT ![q] = [stage |-> "told", proc |-> p]]
      BY <2>2 DEF SteerSettled
    <3>2. CASE UNCHANGED job
      BY <1>t, <2>h, <3>1, <3>2 DEF Placed
    <3>3. CASE ~UNCHANGED job
      <4>1. PICK j \in Jobs : /\ pc[j] = "idle" /\ pc' = [pc EXCEPT ![j] = "steer"]
                              /\ batch' = [batch EXCEPT ![j] = {q}]
        BY <2>2, <3>3 DEF SteerSettled, Idle, Goes
      <4> QED
        BY <1>t, <2>h, <3>1, <4>1 DEF Placed
    <3> QED
      BY <3>2, <3>3
  <2> QED
    BY <1>1, <2>1, <2>2
<1>2. ASSUME NEW q \in Steers, QueueSteer(q) PROVE Placed'
  BY <1>2, <1>t DEF Placed, QueueSteer, Home, Typists
<1>3. ASSUME NEW q \in Steers, LookAgain(q) PROVE Placed'
  <2>1. /\ UNCHANGED <<disk, mem, batch>> /\ typing[q].stage = "queued"
        /\ \E to \in {"told", "unheard"} : typing' = [typing EXCEPT ![q].stage = to]
    <3>1. CASE SettledSince
      BY <1>3, <3>1 DEF LookAgain
    <3>2. CASE ~SettledSince
      BY <1>3, <3>2 DEF LookAgain
    <3> QED
      BY <3>1, <3>2
  <2>2. pc' = pc \/ \E j \in Jobs : pc[j] = "idle" /\ pc' = [pc EXCEPT ![j] = "apply"]
    BY <1>3 DEF LookAgain, Idle, Goes
  <2>3. Typists' = Typists
    BY <1>3 DEF LookAgain, Home, Typists
  <2> QED
    BY <1>t, <2>1, <2>2, <2>3 DEF Placed
<1>4. ASSUME NEW j \in Jobs, Resume(j) PROVE Placed'
  BY <1>4, <1>t DEF Placed, Resume, Idle, Goes, Copies, Home, Typists
<1>5. ASSUME NEW j \in Jobs, Stop(j) PROVE Placed'
  BY <1>5, <1>t DEF Placed, Stop, Home, Typists
<1>6. ASSUME NEW j \in Jobs, Begin(j) \/ Save(j) \/ Deliver(j) \/ HoldSteers(j)
      PROVE  Placed'
  <2>1. /\ pc[j] \in {"begin", "work"} /\ pc'[j] \in {"work", "ending"}
        /\ pc' = [pc EXCEPT ![j] = pc'[j]]
        /\ UNCHANGED <<scene, typing, batch>> /\ \E st : mem' = [mem EXCEPT ![j] = st]
    <3>1. CASE Begin(j)
      BY <1>t, <3>1 DEF Begin, Goes, Copies
    <3>2. CASE Save(j)
      BY <1>t, <3>2 DEF Save, Copies
    <3>3. CASE Deliver(j)
      BY <1>t, <3>3 DEF Deliver, Copies
    <3>4. CASE HoldSteers(j)
      BY <1>t, <3>4 DEF HoldSteers, Goes, Copies
    <3> QED
      BY <1>6, <3>1, <3>2, <3>3, <3>4
  <2>2. \A k \in Jobs : k # j => pc[k] \in {"idle", "apply", "done"}
    BY <1>t, <1>u, <2>1 DEF Busy
  <2> QED
    BY <1>t, <2>1, <2>2 DEF Placed, Home, Typists
<1>7. ASSUME NEW j \in Jobs, NeverStarts(j) \/ Finish(j) PROVE Placed'
  <2>1. PICK end \in Ends : Finishes(j, end)
    BY <1>7 DEF NeverStarts, Finish, Ends
  <2>2. pc[j] \in {"begin", "ending"} /\ UNCHANGED <<scene, typing, batch>>
    BY <1>7 DEF NeverStarts, Finish
  <2>3. \A k \in Jobs : k # j => pc[k] \in {"idle", "apply", "done"}
    BY <1>t, <1>u, <2>2 DEF Busy
  <2>4. disk' = [mem[j] EXCEPT !.status = end] /\ mem' = [mem EXCEPT ![j] = disk']
        /\ \E to \in {"look", "apply", "done", "notified", "record"} :
             pc' = [pc EXCEPT ![j] = to]
    BY <2>1 DEF Finishes, Copies, Goes, AfterRun, AfterWrite, OwesRecord
  <2>5. ~Live(disk')
    BY <1>t, <2>4 DEF State, Live, Ends
  <2> QED
    BY <1>t, <2>2, <2>3, <2>4, <2>5 DEF Placed, Home, Typists
<1>8. ASSUME NEW j \in Jobs, WriteAgain(j) PROVE Placed'
  <2>1. pc[j] = "notified" /\ disk' = mem[j] /\ UNCHANGED <<scene, typing, mem, batch>>
        /\ \E to \in {"look", "apply", "done", "record"} : pc' = [pc EXCEPT ![j] = to]
    BY <1>8 DEF WriteAgain, Goes, AfterRun, AfterWrite, OwesRecord
  <2>2. \A k \in Jobs : k # j => pc[k] \in {"idle", "apply", "done"}
    BY <1>t, <1>u, <2>1 DEF Busy
  <2>3. disk' = disk
    BY <2>1 DEF Placed
  <2> QED
    BY <1>t, <2>1, <2>2, <2>3 DEF Placed, Home, Typists
<1>9. ASSUME NEW j \in Jobs, Lock(j) PROVE Placed'
  BY <1>9, <1>t DEF Placed, Lock, Goes, Home, Typists
<1>10. ASSUME NEW j \in Jobs, LookHeld(j) PROVE Placed'
  <2> DEFINE st == Merged(disk)
  <2>0. st \in State /\ st.status = disk.status
    BY <1>t, MergedState
  <2>1. /\ pc[j] = "look" /\ UNCHANGED <<scene, disk, typing>>
        /\ mem' = [mem EXCEPT ![j] = st]
        /\ batch' = [batch EXCEPT ![j] = Pending(st)]
        /\ \E to \in {"drop", "mark", "apply", "done"} : pc' = [pc EXCEPT ![j] = to]
        /\ pc'[j] = "mark" => Pending(st) # {}
    <3>1. /\ pc[j] = "look" /\ UNCHANGED <<scene, disk, typing>>
          /\ mem' = [mem EXCEPT ![j] = st]
          /\ batch' = [batch EXCEPT ![j] = Pending(st)]
      BY <1>10 DEF LookHeld, Copies
    <3>2. CASE Leaves(j)
      BY <1>t, <3>1, <3>2 DEF Leaves, Goes
    <3>3. CASE ~Leaves(j)
      <4>1. Pending(st) # {} /\ (Goes(j, "drop") \/ Goes(j, "mark"))
        BY <1>10, <3>3 DEF LookHeld
      <4> QED
        BY <1>t, <3>1, <4>1 DEF Goes
    <3> QED
      BY <3>2, <3>3
  <2> HIDE DEF st
  <2>2. \A k \in Jobs : k # j => pc[k] \in {"idle", "apply", "done"}
    BY <1>t, <1>u, <2>1 DEF Busy
  <2> QED
    BY <1>t, <2>0, <2>1, <2>2 DEF Placed, Home, Typists
<1>11. ASSUME NEW j \in Jobs, DropHeld(j) \/ MarkApplied(j) PROVE Placed'
  <2>1. /\ pc[j] \in {"drop", "mark"} /\ UNCHANGED <<scene, typing, mem, batch>>
        /\ \E to \in {"steer", "apply", "done"} : pc' = [pc EXCEPT ![j] = to]
        /\ \E v \in {"dropped", "applied"} : disk' = Resolved(mem[j], batch[j], v)
    BY <1>11 DEF DropHeld, MarkApplied, Marked, Leaves, Goes
  <2>2. \A k \in Jobs : k # j => pc[k] \in {"idle", "apply", "done"}
    BY <1>t, <1>u, <2>1 DEF Busy
  <2>3. disk'.status = mem[j].status
    BY <1>t, <2>1, ResolvedState DEF Verdicts
  <2>4. disk'.status = disk.status /\ ~Live(disk)
    BY <2>1, <2>2, <2>3 DEF Placed
  <2>5. ~Live(disk')
    BY <2>4 DEF Live
  <2> QED
    BY <1>t, <2>1, <2>2, <2>5 DEF Placed, Home, Typists
<1>12. ASSUME NEW j \in Jobs, Steer(j) \/ Reopen(j) PROVE Placed'
  <2>1. /\ pc[j] \in {"steer", "reopen"} /\ UNCHANGED <<scene, disk, typing, batch>>
        /\ \/ /\ mem' = [mem EXCEPT ![j] = disk]
              /\ \E to \in {"begin", "drop"} : pc' = [pc EXCEPT ![j] = to]
           \/ /\ mem' = mem
              /\ \E to \in {"look", "reopen", "apply", "done"} : pc' = [pc EXCEPT ![j] = to]
    BY <1>12 DEF Steer, Reopen, Copies, Goes
  <2>2. \A k \in Jobs : k # j => pc[k] \in {"idle", "apply", "done"}
    BY <1>t, <1>u, <2>1 DEF Busy
  <2> QED
    BY <1>t, <2>1, <2>2 DEF Placed, Home, Typists
<1>13. ASSUME NEW j \in Jobs, ReadRecord(j) PROVE Placed'
  <2>1. /\ pc[j] = "record" /\ UNCHANGED <<scene, disk, typing, batch>>
        /\ mem' = [mem EXCEPT ![j] = disk] /\ pc' = [pc EXCEPT ![j] = "recording"]
    BY <1>13 DEF ReadRecord, Copies, Goes
  <2>2. \A k \in Jobs : k # j => pc[k] \in {"idle", "apply", "done"}
    BY <1>t, <1>u, <2>1 DEF Busy
  <2> QED
    BY <1>t, <2>1, <2>2 DEF Placed, Home, Typists
<1>14. ASSUME NEW j \in Jobs, WriteRecord(j) PROVE Placed'
  <2>1. /\ pc[j] = "recording" /\ UNCHANGED <<scene, typing, mem, batch>>
        /\ \E end \in {mem[j].status, "open"} : disk' = [mem[j] EXCEPT !.status = end]
        /\ \E to \in {"look", "apply", "done", "record"} : pc' = [pc EXCEPT ![j] = to]
    BY <1>14 DEF WriteRecord, Goes, AfterRun, AfterWrite, OwesRecord
  <2>2. \A k \in Jobs : k # j => pc[k] \in {"idle", "apply", "done"}
    BY <1>t, <1>u, <2>1 DEF Busy
  <2>3. mem[j] = disk /\ ~Live(disk)
    BY <2>1, <2>2 DEF Placed
  <2>4. ~Live(disk')
    BY <1>t, <2>1, <2>3 DEF State, Live
  <2> QED
    BY <1>t, <2>1, <2>2, <2>4 DEF Placed, Home, Typists
<1>15. CASE UNCHANGED vars
  BY <1>15 DEF Placed, Home, Typists
<1> QED
  BY <1>1, <1>2, <1>3, <1>4, <1>5, <1>6, <1>7, <1>8, <1>9, <1>10, <1>11, <1>12, <1>13,
     <1>14, <1>15
     DEF Next, Operator, Executor, Applier

\* What the file settles stays settled, and what a step settles counts.
LEMMA SettledGrows ==
  ASSUME PassesEnough, disk \in State, disk' \in State, Stands
  PROVE  /\ Cardinality(Settled) \in Nat /\ Cardinality(Settled)' \in Nat
         /\ Cardinality(Settled) <= Cardinality(Settled)'
         /\ \A q \in Steers : Fresh(disk, q) /\ ~Fresh(disk, q)'
              => Cardinality(Settled) + 1 <= Cardinality(Settled)'
         /\ \A q \in Steers : Fresh(disk, q)' => Fresh(disk, q)
<1>1. \A q \in Steers : Fresh(disk, q)' => Fresh(disk, q)
  BY DEF State, Verdicts, Stands, Fresh
<1>2. Settled \subseteq Settled' /\ Settled' \subseteq Steers
  BY <1>1 DEF Settled
<1>3. IsFiniteSet(Settled') /\ IsFiniteSet(Settled)
  BY <1>2, FS_Subset DEF PassesEnough
<1>4. /\ Cardinality(Settled) <= Cardinality(Settled')
      /\ Cardinality(Settled) = Cardinality(Settled') => Settled = Settled'
  BY <1>2, <1>3, FS_Subset
<1>5. Cardinality(Settled) \in Nat /\ Cardinality(Settled') \in Nat
  BY <1>3, FS_CardinalityType
<1>6. ASSUME NEW q \in Steers, Fresh(disk, q), ~Fresh(disk, q)'
      PROVE  Cardinality(Settled) + 1 <= Cardinality(Settled')
  <2>1. q \in Settled' /\ q \notin Settled
    BY <1>6 DEF Settled
  <2> QED
    BY <1>4, <1>5, <2>1
<1> QED
  BY <1>1, <1>4, <1>5, <1>6

\* A pass that is spent has settled an instruction: every step.
LEMMA NextSpent ==
  ASSUME Orderly, PassesEnough, TypeInv, Exclusive, Records, Placed, Spent, [Next]_vars,
         TypeInv', Stands
  PROVE  Spent'
<1> DEFINE c == Cardinality(Settled)
           Owes(k) == IF pc[k] \in {"steer", "begin", "work", "ending"} THEN 1 ELSE 0
<1>t. /\ pc \in [Jobs -> {"idle", "begin", "work", "ending", "notified", "record",
                          "recording", "apply", "look", "drop", "mark", "steer", "reopen",
                          "done"}]
      /\ disk \in State /\ disk' \in State /\ mem \in [Jobs -> State]
      /\ batch \in [Jobs -> SUBSET Steers]
      /\ passes \in [Jobs -> 0 .. MaxPasses] /\ MaxPasses \in Nat
      /\ lock \in [Procs -> Jobs \cup {None}]
      /\ \A j \in Jobs : pc[j] \in {"look", "drop", "mark", "reopen"} => Applying(j)
      /\ \A j \in Jobs : Applying(j) => Busy(j)
      /\ \A j, k \in Jobs : Busy(j) /\ Busy(k) => j = k
      /\ \A j \in Jobs :
           Applying(j) /\ pc[j] \in {"mark", "steer", "begin", "work", "ending"}
             => passes[j] > 0
  BY SteerQueueAssumption
     DEF TypeInv, TypeOK, FileTypes, JobTypes, LockTypes, Counted, Busy, Exclusive
<1>h. Home \in [Jobs -> Procs] /\ Home' = Home
  <2>1. Home \in [Jobs -> Procs]
    BY SteerQueueAssumption DEF TypeInv, TypeOK, FileTypes, Home
  <2>2. scene' = scene
    BY DEF Next, Operator, Executor, Applier, SeeLive, SteerSettled, QueueSteer, LookAgain,
           Resume, Stop, Begin, NeverStarts, Save, Deliver, HoldSteers, Finish, WriteAgain,
           ReadRecord, WriteRecord, Lock, LookHeld, DropHeld, MarkApplied, Steer, Reopen
  <2> QED
    BY <2>1, <2>2 DEF Home
<1>c. c \in Nat /\ c' \in Nat /\ c <= c'
  BY <1>t, SettledGrows
<1>d. \A q \in Steers : Fresh(disk, q) /\ ~Fresh(disk, q)' => c + 1 <= c'
  BY <1>t, SettledGrows
<1>s. \A k \in Jobs : Applying(k) => passes[k] + c >= MaxPasses + Owes(k)
  BY DEF Spent
<1>g. SUFFICES ASSUME NEW k \in Jobs, Applying(k)'
               PROVE  passes'[k] + c' >= MaxPasses + Owes(k)'
  BY DEF Spent
<1> HIDE DEF c

\* A step that lets the lock and the passes be, and owes no more than before.
<1>k. ASSUME lock' = lock, passes' = passes,
             Applying(k) /\ pc'[k] \in {"steer", "begin", "work", "ending"}
               => pc[k] \in {"steer", "begin", "work", "ending"}
      PROVE  passes'[k] + c' >= MaxPasses + Owes(k)'
  <2>1. Applying(k)
    BY <1>g, <1>h, <1>k DEF Applying
  <2> QED
    BY <1>t, <1>s, <1>c, <1>k, <2>1
\* The lock is let go, which no other job holds.
<1>l. ASSUME NEW j \in Jobs, Busy(j), Applying(j), lock' = [lock EXCEPT ![Home[j]] = None]
      PROVE  FALSE
  <2>1. k # j
    BY <1>g, <1>h, <1>t, <1>l, SteerQueueAssumption DEF Applying
  <2>2. Applying(k)
    BY <1>g, <1>h, <1>t, <1>l, SteerQueueAssumption DEF Applying
  <2> QED
    BY <1>t, <1>l, <2>1, <2>2

<1>1. ASSUME NEW q \in Steers, NEW p \in Typists, SeeLive(q, p)
      PROVE  passes'[k] + c' >= MaxPasses + Owes(k)'
  BY <1>1, <1>k DEF SeeLive
<1>2. ASSUME NEW q \in Steers, NEW p \in Typists, SteerSettled(q, p)
      PROVE  passes'[k] + c' >= MaxPasses + Owes(k)'
  <2>1. lock' = lock /\ passes' = passes
        /\ (pc' = pc \/ \E j \in Jobs : pc[j] = "idle" /\ pc' = [pc EXCEPT ![j] = "steer"])
    BY <1>2 DEF SteerSettled, Idle, Goes
  <2>2. Applying(k) => pc'[k] = pc[k]
    BY <1>t, <2>1 DEF Busy
  <2> QED
    BY <1>k, <2>1, <2>2
<1>3. ASSUME NEW q \in Steers, QueueSteer(q) \/ LookAgain(q)
      PROVE  passes'[k] + c' >= MaxPasses + Owes(k)'
  <2>1. lock' = lock /\ passes' = passes
        /\ (pc' = pc \/ \E j \in Jobs : pc[j] = "idle" /\ pc' = [pc EXCEPT ![j] = "apply"])
    BY <1>3 DEF QueueSteer, LookAgain, Idle, Goes
  <2>2. Applying(k) => pc'[k] = pc[k]
    BY <1>t, <2>1 DEF Busy
  <2> QED
    BY <1>k, <2>1, <2>2
<1>4. ASSUME NEW j \in Jobs, Resume(j) \/ Stop(j)
      PROVE  passes'[k] + c' >= MaxPasses + Owes(k)'
  <2>1. lock' = lock /\ passes' = passes
        /\ (pc' = pc \/ (pc[j] = "idle" /\ pc' = [pc EXCEPT ![j] = "begin"]))
    <3>1. CASE Resume(j)
      BY <3>1 DEF Resume, Idle, Goes
    <3>2. CASE Stop(j)
      BY <3>2 DEF Stop
    <3> QED
      BY <1>4, <3>1, <3>2
  <2>2. Applying(k) => pc'[k] = pc[k]
    BY <1>t, <2>1 DEF Busy
  <2> QED
    BY <1>k, <2>1, <2>2
<1>5. ASSUME NEW j \in Jobs,
             Begin(j) \/ Save(j) \/ Deliver(j) \/ HoldSteers(j) \/ WriteAgain(j)
               \/ ReadRecord(j) \/ WriteRecord(j)
      PROVE  passes'[k] + c' >= MaxPasses + Owes(k)'
  <2>1. /\ lock' = lock /\ passes' = passes
        /\ \/ /\ pc[j] \in {"begin", "work"}
              /\ \/ pc' = pc
                 \/ \E to \in {"work", "ending"} : pc' = [pc EXCEPT ![j] = to]
           \/ \E to \in {"look", "apply", "done", "record", "recording"} :
                pc' = [pc EXCEPT ![j] = to]
    BY <1>5 DEF Begin, Save, Deliver, HoldSteers, WriteAgain, ReadRecord, WriteRecord,
       AfterRun, AfterWrite, OwesRecord, Goes
  <2>2. pc'[k] \in {"steer", "begin", "work", "ending"}
          => pc[k] \in {"steer", "begin", "work", "ending"}
    BY <1>t, <2>1
  <2> QED
    BY <1>k, <2>1, <2>2
<1>6. ASSUME NEW j \in Jobs, NeverStarts(j) \/ Finish(j)
      PROVE  passes'[k] + c' >= MaxPasses + Owes(k)'
  <2>1. /\ pc[j] \in {"begin", "ending"} /\ lock' = lock
        /\ \E to \in {"look", "apply", "done", "notified", "record"} :
             pc' = [pc EXCEPT ![j] = to]
        /\ passes' = [passes EXCEPT ![j] = IF Applying(j) THEN passes[j] - 1 ELSE passes[j]]
    BY <1>6 DEF NeverStarts, Finish, Finishes, Goes, AfterRun, AfterWrite, OwesRecord
  <2>2. Applying(k)
    BY <1>g, <1>h, <2>1 DEF Applying
  <2>3. k = j
    BY <1>t, <2>1, <2>2 DEF Busy
  <2>4. Owes(j) = 1 /\ Owes(j)' = 0 /\ passes'[j] = passes[j] - 1
    BY <1>t, <2>1, <2>2, <2>3
  <2>5. passes[j] + c >= MaxPasses + 1
    BY <1>s, <2>2, <2>3, <2>4
  <2> QED
    BY <1>t, <1>c, <2>3, <2>4, <2>5
<1>7. ASSUME NEW j \in Jobs, Lock(j)
      PROVE  passes'[k] + c' >= MaxPasses + Owes(k)'
  <2>1. pc[j] = "apply" /\ lock' = [lock EXCEPT ![Home[j]] = j] /\ lock[Home[j]] = None
        /\ passes' = [passes EXCEPT ![j] = MaxPasses] /\ pc' = [pc EXCEPT ![j] = "look"]
    BY <1>7 DEF Lock, Free, Goes
  <2>2. CASE k = j
    <3>1. passes'[k] = MaxPasses /\ pc'[k] = "look"
      BY <1>t, <2>1, <2>2
    <3>2. Owes(k)' = 0
      BY <3>1
    <3>3. MaxPasses \in Nat /\ c' \in Nat
      BY <1>t, <1>c
    <3>4. \A m, n \in Nat : m + n >= m + 0
      OBVIOUS
    <3> QED
      BY <3>1, <3>2, <3>3, <3>4
  <2>3. CASE k # j
    <3>1. Applying(k) /\ passes'[k] = passes[k] /\ Owes(k)' = Owes(k)
      BY <1>g, <1>h, <1>t, <2>1, <2>3 DEF Applying
    <3> QED
      BY <1>t, <1>c, <1>s, <3>1
  <2> QED
    BY <2>2, <2>3
<1>8. ASSUME NEW j \in Jobs, LookHeld(j)
      PROVE  passes'[k] + c' >= MaxPasses + Owes(k)'
  <2>1. pc[j] = "look" /\ passes' = passes /\ Busy(j) /\ Applying(j)
    BY <1>8, <1>t DEF LookHeld, Busy
  <2>2. CASE Leaves(j)
    BY <1>l, <2>1, <2>2 DEF Leaves
  <2>3. CASE ~Leaves(j)
    <3>1. lock' = lock /\ \E to \in {"drop", "mark"} : pc' = [pc EXCEPT ![j] = to]
      BY <1>8, <2>3 DEF LookHeld, Goes
    <3>2. pc'[k] \in {"steer", "begin", "work", "ending"}
            => pc[k] \in {"steer", "begin", "work", "ending"}
      BY <1>t, <3>1
    <3> QED
      BY <1>k, <2>1, <3>1, <3>2
  <2> QED
    BY <2>2, <2>3
<1>9. ASSUME NEW j \in Jobs, DropHeld(j)
      PROVE  passes'[k] + c' >= MaxPasses + Owes(k)'
  <2>1. Busy(j) /\ Applying(j) /\ lock' = [lock EXCEPT ![Home[j]] = None]
    BY <1>9, <1>t DEF DropHeld, Leaves, Busy
  <2> QED
    BY <1>l, <2>1
<1>10. ASSUME NEW j \in Jobs, MarkApplied(j)
       PROVE  passes'[k] + c' >= MaxPasses + Owes(k)'
  <2>1. /\ pc[j] = "mark" /\ lock' = lock /\ passes' = passes
        /\ pc' = [pc EXCEPT ![j] = "steer"]
        /\ disk' = Resolved(mem[j], batch[j], "applied")
    BY <1>10 DEF MarkApplied, Marked, Goes
  <2>2. PICK q \in batch[j] : q \in Steers
    BY <1>t, <2>1 DEF Placed
  <2>3. Fresh(mem[j], q) /\ (~Fresh(disk, q) => mem[j].queue[q] = disk.queue[q])
    BY <2>1, <2>2 DEF Records, Batched, Copied, Copying
  <2>4. Fresh(disk, q)
    BY <2>3 DEF Fresh
  <2>5. disk'.queue[q] = "applied"
    BY <1>t, <2>1, <2>2, ResolvedState DEF Verdicts
  <2>6. ~Fresh(disk, q)'
    BY <2>5 DEF Fresh
  <2>7. c + 1 <= c'
    BY <1>d, <2>2, <2>4, <2>6
  <2>8. Applying(k) /\ Applying(j)
    BY <1>g, <1>h, <1>t, <2>1 DEF Applying
  <2>9. k = j
    BY <1>t, <2>8
  <2>10. passes[j] + c >= MaxPasses /\ passes'[j] = passes[j] /\ Owes(j)' \in {0, 1}
    BY <1>t, <1>s, <1>c, <2>1, <2>8
  <2> QED
    BY <1>t, <1>c, <2>7, <2>9, <2>10
<1>11. ASSUME NEW j \in Jobs, Steer(j) \/ Reopen(j)
       PROVE  passes'[k] + c' >= MaxPasses + Owes(k)'
  <2>1. /\ lock' = lock
        /\ \/ pc[j] = "steer"
           \/ pc[j] = "reopen" /\ pc' = [pc EXCEPT ![j] = "drop"]
        /\ \E to \in {"begin", "look", "reopen", "apply", "done", "drop"} :
             pc' = [pc EXCEPT ![j] = to]
    BY <1>11 DEF Steer, Reopen, Goes
  <2>2. pc'[k] \in {"steer", "begin", "work", "ending"}
          => pc[k] \in {"steer", "begin", "work", "ending"}
    BY <1>t, <2>1
  <2>3. CASE passes' = passes
    BY <1>k, <2>1, <2>2, <2>3
  <2>4. CASE passes' # passes
    <3>1. pc[j] = "steer" /\ Applying(j) /\ scene.fix /\ pc' = [pc EXCEPT ![j] = "look"]
          /\ passes' = [passes EXCEPT ![j] = passes[j] - 1]
      BY <1>11, <1>t, <2>4 DEF Steer, Reopen, Goes
    <3>2. Applying(k) /\ k = j
      BY <1>g, <1>h, <1>t, <2>1, <3>1 DEF Applying
    <3>3. Owes(j) = 1 /\ Owes(j)' = 0 /\ passes'[j] = passes[j] - 1
      BY <1>t, <3>1
    <3>4. passes[j] + c >= MaxPasses + 1
      BY <1>s, <3>2, <3>3
    <3> QED
      BY <1>t, <1>c, <3>2, <3>3, <3>4
  <2> QED
    BY <2>3, <2>4
<1>12. CASE UNCHANGED vars
  BY <1>12, <1>k
<1> QED
  BY <1>1, <1>2, <1>3, <1>4, <1>5, <1>6, <1>7, <1>8, <1>9, <1>10, <1>11, <1>12
     DEF Next, Operator, Executor, Applier

\* Nothing that is owed is lost sight of: every step.
LEMMA NextWatched ==
  ASSUME Orderly, PassesEnough, TypeInv, Exclusive, Records, Placed, Spent, Watched,
         [Next]_vars, TypeInv', Stands
  PROVE  Watched'
<1>t. /\ typing \in [Steers -> [stage : {"none", "seen", "queued", "told", "unheard"},
                                proc : Procs]]
      /\ pc \in [Jobs -> {"idle", "begin", "work", "ending", "notified", "record",
                          "recording", "apply", "look", "drop", "mark", "steer", "reopen",
                          "done"}]
      /\ disk \in State /\ disk' \in State /\ mem \in [Jobs -> State]
      /\ batch \in [Jobs -> SUBSET Steers]
      /\ inbox \subseteq Steers /\ inbox' \subseteq Steers
      /\ passes \in [Jobs -> 0 .. MaxPasses] /\ MaxPasses \in Nat
      /\ \A j \in Jobs : pc[j] \in {"look", "drop", "mark", "reopen"} => Applying(j)
      /\ \A j, k \in Jobs : Busy(j) /\ Busy(k) => j = k
      /\ \A i \in Steers : i \in inbox => typing[i].stage \in {"queued", "told", "unheard"}
  BY SteerQueueAssumption
     DEF TypeInv, TypeOK, FileTypes, JobTypes, LockTypes, Exclusive, Records, Typed
<1>u. \A j, k \in Jobs : Busy(j) /\ k # j => pc[k] \in {"idle", "apply", "done"}
  BY <1>t DEF Busy
<1> SUFFICES ASSUME NEW q \in inbox', Fresh(disk, q)', typing'[q].proc = App,
                    disk'.status # "kept", stopped' = {}
             PROVE  \/ typing'[q].stage \in {"queued", "unheard"}
                    \/ \E j \in Jobs : Watching(j)'
                    \/ \E j \in Jobs : pc'[j] \in {"mark", "drop"} /\ q \in batch'[j]
  BY DEF Watched
<1>q. q \in Steers /\ Fresh(disk, q)
  BY <1>t, SettledGrows
<1>o. \/ q \notin inbox
      \/ typing[q].proc # App
      \/ typing[q].stage \in {"queued", "unheard"}
      \/ \E j \in Jobs : Watching(j)
      \/ \E j \in Jobs : pc[j] \in {"mark", "drop"} /\ q \in batch[j]
      \/ disk.status = "kept" \/ stopped # {}
  BY <1>q DEF Watched
<1>f. InApp /\ ~scene.fix /\ ~scene.notifyFails
  <2>1. Placed' /\ Records'
    BY NextPlaced, NextRecords
  <2>2. scene' = scene
    BY DEF Next, Operator, Executor, Applier, SeeLive, SteerSettled, QueueSteer, LookAgain,
           Resume, Stop, Begin, NeverStarts, Save, Deliver, HoldSteers, Finish, WriteAgain,
           ReadRecord, WriteRecord, Lock, LookHeld, DropHeld, MarkApplied, Steer, Reopen
  <2>3. App \in Typists
    BY <1>q, <2>1, <2>2 DEF Placed, Records, Typed, Typists, Home
  <2> QED
    BY <2>3, OneHome DEF InApp, Typists
<1> DEFINE Seen == \/ typing'[q].stage \in {"queued", "unheard"}
                   \/ \E j \in Jobs : Watching(j)'
                   \/ \E j \in Jobs : pc'[j] \in {"mark", "drop"} /\ q \in batch'[j]
<1>a. ASSUME NEW j \in Jobs,
             pc'[j] \in {"begin", "work", "ending", "notified", "apply", "look"}
      PROVE  Seen
  BY <1>a DEF Watching

<1>1. ASSUME NEW i \in Steers, NEW p \in Typists, SeeLive(i, p) PROVE Seen
  <2>1. i # q
    BY <1>1, <1>t DEF SeeLive
  <2>2. typing'[q] = typing[q] /\ UNCHANGED <<scene, inbox, disk, pc, batch, lock, stopped>>
    BY <1>1, <1>t, <1>q, <2>1 DEF SeeLive
  <2> QED
    BY <1>o, <2>2 DEF Watching, Applying, Home
<1>2. ASSUME NEW i \in Steers, NEW p \in Typists, SteerSettled(i, p) PROVE Seen
  <2>1. i # q
    BY <1>2, <1>t DEF SteerSettled
  <2>2. typing'[q] = typing[q] /\ UNCHANGED <<inbox, disk, stopped>>
    BY <1>2, <1>t, <1>q, <2>1 DEF SteerSettled
  <2>3. scene \in Scenes
    BY DEF TypeInv, TypeOK, FileTypes
  <2>4. Quiet
    BY <1>2, <2>3 DEF SteerSettled, Orderly
  <2> QED
    BY <1>o, <1>q, <2>2, <2>4 DEF Quiet, Watching
<1>3. ASSUME NEW i \in Steers, QueueSteer(i) PROVE Seen
  <2>1. CASE i = q
    BY <1>3, <1>t, <2>1 DEF QueueSteer
  <2>2. CASE i # q
    <3>1. typing'[q] = typing[q] /\ q \in inbox
          /\ UNCHANGED <<scene, disk, pc, batch, lock, stopped>>
      BY <1>3, <1>t, <1>q, <2>2 DEF QueueSteer
    <3> QED
      BY <1>o, <3>1 DEF Watching, Applying, Home
  <2> QED
    BY <2>1, <2>2
<1>4. ASSUME NEW i \in Steers, LookAgain(i) PROVE Seen
  <2>1. /\ UNCHANGED <<scene, inbox, disk, batch, lock, stopped>>
        /\ typing[i].stage = "queued"
        /\ \E to \in {"told", "unheard"} : typing' = [typing EXCEPT ![i].stage = to]
    BY <1>4 DEF LookAgain
  <2>2. CASE SettledSince
    <3>1. CASE UNCHANGED job
      <4>1. typing' = [typing EXCEPT ![i].stage = "unheard"] \/ \E j \in Jobs : pc'[j] = "apply"
        BY <1>4, <1>t, <2>2, <3>1 DEF LookAgain, Idle, Goes
      <4>2. CASE typing' = [typing EXCEPT ![i].stage = "unheard"]
        <5>1. i = q => typing'[q].stage = "unheard"
          BY <1>q, <1>t, <4>2
        <5>2. i # q => typing'[q] = typing[q]
          BY <1>q, <1>t, <4>2
        <5>3. i # q => q \in inbox
          BY <2>1
        <5> QED
          BY <1>o, <2>1, <3>1, <5>1, <5>2, <5>3 DEF Watching, Applying, Home
      <4> QED
        BY <1>a, <4>1, <4>2
    <3>2. CASE ~UNCHANGED job
      <4>1. PICK j \in Jobs : pc[j] = "idle" /\ pc' = [pc EXCEPT ![j] = "apply"]
        BY <1>4, <2>2, <3>2 DEF LookAgain, Idle, Goes
      <4> QED
        BY <1>t, <1>a, <4>1
    <3> QED
      BY <3>1, <3>2
  <2>3. CASE ~SettledSince
    <3>1. pc' = pc
      BY <1>4, <2>3 DEF LookAgain
    <3>2. PICK j \in Jobs : pc[j] \in {"begin", "work", "ending"}
      BY <2>3 DEF SettledSince, Placed
    <3> QED
      BY <1>a, <3>1, <3>2
  <2> QED
    BY <2>2, <2>3
<1>5. ASSUME NEW j \in Jobs, Resume(j) \/ Stop(j) PROVE Seen
  <2>1. CASE Resume(j)
    BY <1>t, <1>a, <2>1 DEF Resume, Goes
  <2>2. CASE Stop(j)
    BY <2>2 DEF Stop
  <2> QED
    BY <1>5, <2>1, <2>2
<1>6. ASSUME NEW j \in Jobs, Begin(j) \/ Save(j) \/ Deliver(j) \/ HoldSteers(j) PROVE Seen
  <2>1. /\ pc[j] \in {"begin", "work"}
        /\ \/ pc' = pc /\ pc[j] = "work"
           \/ \E to \in {"work", "ending"} : pc' = [pc EXCEPT ![j] = to]
    BY <1>6 DEF Begin, Save, Deliver, HoldSteers, Goes
  <2> QED
    BY <1>t, <1>a, <2>1
<1>7. ASSUME NEW j \in Jobs, NeverStarts(j) \/ Finish(j) \/ WriteAgain(j) \/ Lock(j)
      PROVE  Seen
  <2>1. \E to \in {"look", "apply", "notified"} : pc' = [pc EXCEPT ![j] = to]
    BY <1>7, <1>f
       DEF NeverStarts, Finish, WriteAgain, Lock, Finishes, AfterRun, AfterWrite,
           OwesRecord, Goes
  <2> QED
    BY <1>t, <1>a, <2>1
<1>8. ASSUME NEW j \in Jobs, LookHeld(j) PROVE Seen
  <2> DEFINE st == Merged(disk)
  <2>1. /\ pc[j] = "look" /\ UNCHANGED <<inbox, disk, typing, stopped>>
        /\ batch' = [batch EXCEPT ![j] = Pending(st)]
    BY <1>8 DEF LookHeld
  <2>2. st.status = disk.status /\ q \in Pending(st)
    BY <1>t, <1>q, <2>1, MergedState DEF Pending, Fresh
  <2>3. ~Live(st)
    <3>1. ASSUME Live(disk) PROVE FALSE
      BY <1>u, <2>1, <3>1 DEF Placed, Busy
    <3> QED
      BY <2>2, <3>1 DEF Live
  <2>4. passes[j] # 0
    <3>1. SUFFICES ASSUME passes[j] = 0 PROVE FALSE
      OBVIOUS
    <3>2. IsFiniteSet(Steers) /\ Cardinality(Steers) <= MaxPasses /\ Settled \subseteq Steers
      BY DEF PassesEnough, Settled
    <3>3. /\ Cardinality(Settled) <= Cardinality(Steers)
          /\ Cardinality(Settled) = Cardinality(Steers) => Settled = Steers
          /\ Cardinality(Settled) \in Nat /\ Cardinality(Steers) \in Nat
      BY <3>2, FS_Subset, FS_CardinalityType
    <3>4. passes[j] + Cardinality(Settled) >= MaxPasses
      BY <1>t, <2>1 DEF Spent
    <3>5. Settled = Steers
      BY <1>t, <3>1, <3>2, <3>3, <3>4
    <3> QED
      BY <1>q, <3>5 DEF Settled
  <2>5. \E to \in {"drop", "mark"} : pc' = [pc EXCEPT ![j] = to]
    BY <1>8, <2>1, <2>2, <2>3, <2>4 DEF LookHeld, Goes
  <2> QED
    BY <1>t, <2>1, <2>2, <2>5
<1>9. ASSUME NEW j \in Jobs, DropHeld(j) \/ MarkApplied(j) PROVE Seen
  <2>1. /\ pc[j] \in {"drop", "mark"} /\ UNCHANGED <<inbox, typing, batch, stopped>>
        /\ \E to \in {"steer", "apply", "done"} : pc' = [pc EXCEPT ![j] = to]
        /\ \E v \in {"dropped", "applied"} : disk' = Resolved(mem[j], batch[j], v)
    BY <1>9 DEF DropHeld, MarkApplied, Marked, Leaves, Goes
  <2>2. disk'.status = disk.status /\ q \notin batch[j]
    BY <1>t, <1>q, <2>1, ResolvedState DEF Placed, Fresh, Verdicts
  <2>3. \A k \in Jobs : k # j => pc[k] \in {"idle", "apply", "done"} /\ pc'[k] = pc[k]
    BY <1>t, <1>u, <2>1 DEF Busy
  <2>4. \A k \in Jobs : ~(pc[k] \in {"mark", "drop"} /\ q \in batch[k])
    BY <2>2, <2>3
  <2>5. \A k \in Jobs : Watching(k) => pc[k] = "apply" /\ pc'[k] = "apply"
    BY <2>1, <2>3 DEF Watching
  <2> QED
    BY <1>a, <1>o, <2>1, <2>2, <2>4, <2>5
<1>10. ASSUME NEW j \in Jobs, Steer(j) \/ Reopen(j) PROVE Seen
  <2>1. /\ pc[j] \in {"steer", "reopen"} /\ UNCHANGED <<inbox, disk, typing, stopped>>
        /\ \E to \in {"begin", "look", "drop", "reopen", "apply", "done"} :
             pc' = [pc EXCEPT ![j] = to]
        /\ pc'[j] = "done" => ~Applying(j) /\ Home[j] # App
    BY <1>10, <1>t DEF Steer, Reopen, Goes
  <2>2. \A k \in Jobs : k # j => pc[k] \in {"idle", "apply", "done"} /\ pc'[k] = pc[k]
    BY <1>t, <1>u, <2>1 DEF Busy
  <2>3. \A k \in Jobs : pc[k] \notin {"mark", "drop"}
    BY <2>1, <2>2
  <2>4. CASE \E k \in Jobs : k # j /\ pc[k] = "apply"
    BY <1>a, <2>2, <2>4
  <2>5. CASE Watching(j) /\ \A k \in Jobs : k # j => pc[k] # "apply"
    <3>1. pc[j] = "steer" /\ ~Applying(j)
      BY <2>1, <2>5 DEF Watching
    <3>2. Home[j] = App
      BY <1>q, <1>t, <2>1, OneHome DEF Placed, Typists
    <3>3. pc'[j] \in {"begin", "apply"}
      BY <1>10, <1>t, <3>1, <3>2 DEF Steer, Reopen, Goes
    <3> QED
      BY <1>a, <3>3
  <2>6. CASE ~Watching(j) /\ \A k \in Jobs : k # j => pc[k] # "apply"
    BY <1>o, <2>1, <2>2, <2>3, <2>6 DEF Watching
  <2> QED
    BY <2>4, <2>5, <2>6
<1>11. ASSUME NEW j \in Jobs, ReadRecord(j) \/ WriteRecord(j) PROVE Seen
  BY <1>11, <1>f DEF ReadRecord, WriteRecord, Exclusive
<1>12. CASE UNCHANGED vars
  BY <1>12, <1>o DEF Watching, Applying, Home
<1> QED
  BY <1>1, <1>2, <1>3, <1>4, <1>5, <1>6, <1>7, <1>8, <1>9, <1>10, <1>11, <1>12
     DEF Next, Operator, Executor, Applier

\* When nothing is under way any more, the app's operator is owed no answer, in an
\* orderly scene with as many passes as there are instructions: with fewer the last
\* of them are left.
THEOREM OwedNothing == ASSUME Orderly, PassesEnough PROVE Spec => []NothingOwed
<1> DEFINE Inv == TypeInv /\ Exclusive /\ Records /\ Placed /\ Spent /\ Watched
<1>1. Init => Inv
  BY InitTypes, InitExclusive, InitRecords, InitOwed
<1>2. Inv /\ [Next]_vars => Inv'
  <2> SUFFICES ASSUME Inv, [Next]_vars PROVE Inv'
    OBVIOUS
  <2>1. TypeInv' /\ Exclusive' /\ Records' /\ [Stands]_vars
    BY NextTypes, NextExclusive, NextRecords
  <2>2. Stands
    <3>1. CASE UNCHANGED vars
      <4>1. disk' = disk /\ disk \in State
        BY <3>1 DEF TypeInv, TypeOK, FileTypes
      <4> QED
        BY <4>1 DEF Stands
    <3>2. CASE ~UNCHANGED vars
      BY <2>1, <3>2
    <3> QED
      BY <3>1, <3>2
  <2>3. Placed' /\ Spent' /\ Watched'
    BY <2>1, <2>2, NextPlaced, NextSpent, NextWatched
  <2> QED
    BY <2>1, <2>3
<1>3. Inv => NothingOwed
  <2> SUFFICES ASSUME Inv, Quiet, disk.status # "kept", stopped = {},
                      NEW q \in Pending(Merged(disk)), typing[q].proc = App,
                      typing[q].stage # "unheard"
               PROVE  FALSE
    BY DEF NothingOwed
  <2>1. disk \in State /\ inbox \subseteq Steers
    BY DEF TypeInv, TypeOK, FileTypes
  <2>2. q \in Steers /\ q \in inbox /\ Fresh(disk, q)
    BY <2>1, MergedState DEF Pending, Fresh, Records, Typed
  <2> QED
    BY <2>2 DEF Watched, Watching, Quiet
<1> QED
  BY <1>1, <1>2, <1>3, PTL DEF Spec
=============================================================================
