------------------------ MODULE ProcessRunnerProofs -------------------------
(***************************************************************************)
(* What run_process promises its callers, for every size of a pipe, of the *)
(* input, of the output and of max_output_bytes, and for every program.    *)
(***************************************************************************)
EXTENDS ProcessRunner, TLAPS

Parents == {"call", "setup", "write", "read", "wait", "waiterr", "returned", "killed"}
Running == {"forked", "deciding", "reading", "writing"}

TypeOK ==
  /\ parent \in Parents
  /\ child \in Running \cup {"none", "gone"}
  /\ stdinR \subseteq Both /\ stdinW \subseteq Both
  /\ outR \subseteq Both /\ outW \subseteq Both
  /\ stdin \in 0..PipeCap /\ out \in 0..PipeCap
  /\ sent \in Nat /\ captured \in Nat /\ produced \in Nat
  /\ eof \in BOOLEAN /\ ok \in BOOLEAN
  /\ code \in Int \cup {NoCode}
  /\ size \in Calls

(* Who can still hold which end of the pipes.                              *)
Ends ==
  /\ "parent" \in stdinR \cup outW => parent = "setup"
  /\ "parent" \in stdinW => parent \in {"setup", "write"}
  /\ "parent" \in outR => parent \in {"setup", "write", "read"}
  /\ "child" \in stdinW \cup outR => child = "forked"
  /\ "child" \in stdinR \cup outW => child \in Running
  /\ child = "writing" => "child" \in outW

(* The child exists from the fork until it is reaped.                      *)
ChildExists == child = "none" <=> parent \in {"call", "returned"}

(* What left the output pipe is in result.output, up to its limit.         *)
Kept ==
  /\ out <= produced
  /\ captured = IF produced - out < MaxOutput THEN produced - out ELSE MaxOutput

(* After the end of the output nobody can write to it any more, and a      *)
(* successful result has the status the child left and no output missing.  *)
Ended ==
  /\ parent \in {"call", "wait"} => outW = {} /\ out = 0
  /\ parent = "returned" => outW = {}
  /\ ok => parent = "returned" /\ code = 0 /\ out = 0

RunnerInv == TypeOK /\ Ends /\ ChildExists /\ Kept /\ Ended

(* Before the call there is no pipe, no child and no output.               *)
LEMMA InitInv == Init => RunnerInv
<1> SUFFICES ASSUME Init
             PROVE  RunnerInv
  OBVIOUS
<1> USE RunnerAssumption DEF Init
<1>1. eof \in BOOLEAN /\ ok \in BOOLEAN
  OBVIOUS
<1>2. TypeOK
  BY <1>1 DEF TypeOK, Parents
<1>3. Ends /\ ChildExists /\ Kept /\ Ended
  BY DEF Ends, ChildExists, Kept, Ended
<1>4. QED
  BY <1>2, <1>3 DEF RunnerInv

(* Every step of run_process, from the pipes to waitpid, keeps it.         *)
LEMMA ParentInv ==
  ASSUME RunnerInv, ParentStep \/ ReadFails
  PROVE  RunnerInv'
<1> USE RunnerAssumption DEF RunnerInv, TypeOK, Parents, Running, Both, pipes
<1>1. CASE CallFails
  BY <1>1 DEF CallFails, Ends, ChildExists, Kept, Ended
<1>2. CASE Fork
  BY <1>2 DEF Fork, Ends, ChildExists, Kept, Ended
<1>3. CASE CloseChildEnds
  BY <1>3 DEF CloseChildEnds, Ends, ChildExists, Kept, Ended
<1>4. CASE Write
  BY <1>4 DEF Write, Ends, ChildExists, Kept, Ended
<1>5. CASE WriteKilled
  BY <1>5 DEF WriteKilled, Ends, ChildExists, Kept, Ended
<1>6. CASE WriteDone
  BY <1>6 DEF WriteDone, Ends, ChildExists, Kept, Ended
<1>7. CASE Read
  <2>1. Kept'
    BY <1>7 DEF Read, Kept
  <2>2. QED
    BY <1>7, <2>1 DEF Read, Ends, ChildExists, Ended
<1>8. CASE ReadEof
  BY <1>8 DEF ReadEof, Ends, ChildExists, Kept, Ended
<1>9. CASE Reap
  <2>1. TypeOK'
    BY <1>9 DEF Reap
  <2>2. Ended'
    BY <1>9 DEF Reap, Ended
  <2>3. QED
    BY <1>9, <2>1, <2>2 DEF Reap, Ends, ChildExists, Kept
<1>10. CASE ReadFails
  BY <1>10 DEF ReadFails, Ends, ChildExists, Kept, Ended
<1>11. CASE ReapError
  BY <1>11 DEF ReapError, Ends, ChildExists, Kept, Ended
<1>12. QED
  BY <1>1, <1>2, <1>3, <1>4, <1>5, <1>6, <1>7, <1>8, <1>9, <1>10, <1>11 DEF ParentStep

(* The exit of the child closes every end it had, whenever it comes.       *)
LEMMA ExitInv ==
  ASSUME RunnerInv, child \in Running, NEW c \in Int, Exit(c)
  PROVE  RunnerInv'
  BY RunnerAssumption DEF RunnerInv, TypeOK, Parents, Running, Both, Exit, Ends,
     ChildExists, Kept, Ended

(* Every step of the program in the child keeps it.                        *)
LEMMA ChildInv ==
  ASSUME RunnerInv, ChildStep
  PROVE  RunnerInv'
<1> USE RunnerAssumption DEF RunnerInv, TypeOK, Parents, Running, Both, pipes
<1>1. CASE Exec
  BY <1>1 DEF Exec, Ends, ChildExists, Kept, Ended
<1>2. CASE ExecFails \/ ChildKilled \/ \E c \in {0, 1} : ProgramExits(c)
  BY <1>2, ExitInv DEF ExecFails, ChildKilled, ProgramExits
<1>3. ASSUME NEW op \in {"reading", "writing"}, Decide(op)
      PROVE  RunnerInv'
  BY <1>3 DEF Decide, Ends, ChildExists, Kept, Ended
<1>4. CASE ProgramCloses
  BY <1>4 DEF ProgramCloses, Ends, ChildExists, Kept, Ended
<1>5. CASE ChildReads
  <2>1. eof' \in BOOLEAN
    BY <1>5 DEF ChildReads
  <2>2. QED
    BY <1>5, <2>1 DEF ChildReads, Ends, ChildExists, Kept, Ended
<1>6. CASE ChildWrites
  <2>1. parent \notin {"call", "wait", "returned"}
    BY <1>6 DEF ChildWrites, Ends, Ended
  <2>2. QED
    BY <1>6, <2>1 DEF ChildWrites, Ends, ChildExists, Kept, Ended
<1>7. QED
  BY <1>1, <1>2, <1>3, <1>4, <1>5, <1>6 DEF ChildStep

(* Any step keeps the invariant; the next call starts from nothing.        *)
LEMMA StepInv == RunnerInv /\ [Next]_vars => RunnerInv'
<1> SUFFICES ASSUME RunnerInv, [Next]_vars
             PROVE  RunnerInv'
  OBVIOUS
<1>1. CASE ParentStep \/ ReadFails
  BY <1>1, ParentInv
<1>2. CASE ChildStep
  BY <1>2, ChildInv
<1>3. CASE NextCall
  <2>1. eof' \in BOOLEAN /\ ok' \in BOOLEAN
    BY <1>3 DEF NextCall
  <2>2. TypeOK'
    BY <1>3, <2>1, RunnerAssumption DEF NextCall, TypeOK, Parents, Calls
  <2>3. (Ends /\ ChildExists /\ Kept /\ Ended)'
    BY <1>3, RunnerAssumption DEF NextCall, Ends, ChildExists, Kept, Ended
  <2>4. QED
    BY <2>2, <2>3 DEF RunnerInv
<1>4. CASE UNCHANGED vars
  BY <1>4 DEF vars, pipes, RunnerInv, TypeOK, Ends, ChildExists, Kept, Ended
<1>5. QED
  BY <1>1, <1>2, <1>3, <1>4 DEF Next

(* The invariant of run_process and of the program it runs.                *)
THEOREM RunnerCorrect == Spec => []RunnerInv
  BY InitInv, StepInv, PTL DEF Spec

(* result.ok is a status of 0 and the whole output up to its limit,        *)
(* whatever the program wrote before and after it closed its ends.         *)
THEOREM RunnerOkIsComplete == Spec => []OkIsComplete
<1>1. RunnerInv => OkIsComplete
  BY RunnerAssumption DEF RunnerInv, TypeOK, Kept, Ended, OkIsComplete
<1>2. QED
  BY <1>1, RunnerCorrect, PTL

(* run_process returns with the child reaped and every pipe end closed.    *)
THEOREM RunnerLeavesNothing == Spec => []NothingLeft
<1>1. RunnerInv => NothingLeft
  BY DEF RunnerInv, TypeOK, Both, Running, Ends, ChildExists, Ended, NothingLeft
<1>2. QED
  BY <1>1, RunnerCorrect, PTL
=============================================================================
