--------------------------- MODULE ProcessRunner ---------------------------
(***************************************************************************)
(* run_process of src/openwrt/process.cpp: two pipes, a fork, the input    *)
(* written to the child's stdin, its stdout and stderr read to the end and *)
(* the child reaped.  Parent and child run concurrently and block on the   *)
(* pipes.  The program in the child is any program that reads, writes and  *)
(* exits.  A unit of data stands for any number of bytes.                  *)
(***************************************************************************)
EXTENDS Integers, FiniteSets

CONSTANTS
  PipeCap,     \* what a pipe holds
  MaxData,     \* bound: input and output of one call
  MaxOutput,   \* max_output_bytes
  NoCode       \* the child has not exited

ASSUME RunnerAssumption ==
  /\ PipeCap \in Nat \ {0}
  /\ MaxData \in Nat /\ MaxOutput \in Nat
  /\ NoCode \notin Int

VARIABLES
  parent,     \* where run_process is
  child,      \* "none", "forked", "deciding", "reading", "writing", "gone"
  stdinR,     \* the processes that hold the read end of the stdin pipe,
  stdinW,     \*   its write end,
  outR,       \*   the read end of the output pipe
  outW,       \*   and its write end
  stdin,      \* data in the stdin pipe
  out,        \* data in the output pipe
  sent,       \* input written so far
  captured,   \* size of result.output
  produced,   \* what the child wrote
  eof,        \* the child saw the end of its input
  code,       \* its exit code
  ok,         \* result.ok
  size        \* [input, output] of this call

pipes == <<stdinR, stdinW, outR, outW, stdin, out>>
vars == <<parent, child, pipes, sent, captured, produced, eof, code, ok, size>>

Both == {"parent", "child"}

(* The parent writes all of the input before it reads any output, so both  *)
(* fill their pipe and wait for each other when input and output exceed    *)
(* what a pipe holds.  The agent's commands stay below: a `uci batch`      *)
(* prints errors only, and the commands with long outputs have no input.   *)
Calls ==
  {s \in [input : 0..MaxData, output : 0..MaxData] :
     s.input <= PipeCap \/ s.output <= PipeCap}

Init ==
  /\ parent = "call"
  /\ child = "none"
  /\ stdinR = {} /\ stdinW = {} /\ outR = {} /\ outW = {}
  /\ stdin = 0 /\ out = 0
  /\ sent = 0 /\ captured = 0 /\ produced = 0
  /\ eof = FALSE
  /\ code = NoCode
  /\ ok = FALSE
  /\ size \in Calls

(***************************************************************************)
(* The parent                                                              *)
(***************************************************************************)
(* A bad argument, no pipe, no process.                                    *)
CallFails ==
  /\ parent = "call"
  /\ parent' = "returned"
  /\ UNCHANGED <<child, pipes, sent, captured, produced, eof, code, ok, size>>

Fork ==
  /\ parent = "call"
  /\ parent' = "setup"
  /\ child' = "forked"
  /\ stdinR' = Both /\ stdinW' = Both /\ outR' = Both /\ outW' = Both
  /\ UNCHANGED <<stdin, out, sent, captured, produced, eof, code, ok, size>>

(* Mutant: the parent keeps its copy of the output's write end.            *)
CloseChildEndsOfInput ==
  /\ parent = "setup"
  /\ parent' = "write"
  /\ stdinR' = stdinR \ {"parent"}
  /\ UNCHANGED <<child, stdinW, outR, outW, stdin, out, sent, captured, produced,
                 eof, code, ok, size>>

CloseChildEnds ==
  /\ parent = "setup"
  /\ parent' = "write"
  /\ stdinR' = stdinR \ {"parent"}
  /\ outW' = outW \ {"parent"}
  /\ UNCHANGED <<child, stdinW, outR, stdin, out, sent, captured, produced,
                 eof, code, ok, size>>

Write ==
  /\ parent = "write"
  /\ sent < size.input
  /\ stdinR # {}
  /\ stdin < PipeCap
  /\ stdin' = stdin + 1
  /\ sent' = sent + 1
  /\ UNCHANGED <<parent, child, stdinR, stdinW, outR, outW, out, captured, produced,
                 eof, code, ok, size>>

(* Nobody reads the input any more: SIGPIPE, which the daemon does not     *)
(* handle, ends it.                                                        *)
WriteKilled ==
  /\ parent = "write"
  /\ sent < size.input
  /\ stdinR = {}
  /\ parent' = "killed"
  /\ stdinW' = stdinW \ {"parent"}
  /\ outR' = outR \ {"parent"}
  /\ UNCHANGED <<child, stdinR, outW, stdin, out, sent, captured, produced,
                 eof, code, ok, size>>

WriteDone ==
  /\ parent = "write"
  /\ sent = size.input
  /\ parent' = "read"
  /\ stdinW' = stdinW \ {"parent"}
  /\ UNCHANGED <<child, stdinR, outR, outW, stdin, out, sent, captured, produced,
                 eof, code, ok, size>>

(* What exceeds max_output_bytes is read and dropped.                      *)
Read ==
  /\ parent = "read"
  /\ out > 0
  /\ out' = out - 1
  /\ captured' = IF captured < MaxOutput THEN captured + 1 ELSE captured
  /\ UNCHANGED <<parent, child, stdinR, stdinW, outR, outW, stdin, sent, produced,
                 eof, code, ok, size>>

ReadEof ==
  /\ parent = "read"
  /\ out = 0
  /\ outW = {}
  /\ parent' = "wait"
  /\ outR' = outR \ {"parent"}
  /\ UNCHANGED <<child, stdinR, stdinW, outW, stdin, out, sent, captured, produced,
                 eof, code, ok, size>>

(* Mutant: the error of read() is not remembered.                          *)
ReadFailsUnnoticed ==
  /\ parent = "read"
  /\ parent' = "wait"
  /\ outR' = outR \ {"parent"}
  /\ UNCHANGED <<child, stdinR, stdinW, outW, stdin, out, sent, captured, produced,
                 eof, code, ok, size>>

(* read() fails: what was read so far is all there will be of the output.  *)
ReadFails ==
  /\ parent = "read"
  /\ parent' = "waiterr"
  /\ outR' = outR \ {"parent"}
  /\ UNCHANGED <<child, stdinR, stdinW, outW, stdin, out, sent, captured, produced,
                 eof, code, ok, size>>

(* Mutant: run_process returns when the output ends.                       *)
ReapNoWait ==
  /\ parent = "wait"
  /\ parent' = "returned"
  /\ child' = IF child = "gone" THEN "none" ELSE child
  /\ ok' = (code = 0)
  /\ UNCHANGED <<pipes, sent, captured, produced, eof, code, size>>

Reap ==
  /\ parent = "wait"
  /\ child = "gone"
  /\ parent' = "returned"
  /\ child' = "none"
  /\ ok' = (code = 0)
  /\ UNCHANGED <<pipes, sent, captured, produced, eof, code, size>>

(* The child is gone and the result is an error whatever its status: the   *)
(* read failed, or waitpid does (ECHILD, when the daemon was started with  *)
(* SIGCHLD ignored and the kernel has reaped the child).                   *)
ReapError ==
  /\ parent \in {"wait", "waiterr"}
  /\ child = "gone"
  /\ parent' = "returned"
  /\ child' = "none"
  /\ ok' = FALSE
  /\ UNCHANGED <<pipes, sent, captured, produced, eof, code, size>>

(***************************************************************************)
(* The child                                                               *)
(***************************************************************************)
Exit(c) ==
  /\ child' = "gone"
  /\ code' = c
  /\ stdinR' = stdinR \ {"child"} /\ stdinW' = stdinW \ {"child"}
  /\ outR' = outR \ {"child"} /\ outW' = outW \ {"child"}
  /\ UNCHANGED <<parent, stdin, out, sent, captured, produced, eof, ok, size>>

(* dup2, close of all four ends and exec: the duplicates are what is left. *)
Exec ==
  /\ child = "forked"
  /\ child' = "deciding"
  /\ stdinW' = stdinW \ {"child"}
  /\ outR' = outR \ {"child"}
  /\ UNCHANGED <<parent, stdinR, outW, stdin, out, sent, captured, produced,
                 eof, code, ok, size>>

ExecFails == child = "forked" /\ Exit(127)

(* The program reads until the end of its input, writes, or exits.         *)
Decide(op) ==
  /\ child = "deciding"
  /\ op = "reading" => ~eof /\ "child" \in stdinR
  /\ op = "writing" => produced < size.output /\ "child" \in outW
  /\ child' = op
  /\ UNCHANGED <<parent, pipes, sent, captured, produced, eof, code, ok, size>>

(* A program may close its input or output long before it exits.           *)
ProgramCloses ==
  /\ child = "deciding"
  /\ \/ "child" \in outW /\ outW' = outW \ {"child"} /\ stdinR' = stdinR
     \/ "child" \in stdinR /\ stdinR' = stdinR \ {"child"} /\ outW' = outW
  /\ UNCHANGED <<parent, child, stdinW, outR, stdin, out, sent, captured,
                 produced, eof, code, ok, size>>

ProgramExits(c) == child = "deciding" /\ Exit(c)

ChildReads ==
  /\ child = "reading"
  /\ stdin > 0 \/ stdinW = {}
  /\ IF stdin > 0 THEN stdin' = stdin - 1 /\ eof' = eof
                  ELSE stdin' = stdin /\ eof' = TRUE
  /\ child' = "deciding"
  /\ UNCHANGED <<parent, stdinR, stdinW, outR, outW, out, sent, captured, produced,
                 code, ok, size>>

ChildWrites ==
  /\ child = "writing"
  /\ outR # {}
  /\ out < PipeCap
  /\ out' = out + 1
  /\ produced' = produced + 1
  /\ child' = "deciding"
  /\ UNCHANGED <<parent, stdinR, stdinW, outR, outW, stdin, sent, captured, eof,
                 code, ok, size>>

(* 128 + SIGPIPE: nobody reads the output.                                 *)
ChildKilled ==
  /\ child = "writing"
  /\ outR = {}
  /\ Exit(141)

(***************************************************************************)
(* The next command: of the same process, or of the one procd respawned.   *)
(***************************************************************************)
NextCall ==
  /\ \/ parent = "returned"
     \/ parent = "killed" /\ child = "gone"
  /\ parent' = "call"
  /\ child' = "none"
  /\ stdinR' = {} /\ stdinW' = {} /\ outR' = {} /\ outW' = {}
  /\ stdin' = 0 /\ out' = 0
  /\ sent' = 0 /\ captured' = 0 /\ produced' = 0
  /\ eof' = FALSE
  /\ code' = NoCode
  /\ ok' = FALSE
  /\ size' \in Calls

ParentStep ==
  \/ CallFails
  \/ Fork
  \/ CloseChildEnds
  \/ Write
  \/ WriteKilled
  \/ WriteDone
  \/ Read
  \/ ReadEof
  \/ Reap
  \/ ReapError

ChildStep ==
  \/ Exec
  \/ ExecFails
  \/ \E op \in {"reading", "writing"} : Decide(op)
  \/ ProgramCloses
  \/ \E c \in {0, 1} : ProgramExits(c)
  \/ ChildReads
  \/ ChildWrites
  \/ ChildKilled

Next ==
  \/ ParentStep
  \/ ReadFails
  \/ ChildStep
  \/ NextCall

Spec == Init /\ [][Next]_vars

(* Both processes are scheduled; nothing is assumed of a blocked one, in   *)
(* particular not that an error ends its read.                             *)
FairSpec == Spec /\ WF_vars(ParentStep) /\ WF_vars(ChildStep)

(***************************************************************************)
(* Properties                                                              *)
(***************************************************************************)
(* result.ok means that the program was executed, ended by itself with     *)
(* status 0, and that all it wrote is in result.output, up to              *)
(* max_output_bytes: nothing it wrote late is missing.                     *)
OkIsComplete ==
  parent = "returned" /\ ok =>
    /\ code = 0
    /\ out = 0
    /\ captured = IF produced < MaxOutput THEN produced ELSE MaxOutput

(* run_process leaves nothing behind: no zombie and no open pipe end, in   *)
(* the daemon or in the program, whichever way the two interleaved.        *)
NothingLeft ==
  parent = "returned" =>
    /\ child = "none"
    /\ stdinR \cup stdinW \cup outR \cup outW = {}

(* A command whose program keeps running to its end does not block the     *)
(* daemon: run_process returns, however program and daemon interleave (or  *)
(* SIGPIPE ends the daemon).                                               *)
RunEnds == (parent = "call") ~> (parent \in {"returned", "killed"})
=============================================================================
