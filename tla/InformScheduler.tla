-------------------------- MODULE InformScheduler ---------------------------
(***************************************************************************)
(* InformScheduler (src/lifecycle/managed_session.cpp) in the loop that    *)
(* polls it (run_managed_loop of src/cli/main.cpp): one thread sends the   *)
(* INFORM_REQUEST, waits in receive_payload and handles requests, so an    *)
(* inform that is due waits for the call in progress; and the scheduler    *)
(* reads CLOCK_REALTIME, which ntpd may set.                               *)
(*                                                                         *)
(* SO_RCVTIMEO bounds one read of the socket, and receive_payload makes as *)
(* many as it takes to fill a frame; a send and a program that is run (an  *)
(* inform, a handler) are bounded by nothing.  One unit of time stands for *)
(* some hundred milliseconds.                                              *)
(***************************************************************************)
EXTENDS Integers

CONSTANTS
  Interval,     \* max(500, inform_interval_ms)
  RecvTimeout,  \* SO_RCVTIMEO of the management socket
  SeqCount,     \* number of values of a sequence number (2^32)
  LastSeq,      \* seq of the last handshake message
  StartClock,   \* the clock when the session starts
  MaxParts,     \* bound: reads of one receive that fill no frame
  MaxTime,      \* bound: duration of a behaviour
  MaxSteps      \* bound: how far the clock is set back, and forward, in all

ASSUME InformAssumption ==
  /\ Interval \in Nat \ {0} /\ RecvTimeout \in Nat /\ MaxParts \in Nat
  /\ SeqCount \in Nat \ {0} /\ LastSeq \in 0..(SeqCount - 1)
  /\ StartClock \in Nat /\ MaxTime \in Nat /\ MaxSteps \in Nat

VARIABLES
  pc,            \* "poll", "inform", "receive" or "handle"
  spent,         \* time spent in the read in progress
  clock,         \* now_ms()
  initial_sent,  \* members of InformScheduler
  next_seq,
  started_at,
  next_due,
  inform         \* the last ScheduledInform: seq, need_reply, uptime

(* Real time, read by the properties only.                                 *)
VARIABLES
  time,          \* since the session started
  lastDue,       \* when poll last returned an inform (0: not yet)
  back,          \* by how much the clock was set back since then
  ahead,         \* by how much it was set forward since then
  work,          \* time spent outside the receive since the last poll
  parts          \* reads since the last poll that brought part of a frame

vars == <<pc, spent, clock, initial_sent, next_seq, started_at, next_due, inform,
          time, lastDue, back, ahead, work, parts>>
scheduler == <<initial_sent, next_seq, started_at, next_due, inform>>
watch == <<time, lastDue, back, ahead>>
delays == <<work, parts>>

(* Mutant: a sequence number that does not wrap like uint32_t.             *)
NextSeqWide(seq) == seq + 1

NextSeq(seq) == (seq + 1) % SeqCount

(* start(), at the beginning of run_managed_loop.                          *)
Init ==
  /\ pc = "poll"
  /\ spent = 0
  /\ clock = StartClock
  /\ initial_sent = FALSE
  /\ next_seq = NextSeq(LastSeq)
  /\ started_at = clock
  /\ next_due = clock
  /\ inform = [seq |-> LastSeq, need_reply |-> FALSE, uptime |-> 0]
  /\ time = 0
  /\ lastDue = 0
  /\ back = 0
  /\ ahead = 0
  /\ work = 0
  /\ parts = 0

(* The guard of the code never bites: an inform is not due before the      *)
(* clock has passed started_at again.                                      *)
Uptime == IF clock > started_at THEN clock - started_at ELSE 0

(* Mutant: the next inform is due an interval after the last due time.     *)
NextDueFixedRate == next_due + Interval

NextDue == clock + Interval

(* poll(): an inform is due.                                               *)
PollDue ==
  /\ pc = "poll"
  /\ clock >= next_due
  /\ inform' = [seq |-> next_seq, need_reply |-> ~initial_sent, uptime |-> Uptime]
  /\ next_seq' = NextSeq(next_seq)
  /\ initial_sent' = TRUE
  /\ next_due' = NextDue
  /\ pc' = "inform"
  /\ lastDue' = time
  /\ back' = 0
  /\ ahead' = 0
  /\ work' = 0
  /\ parts' = 0
  /\ UNCHANGED <<clock, spent, started_at, time>>

PollNotDue ==
  /\ pc = "poll"
  /\ clock < next_due
  /\ pc' = "receive"
  /\ work' = 0
  /\ parts' = 0
  /\ UNCHANGED <<clock, spent, scheduler, watch>>

(* provider.build and send_payload are done.                               *)
InformSent ==
  /\ pc = "inform"
  /\ pc' = "receive"
  /\ UNCHANGED <<clock, spent, scheduler, watch, delays>>

(* Mutant: the loop goes on waiting after a timeout.                       *)
ReceiveAgain ==
  /\ pc = "receive"
  /\ spent = RecvTimeout
  /\ spent' = 0
  /\ UNCHANGED <<pc, clock, scheduler, watch, delays>>

(* A read returns some bytes and the frame needs more (a loop within       *)
(* SSL_read, and the one around it): the next read has the whole timeout.  *)
ReceivePart ==
  /\ pc = "receive"
  /\ parts < MaxParts
  /\ parts' = parts + 1
  /\ spent' = 0
  /\ UNCHANGED <<pc, clock, scheduler, watch, work>>

(* A read gets nothing within the timeout of the socket.                   *)
ReceiveTimeout ==
  /\ pc = "receive"
  /\ spent = RecvTimeout
  /\ pc' = "poll"
  /\ spent' = 0
  /\ UNCHANGED <<clock, scheduler, watch, delays>>

(* The last read of a frame.                                               *)
ReceiveRequest ==
  /\ pc = "receive"
  /\ pc' = "handle"
  /\ spent' = 0
  /\ UNCHANGED <<clock, scheduler, watch, delays>>

RequestHandled ==
  /\ pc = "handle"
  /\ pc' = "poll"
  /\ UNCHANGED <<clock, spent, scheduler, watch, delays>>

(***************************************************************************)
(* Time                                                                    *)
(***************************************************************************)
(* Time passes in a read of the socket, up to its timeout.                 *)
TickInRead ==
  /\ pc = "receive"
  /\ time < MaxTime
  /\ spent < RecvTimeout
  /\ spent' = spent + 1
  /\ clock' = clock + 1
  /\ time' = time + 1
  /\ UNCHANGED <<pc, scheduler, lastDue, back, ahead, delays>>

(* Time passes while an inform is built and sent or a request is handled.  *)
TickAtWork ==
  /\ pc \in {"inform", "handle"}
  /\ time < MaxTime
  /\ work' = work + 1
  /\ clock' = clock + 1
  /\ time' = time + 1
  /\ UNCHANGED <<pc, spent, scheduler, lastDue, back, ahead, parts>>

SetBack ==
  /\ back < MaxSteps
  /\ clock > 0
  /\ clock' = clock - 1
  /\ back' = back + 1
  /\ UNCHANGED <<pc, spent, scheduler, time, lastDue, ahead, delays>>

SetAhead ==
  /\ ahead < MaxSteps
  /\ clock' = clock + 1
  /\ ahead' = ahead + 1
  /\ UNCHANGED <<pc, spent, scheduler, time, lastDue, back, delays>>

Next ==
  \/ PollDue
  \/ PollNotDue
  \/ InformSent
  \/ ReceivePart
  \/ ReceiveTimeout
  \/ ReceiveRequest
  \/ RequestHandled
  \/ TickInRead
  \/ TickAtWork
  \/ SetBack
  \/ SetAhead

Spec == Init /\ [][Next]_vars

(***************************************************************************)
(* Properties                                                              *)
(***************************************************************************)
(* Typing: sequence numbers have the width of the header field, and no     *)
(* uptime is negative though the clock may be set back behind the start.   *)
TypeOK ==
  /\ pc \in {"poll", "inform", "receive", "handle"}
  /\ spent \in 0..(IF pc = "receive" THEN RecvTimeout ELSE 0)
  /\ clock \in Nat
  /\ initial_sent \in BOOLEAN
  /\ next_seq \in 0..(SeqCount - 1)
  /\ started_at \in Nat
  /\ next_due \in Nat
  /\ inform \in [seq : 0..(SeqCount - 1), need_reply : BOOLEAN, uptime : Nat]
  /\ time \in Nat
  /\ lastDue \in Nat
  /\ back \in Nat
  /\ ahead \in Nat
  /\ work \in Nat
  /\ parts \in 0..MaxParts

(* Informs keep coming: the loop asks the scheduler again after one        *)
(* iteration, so the next inform is late by no more than the work of that  *)
(* iteration, one receive timeout for its last read and one for each read  *)
(* that brought part of a frame, and what the clock was set back.  Nothing *)
(* bounds the work or the parts: a peer that trickles a frame, or a        *)
(* program that takes its time, holds the informs up for as long.          *)
InformsKeepComing ==
  time - lastDue <= Interval + work + (parts + 1) * RecvTimeout + back

(* The controller is not flooded: two informs are at least the interval    *)
(* apart, however late the previous one was, less what the clock was set   *)
(* forward.                                                                *)
InformsAreSpaced ==
  [][PollDue /\ initial_sent => time - lastDue >= Interval - ahead + back]_vars
=============================================================================
