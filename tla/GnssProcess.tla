---------------------------- MODULE GnssProcess ----------------------------
(***************************************************************************)
(* What the GNSS process tells the user interface (GNSS/src/main.c, and    *)
(* ui_update_thread and the sends of gnss_reading_thread in                *)
(* gnss_reader.c).  Both threads send a number of satellites down a named  *)
(* pipe, without waiting for a reader.  Sentences are in NmeaParser, files *)
(* in GnssCollector, commands in CommandFifo.  Which numbers are sent      *)
(* matters to no property here, so a pipe is the number of its numbers.    *)
(*                                                                         *)
(* A pipe removed from its name lives on for those who have it open.  A    *)
(* write that finds no reader kills the process (SIGPIPE).  Time passes in *)
(* steps of one pass through the loops.                                    *)
(***************************************************************************)
EXTENDS Naturals, Sequences

CONSTANTS
  RECORD_INTERVAL,  \* passes between two records, and between two updates
  PIPE_BUF,         \* numbers a pipe holds
  MaxStarts,        \* bound of the model: starts of the process
  MaxSwitches,      \* bound of the model: start and stop commands
  MaxOpens          \* bound of the model: times the display opens the pipe

ASSUME GnssProcessAssumption ==
  /\ RECORD_INTERVAL \in Nat \ {0}
  /\ PIPE_BUF \in Nat \ {0} /\ {MaxStarts, MaxSwitches, MaxOpens} \subseteq Nat

VARIABLES
  alive,        \* does the process run?
  running,      \* control->running
  pipe,         \* how many numbers are in every pipe made so far
  path,         \* pipe found under UI_FIFO_PATH, 0 if there is none
  reader,       \* pipe the display has open, or 0
  fifo_fd,      \* pipe each thread has open, or 0
  serial_fd,    \* has the reading thread the receiver open?
  step,         \* step of each thread
  awake,        \* has the thread still to make its pass?
  sinceRecord,  \* time since last_record_time, up to RECORD_INTERVAL
  sinceUpdate   \* time since last_update_time, up to RECORD_INTERVAL

(* History of the run, read by the properties only.                        *)
VARIABLES
  processStarts, switches, displayOpens,
  overtaken      \* has the display made the pipe the process was about to make?

process  == <<alive, running>>
handles  == <<fifo_fd, serial_fd>>
senders  == <<handles, step, awake>>
timers   == <<sinceRecord, sinceUpdate>>
fifo     == <<pipe, path>>
gnssHistory == <<processStarts, switches, displayOpens, overtaken>>
gnssVars == <<process, fifo, reader, senders, timers, gnssHistory>>

Senders == {"reading", "update"}
-----------------------------------------------------------------------------
GnssInit ==
  /\ alive = FALSE /\ running = FALSE
  /\ pipe = <<>> /\ path = 0 /\ reader = 0
  /\ fifo_fd = [t \in Senders |-> 0] /\ serial_fd = FALSE
  /\ step = [t \in Senders |-> "none"] /\ awake = [t \in Senders |-> FALSE]
  /\ sinceRecord = RECORD_INTERVAL /\ sinceUpdate = RECORD_INTERVAL
  /\ processStarts = 0 /\ switches = 0 /\ displayOpens = 0 /\ overtaken = FALSE

(* main: no thread, or only the first ones, may be made; then it returns.  *)
StartGnss ==
  /\ ~alive /\ processStarts < MaxStarts
  /\ processStarts' = processStarts + 1
  /\ \/ UNCHANGED <<alive, step, awake>>
     \/ /\ alive' = TRUE
        /\ step' = [reading |-> "idle", update |-> "unlink"]
        /\ awake' = [t \in Senders |-> TRUE]
  /\ running' = FALSE
  /\ fifo_fd' = [t \in Senders |-> 0] /\ serial_fd' = FALSE
  /\ sinceRecord' = RECORD_INTERVAL /\ sinceUpdate' = RECORD_INTERVAL
  /\ overtaken' = FALSE
  /\ UNCHANGED <<fifo, reader, switches, displayOpens>>

(* What is in a pipe is lost when nobody has it open any more.             *)
LostWith(openFor) ==
  [id \in DOMAIN pipe |-> IF id \in openFor THEN pipe[id] ELSE 0]

(* signal_handler, or a kill; and SIGPIPE, which nobody catches.           *)
Die ==
  /\ alive' = FALSE
  /\ pipe' = LostWith({reader})
  /\ fifo_fd' = [t \in Senders |-> 0] /\ serial_fd' = FALSE
  /\ step' = [t \in Senders |-> "none"] /\ awake' = [t \in Senders |-> FALSE]
  /\ UNCHANGED <<running, path, reader, timers, gnssHistory>>

KillGnss == alive /\ Die

(* start_gnss_collection and stop_gnss_collection, by the listener.        *)
SwitchCollection ==
  /\ alive /\ switches < MaxSwitches
  /\ switches' = switches + 1
  /\ running' = ~running
  /\ UNCHANGED <<alive, fifo, reader, senders, timers, processStarts,
                 displayOpens, overtaken>>

(* usleep and sleep of both threads, which last longer than their passes.  *)
Tick ==
  /\ alive /\ \A t \in Senders : ~awake[t]
  /\ awake' = [t \in Senders |-> TRUE]
  /\ sinceRecord' = IF sinceRecord < RECORD_INTERVAL THEN sinceRecord + 1
                    ELSE sinceRecord
  /\ sinceUpdate' = IF sinceUpdate < RECORD_INTERVAL THEN sinceUpdate + 1
                    ELSE sinceUpdate
  /\ UNCHANGED <<process, fifo, reader, handles, step, gnssHistory>>

At(t, s) == awake[t] /\ step[t] = s
Goto(t, s) == step' = [step EXCEPT ![t] = s] /\ UNCHANGED awake
Rest(t, s) ==
  step' = [step EXCEPT ![t] = s] /\ awake' = [awake EXCEPT ![t] = FALSE]
-----------------------------------------------------------------------------
(* One send.  The open fails if nobody reads; the write finds no reader if *)
(* the display has closed the pipe since, and writes nothing if it is full.*)
OpenWaits(t) == path # 0 /\ reader = path
OpenReturns(t) == TRUE

OpenFifo(t) ==
  /\ At(t, "send") /\ OpenReturns(t)
  /\ IF path # 0 /\ reader = path
     THEN fifo_fd' = [fifo_fd EXCEPT ![t] = path] /\ Goto(t, "write")
     ELSE Rest(t, "idle") /\ UNCHANGED fifo_fd
  /\ UNCHANGED <<process, fifo, reader, serial_fd, timers, gnssHistory>>

WriteFifo(t) ==
  /\ At(t, "write") /\ reader = fifo_fd[t]
  /\ pipe' = IF pipe[reader] < PIPE_BUF
             THEN [pipe EXCEPT ![reader] = @ + 1] ELSE pipe
  /\ fifo_fd' = [fifo_fd EXCEPT ![t] = 0]
  /\ Rest(t, "idle")
  /\ sinceUpdate' = IF t = "update" THEN 0 ELSE sinceUpdate
  /\ UNCHANGED <<process, path, reader, serial_fd, sinceRecord, gnssHistory>>

BrokenPipe(t) == At(t, "write") /\ reader # fifo_fd[t] /\ Die

Send(t) == OpenFifo(t) \/ WriteFifo(t) \/ BrokenPipe(t)
-----------------------------------------------------------------------------
(* gnss_reading_thread, apart from its files, whose fopen may fail.        *)
RecordDue == sinceRecord >= RECORD_INTERVAL

ReadingIdle ==
  /\ At("reading", "idle") /\ ~serial_fd /\ ~running
  /\ Rest("reading", "idle")
  /\ UNCHANGED <<process, fifo, reader, handles, timers, gnssHistory>>

(* A record that is due is sent as well.                                   *)
RecordAndSend ==
  \/ /\ RecordDue
     /\ sinceRecord' = 0
     /\ Goto("reading", "send")
  \/ Rest("reading", "idle") /\ UNCHANGED sinceRecord

NoDevice ==
  /\ At("reading", "idle") /\ ~serial_fd /\ running
  /\ RecordAndSend
  /\ UNCHANGED <<process, fifo, reader, handles, sinceUpdate, gnssHistory>>

OpenDevice ==
  /\ At("reading", "idle") /\ ~serial_fd /\ running
  /\ serial_fd' = TRUE
  /\ sinceRecord' = RECORD_INTERVAL
  /\ UNCHANGED <<process, fifo, reader, fifo_fd, step, awake, sinceUpdate,
                 gnssHistory>>

(* A read brings a sentence or nothing of use.                             *)
Collect ==
  /\ At("reading", "idle") /\ serial_fd /\ running
  /\ RecordAndSend
  /\ UNCHANGED <<process, fifo, reader, handles, sinceUpdate, gnssHistory>>

StopCollecting ==
  /\ At("reading", "idle") /\ serial_fd /\ ~running
  /\ serial_fd' = FALSE
  /\ UNCHANGED <<process, fifo, reader, fifo_fd, step, awake, timers,
                 gnssHistory>>

ReadingStep ==
  ReadingIdle \/ NoDevice \/ OpenDevice \/ Collect \/ StopCollecting
    \/ Send("reading")
-----------------------------------------------------------------------------
(* ui_update_thread makes its pipe anew; it ends if it cannot.             *)
UnlinkForgotten == UNCHANGED path
UnlinkPipe == path' = 0

UnlinkFifo ==
  /\ At("update", "unlink")
  /\ UnlinkPipe
  /\ Goto("update", "make")
  /\ UNCHANGED <<process, pipe, reader, handles, timers, gnssHistory>>

MakeFifo ==
  /\ At("update", "make")
  /\ IF path = 0
     THEN /\ pipe' = Append(pipe, 0) /\ path' = Len(pipe) + 1
          /\ Goto("update", "idle")
     ELSE Rest("update", "ended") /\ UNCHANGED fifo
  /\ UNCHANGED <<process, reader, handles, timers, gnssHistory>>

UpdateIdle ==
  /\ At("update", "idle")
  /\ IF sinceUpdate >= RECORD_INTERVAL
     THEN Goto("update", "send")
     ELSE Rest("update", "idle")
  /\ UNCHANGED <<process, fifo, reader, handles, timers, gnssHistory>>

UpdateEnded ==
  /\ At("update", "ended")
  /\ Rest("update", "ended")
  /\ UNCHANGED <<process, fifo, reader, handles, timers, gnssHistory>>

UpdateStep ==
  UnlinkFifo \/ MakeFifo \/ UpdateIdle \/ UpdateEnded \/ Send("update")
-----------------------------------------------------------------------------
(* The display opens the pipe, making it if there is none, reads whatever  *)
(* is in it as one number, and may close it again.                         *)
DisplayOpen ==
  /\ reader = 0 /\ displayOpens < MaxOpens
  /\ displayOpens' = displayOpens + 1
  /\ \/ path # 0 /\ reader' = path /\ UNCHANGED <<fifo, overtaken>>
     \/ /\ path = 0
        /\ pipe' = Append(pipe, 0) /\ path' = Len(pipe) + 1
        /\ reader' = Len(pipe) + 1
        /\ overtaken' = (overtaken \/ step["update"] = "make")
  /\ UNCHANGED <<process, senders, timers, processStarts,
                 switches>>

DisplayRead ==
  /\ reader # 0 /\ pipe[reader] > 0
  /\ pipe' = [pipe EXCEPT ![reader] = 0]
  /\ UNCHANGED <<process, path, reader, senders, timers, gnssHistory>>

DisplayClose ==
  /\ reader # 0
  /\ reader' = 0
  /\ pipe' = LostWith({fifo_fd[t] : t \in Senders})
  /\ UNCHANGED <<process, path, senders, timers, gnssHistory>>

GnssNext ==
  \/ StartGnss \/ KillGnss \/ SwitchCollection \/ Tick
  \/ ReadingStep \/ UpdateStep
  \/ DisplayOpen \/ DisplayRead \/ DisplayClose

GnssSpec == GnssInit /\ [][GnssNext]_gnssVars

(* The threads are scheduled and time passes.                              *)
GnssFairness ==
  WF_gnssVars(ReadingStep) /\ WF_gnssVars(UpdateStep) /\ WF_gnssVars(Tick)
-----------------------------------------------------------------------------
(* Types of all variables.                                                 *)
GnssTypeOK ==
  /\ {alive, running, serial_fd, overtaken} \subseteq BOOLEAN
  /\ pipe \in Seq(0..PIPE_BUF)
  /\ {path, reader} \subseteq 0..Len(pipe)
  /\ fifo_fd \in [Senders -> 0..Len(pipe)]
  /\ step \in [Senders -> {"none", "idle", "send", "write", "unlink",
                           "make", "ended"}]
  /\ awake \in [Senders -> BOOLEAN]
  /\ {sinceRecord, sinceUpdate} \subseteq 0..RECORD_INTERVAL
  /\ {processStarts, switches, displayOpens} \subseteq Nat

(* No thread is held up by the display: whether it reads, never opens the  *)
(* pipe, opens it and reads nothing, or closes it, each send comes to its  *)
(* end, if only, with a display that closes the pipe in the middle of it,  *)
(* by the end of the process.                                              *)
SendersReturn ==
  \A t \in Senders : step[t] = "send" ~> step[t] \notin {"send", "write"}

Attached ==
  /\ alive /\ reader # 0 /\ reader = path
  /\ step["update"] \notin {"unlink", "make"}

(* A display that has the pipe of the process open gets a number, also     *)
(* when nothing is collected, and also if it opens the pipe just after a   *)
(* send; unless it made the pipe itself while the process was about to.    *)
DisplayFed ==
  Attached ~> ~Attached \/ overtaken \/ reader \in {id \in DOMAIN pipe : pipe[id] > 0}
=============================================================================
