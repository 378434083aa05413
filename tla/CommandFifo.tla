---------------------------- MODULE CommandFifo ----------------------------
(***************************************************************************)
(* The named pipe over which a collector is told to start and to stop:     *)
(* command_listener_thread of the GNSS and of the IMU collector, which are *)
(* the same but for the size of the buffer, and the program gnss_control   *)
(* (and whatever else writes to the pipe, like the user interface).        *)
(*                                                                         *)
(* The listener opens the pipe, reads once, closes it and acts; it does so *)
(* for ever.  A sender opens the pipe, writes its command without a        *)
(* terminator and closes it.  What open, read, write and close do is the   *)
(* kernel's part: an open waits for the other side, a read takes all that  *)
(* was written, a write without a reader kills the writer, and what is in  *)
(* the pipe is gone when the last descriptor is closed.                    *)
(*                                                                         *)
(* The pipe never holds more than the three commands that fit the buffer   *)
(* of 20 bytes (MaxCommands bounds the commands of a run).                 *)
(***************************************************************************)
EXTENDS Naturals, Sequences, FiniteSets

CONSTANTS
  Senders,
  NoSender,     \* not a sender
  Careful,      \* does a sender wait until the last command is carried out?
  MaxCommands,  \* bound of the model: commands sent
  MaxRestarts   \* bound of the model: restarts of the collector

ASSUME FifoAssumption ==
  /\ NoSender \notin Senders
  /\ Careful \in BOOLEAN
  /\ MaxCommands \in Nat /\ MaxRestarts \in Nat

VARIABLES
  path,     \* does FIFO_PATH exist?
  pipe,     \* what was written to the pipe and not read, oldest first
  called,   \* has a sender opened the pipe since the listener waits for one?
  listener, \* step of the listener
  cmd,      \* its buffer
  running,  \* control->running, or g_imu_recording
  sender,   \* step of each sender
  what,     \* argv[1] of each sender
  stale     \* does the sender hold a pipe that FIFO_PATH names no more?

(* History of the run, read by the properties only.                        *)
VARIABLES
  sent,     \* number of commands for which a sender was run
  written,  \* number of commands written to the pipe
  done,     \* number of the last command acted upon
  alone,    \* the sender that has the listener to itself and is not yet obeyed
  restarts

kernel  == <<path, pipe, called>>
reader  == <<listener, cmd, running>>
writers == <<sender, what, stale>>
history == <<sent, written, done, alone, restarts>>
vars    == <<kernel, reader, writers, history>>

Words      == {"start", "stop", "status"}
Messages   == [id : Nat \ {0}, by : Senders, word : Words]
ListenerPC == {"unlink", "mkfifo", "open", "sleep", "wait", "read", "close", "act",
               "ended", "down"}
SenderPC   == {"idle", "blocked", "write", "close"}

(* The kernel counts a reader that waits in open, and a writer that waits. *)
HasReader == listener \in {"wait", "read", "close"}
Writers   == {s \in Senders : sender[s] # "idle" /\ ~stale[s]}

(* The pipe is emptied when its last descriptor is closed.                 *)
Left(open) == IF open THEN pipe ELSE <<>>

Init ==
  /\ path \in BOOLEAN
  /\ pipe = <<>> /\ called = FALSE
  /\ listener = "unlink" /\ cmd = <<>> /\ running = FALSE
  /\ sender = [s \in Senders |-> "idle"]
  /\ what = [s \in Senders |-> "status"]
  /\ stale = [s \in Senders |-> FALSE]
  /\ sent = 0 /\ written = 0 /\ done = 0 /\ alone = NoSender /\ restarts = 0
-----------------------------------------------------------------------------
(* command_listener_thread.                                                *)

(* A pipe left from an earlier run is unlinked; whoever has it open, or    *)
(* waits to open it, keeps the old one, which nobody will read.            *)
Unlink ==
  /\ listener = "unlink"
  /\ path' = FALSE
  /\ stale' = [s \in Senders |-> sender[s] # "idle"]
  /\ listener' = "mkfifo"
  /\ UNCHANGED <<pipe, called, cmd, running, sender, what, history>>

(* If mkfifo fails, because the name is there (somebody made it again, or  *)
(* it could not be unlinked) or for another reason, the thread ends for    *)
(* good, and the collector goes on without it.  Nobody reads a pipe that   *)
(* is there then.                                                          *)
MakeFifo ==
  /\ listener = "mkfifo"
  /\ \/ path' = TRUE /\ listener' = "open"
     \/ path' \in BOOLEAN /\ listener' = "ended"
  /\ UNCHANGED <<pipe, called, cmd, running, writers, history>>

(* The open lets every sender go that waits for a reader; without one it   *)
(* waits itself.                                                           *)
OpenToRead ==
  /\ listener = "open"
  /\ listener' = IF Writers = {} THEN "wait" ELSE "read"
  /\ called' = FALSE
  /\ sender' = [s \in Senders |-> IF s \in Writers /\ sender[s] = "blocked"
                                  THEN "write" ELSE sender[s]]
  /\ UNCHANGED <<path, pipe, cmd, running, what, stale, history>>

(* An open that fails is tried again after a sleep.                        *)
OpenFails ==
  /\ listener = "open"
  /\ listener' = "sleep"
  /\ UNCHANGED <<kernel, cmd, running, writers, history>>

TryAgain ==
  /\ listener = "sleep"
  /\ listener' = "open"
  /\ UNCHANGED <<kernel, cmd, running, writers, history>>

SenderCame ==
  /\ listener = "wait" /\ called
  /\ listener' = "read"
  /\ UNCHANGED <<kernel, cmd, running, writers, history>>

(* memset and read.  The read waits for data as long as there is a sender. *)
ClearForgotten == cmd
Cleared == <<>>

EndOfFileAtOnce == TRUE
EndOfFile == Writers = {}

Read ==
  /\ listener = "read"
  /\ \/ pipe # <<>> /\ cmd' = pipe
     \/ pipe = <<>> /\ EndOfFile /\ cmd' = Cleared
  /\ pipe' = <<>>
  /\ listener' = "close"
  /\ UNCHANGED <<path, called, running, writers, history>>

CloseAfterRead ==
  /\ listener = "close"
  /\ listener' = "act"
  /\ pipe' = Left(Writers # {})
  /\ UNCHANGED <<path, called, cmd, running, writers, history>>

(* Only a buffer that holds one command, and nothing else, compares equal  *)
(* to it.  "status" prints.                                                *)
Understood == Len(cmd) = 1

AfterActReturn == "returned"
AfterAct == "open"

Act ==
  /\ listener = "act"
  /\ \/ /\ Understood
        /\ done' = cmd[1].id
        /\ alone' = IF cmd[1].by = alone THEN NoSender ELSE alone
        /\ running' = CASE cmd[1].word = "start"  -> TRUE
                        [] cmd[1].word = "stop"   -> FALSE
                        [] cmd[1].word = "status" -> running
     \/ /\ ~Understood
        /\ UNCHANGED <<done, alone, running>>
  /\ listener' = AfterAct
  /\ UNCHANGED <<kernel, cmd, writers, sent, written, restarts>>

ListenerStep ==
  \/ Unlink \/ MakeFifo \/ OpenToRead \/ OpenFails \/ TryAgain \/ SenderCame
  \/ Read \/ CloseAfterRead \/ Act
-----------------------------------------------------------------------------
(* gnss_control.                                                           *)

(* A careful user runs it only when nobody else does and when the last     *)
(* command that was written has been carried out.                          *)
MaySend(s) ==
  /\ sender[s] = "idle"
  /\ sent < MaxCommands
  /\ Careful => (\A t \in Senders : sender[t] = "idle") /\ done = written

(* Without a pipe the open fails, and the program says so and ends.        *)
OpenToWrite(s) ==
  /\ MaySend(s)
  /\ path
  /\ sent' = sent + 1
  /\ \E w \in Words : what' = [what EXCEPT ![s] = w]
  /\ sender' = [sender EXCEPT ![s] = IF HasReader THEN "write" ELSE "blocked"]
  /\ stale' = [stale EXCEPT ![s] = FALSE]
  /\ called' = TRUE
  /\ alone' = IF listener = "wait" /\ ~called THEN s ELSE NoSender
  /\ UNCHANGED <<path, pipe, reader, written, done, restarts>>

(* Without a reader the write ends the sender with SIGPIPE.                *)
Write(s) ==
  /\ sender[s] = "write"
  /\ \/ /\ HasReader /\ ~stale[s]
        /\ pipe' = Append(pipe, [id |-> written + 1, by |-> s, word |-> what[s]])
        /\ written' = written + 1
        /\ sender' = [sender EXCEPT ![s] = "close"]
     \/ /\ ~(HasReader /\ ~stale[s])
        /\ pipe' = Left(stale[s] \/ Writers # {s})
        /\ sender' = [sender EXCEPT ![s] = "idle"]
        /\ UNCHANGED written
  /\ UNCHANGED <<path, called, reader, what, stale, sent, done, alone, restarts>>

CloseAfterWrite(s) ==
  /\ sender[s] = "close"
  /\ sender' = [sender EXCEPT ![s] = "idle"]
  /\ pipe' = Left(stale[s] \/ HasReader \/ Writers # {s})
  /\ UNCHANGED <<path, called, reader, what, stale, history>>

SenderStep(s) == Write(s) \/ CloseAfterWrite(s)
-----------------------------------------------------------------------------
(* The collector ends at any time, with its descriptors closed and the     *)
(* pipe's name left behind, and is started again, stopped as at first.     *)
Crash ==
  /\ listener # "down" /\ restarts < MaxRestarts
  /\ listener' = "down"
  /\ pipe' = Left(Writers # {})
  /\ alone' = NoSender
  /\ UNCHANGED <<path, called, cmd, running, writers, sent, written, done, restarts>>

Restart ==
  /\ listener = "down"
  /\ listener' = "unlink" /\ cmd' = <<>> /\ running' = FALSE
  /\ pipe' = <<>> /\ called' = FALSE
  /\ restarts' = restarts + 1
  /\ UNCHANGED <<path, writers, sent, written, done, alone>>

Next ==
  \/ ListenerStep
  \/ \E s \in Senders : OpenToWrite(s) \/ SenderStep(s)
  \/ Crash \/ Restart

Spec == Init /\ [][Next]_vars

(* The listener is scheduled, its open does not fail for ever, and a       *)
(* sender that is past its open goes on.                                   *)
FairSpec ==
  /\ Spec
  /\ WF_vars(ListenerStep) /\ SF_vars(OpenToRead)
  /\ \A s \in Senders : WF_vars(SenderStep(s))
-----------------------------------------------------------------------------
(* Types of all variables.                                                 *)
TypeOK ==
  /\ path \in BOOLEAN /\ called \in BOOLEAN /\ running \in BOOLEAN
  /\ pipe \in Seq(Messages) /\ cmd \in Seq(Messages)
  /\ listener \in ListenerPC
  /\ sender \in [Senders -> SenderPC]
  /\ what \in [Senders -> Words]
  /\ stale \in [Senders -> BOOLEAN]
  /\ sent \in Nat /\ written \in Nat /\ done \in Nat /\ restarts \in Nat
  /\ alone \in Senders \cup {NoSender}

(* The collector carries out commands in the order in which they were      *)
(* written, and none of them twice: neither the descriptor that a slow     *)
(* sender still holds when the listener opens the pipe again, nor an empty *)
(* read, brings back a command that was carried out.                       *)
EachCommandOnce ==
  listener \in {"close", "act"} =>
    \A i \in 1 .. Len(cmd) :
      /\ cmd[i].id > done
      /\ i > 1 => cmd[i].id > cmd[i - 1].id

(* A command is read back as it was sent only if no other is in the buffer *)
(* with it.  A sender that finds the listener waiting in open, and is the  *)
(* only one to open the pipe from then on, is obeyed.                      *)
LoneCommandObeyed == \A s \in Senders : alone = s ~> alone # s

(* Is there a listener for the pipe the sender has opened, or will be one? *)
(* A sender that opened a pipe which a collector started later replaces,   *)
(* or which a collector without a listener leaves unread, waits for ever.  *)
Served(s) == ~stale[s] /\ listener \notin {"ended", "down"}

(* gnss_control does not hang while the listener of its pipe is at work:   *)
(* however the opens and closes of all the senders fall, it gets through   *)
(* open, write and close, or its pipe or its listener is lost.             *)
SenderReturns ==
  \A s \in Senders : sender[s] # "idle" ~> sender[s] = "idle" \/ ~Served(s)

(* What gnss_control reports when it has written: "Command '%s' sent to    *)
(* GNSS collector".  What was written leaves the pipe only by being read.  *)
SentIsReceived == [][pipe # <<>> /\ pipe' = <<>> => cmd' = pipe]_vars
=============================================================================
