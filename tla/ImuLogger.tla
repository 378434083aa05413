----------------------------- MODULE ImuLogger -----------------------------
(***************************************************************************)
(* The imu_logger process (IMU/src): the sensor thread fills a ring of     *)
(* BUFFER_SIZE samples, the logging thread empties it into a CSV file and  *)
(* a System V message queue, the command listener turns recording on and   *)
(* off, and SIGTERM or SIGINT runs handle_signal on the main thread while  *)
(* the other threads keep running.                                         *)
(*                                                                         *)
(* A sample is represented by its number, counted from 1 in the order of   *)
(* the sensor readings; 0 is the content of the zero-initialised ring.     *)
(* raw[] is written and never read, so only filtered[] is kept.            *)
(***************************************************************************)
EXTENDS Integers, Sequences

CONSTANTS
  BUFFER_SIZE,   \* slots of the ring                     (1024 in the code)
  EMPTY_LIMIT,   \* empty polls between two dummy rows    (1000 in the code)
  MSG_CAPACITY,  \* messages the kernel queue can hold
  QueueReader,   \* does some process receive the messages?
  Signalled,     \* may SIGTERM or SIGINT arrive?
  MaxSamples     \* bound of the model: readings the sensor delivers

ASSUME SizeAssumption ==
  /\ BUFFER_SIZE \in Nat \ {0}
  /\ EMPTY_LIMIT \in Nat \ {0}
  /\ MSG_CAPACITY \in Nat \ {0}

ASSUME EnvironmentAssumption ==
  /\ QueueReader \in BOOLEAN /\ Signalled \in BOOLEAN
  /\ MaxSamples \in Nat

VARIABLES
  filtered, head, count,  \* g_buffer
  mutex,                  \* g_buffer.mutex: "free", its holder, "destroyed"
  g_imu_recording,        \* the volatile flag the listener sets
  csv_file,               \* the open CSV file, by kind, or "NULL"
  expired,                \* would (t - file_start_time) >= 86400 hold now?
  msgq,                   \* messages in the kernel queue
  g_msqid,                \* "live", "none" (never created), "removed"
  spc, raw, cnt,          \* sensor thread: step, sample, register of count++
  lpc, data, empties,     \* logging thread: step, sample, empty_data_count
  handler, process        \* progress of handle_signal; the process

ringVars    == <<filtered, head, count>>
csvVars     == <<csv_file, expired>>
queueVars   == <<msgq, g_msqid>>
sensorVars  == <<spc, raw, cnt>>
loggerVars  == <<lpc, data, empties>>
controlVars == <<handler, process>>

(* History of the run, read by the properties only.                        *)
VARIABLES
  rows,           \* samples written to CSV files, in the order written
  startMark,      \* samples taken when recording was last switched on
  staleRows,      \* rows since then of samples taken before it
  rowsAfterStop,  \* rows written while the flag is 0, since the last stop
  dummyMark       \* samples taken when the last dummy row was written

historyVars == <<rows, startMark, staleRows, rowsAfterStop, dummyMark>>
flagHistory == <<startMark, staleRows, rowsAfterStop>>

vars == <<ringVars, mutex, g_imu_recording, csvVars, queueVars, sensorVars,
          loggerVars, controlVars, historyVars>>
-----------------------------------------------------------------------------
Slots     == 0 .. BUFFER_SIZE - 1
SensorPC  == {"mpu", "ak", "lock", "slot", "inc", "unlock"}
LoggerPC  == {"init", "lock", "peek", "open", "age", "print", "send", "pop",
              "dummy", "unlock"}
Files     == {"NULL", "dated", "emergency"}

Running == process = "running"

(* Slot that follows the live window, and slot after the head.             *)
TailIndex == (head + count) % BUFFER_SIZE

NextHeadStuck == head
NextHead == (head + 1) % BUFFER_SIZE

HasRoomOneTooMany == count <= BUFFER_SIZE
HasRoom == count < BUFFER_SIZE

HasDataOneTooFew == count > 1
HasData == count > 0

(* The result of pthread_mutex_lock is not looked at: once handle_signal   *)
(* has destroyed the mutex the call fails and the thread just goes on.     *)
LockWithoutWaiting(thread) == mutex' = thread
Lock(thread) ==
  \/ mutex = "free" /\ mutex' = thread
  \/ mutex = "destroyed" /\ UNCHANGED mutex

UnlockForgotten(thread) == UNCHANGED mutex
Unlock(thread) ==
  \/ mutex = thread /\ mutex' = "free"
  \/ mutex = "destroyed" /\ UNCHANGED mutex
-----------------------------------------------------------------------------
(* main() has created the queue (or failed to) and the two threads; the    *)
(* logging thread has not run yet.  file_start_time is 0, so the file age  *)
(* is over a day unless the board's clock is still near the epoch.         *)
Init ==
  /\ filtered = [i \in Slots |-> 0]
  /\ head = 0 /\ count = 0
  /\ mutex = "free"
  /\ g_imu_recording = FALSE
  /\ csv_file = "NULL"
  /\ expired \in BOOLEAN
  /\ msgq = << >>
  /\ g_msqid \in {"live", "none"}
  /\ spc = "mpu" /\ raw = 0 /\ cnt = 0
  /\ lpc = "init" /\ data = 0 /\ empties = 0
  /\ handler = "idle" /\ process = "running"
  /\ rows = << >>
  /\ startMark = 0 /\ staleRows = 0 /\ rowsAfterStop = 0 /\ dummyMark = 0
-----------------------------------------------------------------------------
(* Sensor thread.                                                          *)

(* A failed read of the MPU6500 only counts, sleeps and tries again, so it *)
(* is a stuttering step; a successful one yields the next sample.          *)
ReadMpu ==
  /\ Running /\ spc = "mpu"
  /\ raw < MaxSamples
  /\ raw' = raw + 1
  /\ spc' = "ak"
  /\ UNCHANGED <<ringVars, mutex, g_imu_recording, csvVars, queueVars, cnt,
                 loggerVars, controlVars, historyVars>>

(* The magnetometer completes the sample, or fails and the sample is gone. *)
ReadAk ==
  /\ Running /\ spc = "ak"
  /\ spc' \in {"lock", "mpu"}
  /\ UNCHANGED <<ringVars, mutex, g_imu_recording, csvVars, queueVars, raw, cnt,
                 loggerVars, controlVars, historyVars>>

SensorLock ==
  /\ Running /\ spc = "lock"
  /\ Lock("sensor")
  /\ spc' = "slot"
  /\ UNCHANGED <<ringVars, g_imu_recording, csvVars, queueVars, raw, cnt,
                 loggerVars, controlVars, historyVars>>

(* Fills the slot behind the window and loads count for count++.           *)
StoreSample ==
  /\ Running /\ spc = "slot"
  /\ HasRoom
  /\ filtered' = [filtered EXCEPT ![TailIndex] = raw]
  /\ cnt' = count
  /\ spc' = "inc"
  /\ UNCHANGED <<head, count, mutex, g_imu_recording, csvVars, queueVars, raw,
                 loggerVars, controlVars, historyVars>>

DropSample ==
  /\ Running /\ spc = "slot"
  /\ ~HasRoom
  /\ spc' = "unlock"
  /\ UNCHANGED <<ringVars, mutex, g_imu_recording, csvVars, queueVars, raw, cnt,
                 loggerVars, controlVars, historyVars>>

CountSample ==
  /\ Running /\ spc = "inc"
  /\ count' = cnt + 1
  /\ spc' = "unlock"
  /\ UNCHANGED <<filtered, head, mutex, g_imu_recording, csvVars, queueVars, raw,
                 cnt, loggerVars, controlVars, historyVars>>

SensorUnlock ==
  /\ Running /\ spc = "unlock"
  /\ Unlock("sensor")
  /\ spc' = "mpu"
  /\ UNCHANGED <<ringVars, g_imu_recording, csvVars, queueVars, raw, cnt,
                 loggerVars, controlVars, historyVars>>
-----------------------------------------------------------------------------
(* Logging thread.                                                         *)

(* create_csv_file: an open file is closed, then a file named after the    *)
(* time is tried on the SD card and in /tmp.  file_start_time is set only  *)
(* when one of them can be opened.                                         *)
CreateCsv ==
  \/ /\ csv_file' = "dated"
     /\ expired' = FALSE
  \/ /\ csv_file' = "NULL"
     /\ UNCHANGED expired

(* The file made at startup.  When create_csv_file has failed, the         *)
(* emergency file is opened without setting file_start_time.               *)
InitLogger ==
  /\ Running /\ lpc = "init"
  /\ \/ CreateCsv
     \/ csv_file' = "emergency" /\ UNCHANGED expired
  /\ lpc' = "lock"
  /\ UNCHANGED <<ringVars, mutex, g_imu_recording, queueVars, sensorVars, data,
                 empties, controlVars, historyVars>>

LoggerLock ==
  /\ Running /\ lpc = "lock"
  /\ Lock("logger")
  /\ lpc' = "peek"
  /\ UNCHANGED <<ringVars, g_imu_recording, csvVars, queueVars, sensorVars, data,
                 empties, controlVars, historyVars>>

(* Where the logging thread goes with a sample: recorded only if the flag  *)
(* is set when the sample is looked at.                                    *)
AfterPeekUnconditional == "open"
AfterPeek == IF g_imu_recording THEN "open" ELSE "pop"

(* Copies the oldest sample and tests the recording flag.                  *)
PeekSample ==
  /\ Running /\ lpc = "peek"
  /\ HasData
  /\ data' = filtered[head]
  /\ empties' = 0
  /\ lpc' = AfterPeek
  /\ UNCHANGED <<ringVars, mutex, g_imu_recording, csvVars, queueVars, sensorVars,
                 controlVars, historyVars>>

(* Nothing to log: every EMPTY_LIMIT-th such poll goes on to a dummy row   *)
(* if recording is on and a file is open.                                  *)
PollEmpty ==
  /\ Running /\ lpc = "peek"
  /\ ~HasData
  /\ empties' = (empties + 1) % EMPTY_LIMIT
  /\ lpc' = IF empties' = 0 /\ g_imu_recording /\ csv_file # "NULL"
              THEN "dummy" ELSE "unlock"
  /\ UNCHANGED <<ringVars, mutex, g_imu_recording, csvVars, queueVars, sensorVars,
                 data, controlVars, historyVars>>

(* A dummy row: zero angles and the current time.                          *)
PrintDummyRow ==
  /\ Running /\ lpc = "dummy"
  /\ csv_file # "NULL"
  /\ dummyMark' = raw
  /\ lpc' = "unlock"
  /\ UNCHANGED <<ringVars, mutex, g_imu_recording, csvVars, queueVars, sensorVars,
                 data, empties, controlVars, rows, flagHistory>>

(* The "if (!csv_file) return;" that follows a create_csv_file.            *)
OrGiveUpUnchecked(step) == step
OrGiveUp(step) == IF csv_file' = "NULL" THEN "send" ELSE step

(* write_to_csv, first test: without a file one is created; if that fails  *)
(* the row is lost and only the message is sent.                           *)
EnsureFile ==
  /\ Running /\ lpc = "open"
  /\ \/ csv_file # "NULL" /\ UNCHANGED csvVars
     \/ csv_file = "NULL" /\ CreateCsv
  /\ lpc' = OrGiveUp("age")
  /\ UNCHANGED <<ringVars, mutex, g_imu_recording, queueVars, sensorVars, data,
                 empties, controlVars, historyVars>>

(* write_to_csv, second test: a file older than a day is replaced.         *)
RollFile ==
  /\ Running /\ lpc = "age"
  /\ \/ /\ ~expired
        /\ UNCHANGED csvVars
        /\ lpc' = "print"
     \/ /\ expired
        /\ CreateCsv
        /\ lpc' = OrGiveUp("print")
  /\ UNCHANGED <<ringVars, mutex, g_imu_recording, queueVars, sensorVars, data,
                 empties, controlVars, historyVars>>

(* The fprintf of a sample.                                                *)
PrintRow ==
  /\ Running /\ lpc = "print"
  /\ csv_file # "NULL"
  /\ rows' = Append(rows, data)
  /\ staleRows' = staleRows + (IF data <= startMark THEN 1 ELSE 0)
  /\ rowsAfterStop' = rowsAfterStop + (IF g_imu_recording THEN 0 ELSE 1)
  /\ lpc' = "send"
  /\ UNCHANGED <<ringVars, mutex, g_imu_recording, csvVars, queueVars, sensorVars,
                 data, empties, controlVars, startMark, dummyMark>>

(* handle_signal closes the file without the mutex.  A row printed to, or  *)
(* a file rolled over from, a stream that is closed and not yet NULL is    *)
(* undefined: the process crashes or the row is lost (or, PrintRow, it is  *)
(* still written).  Printing to the NULL stream crashes.                   *)
CrashOnClosedFile ==
  /\ Running
  /\ \/ lpc \in {"print", "dummy"} /\ csv_file = "NULL"
     \/ lpc \in {"print", "dummy"} /\ handler = "closing"
     \/ lpc = "age" /\ expired /\ handler = "closing"
  /\ process' = "crashed"
  /\ UNCHANGED <<ringVars, mutex, g_imu_recording, csvVars, queueVars, sensorVars,
                 loggerVars, handler, historyVars>>

LoseRow ==
  /\ Running /\ handler = "closing"
  /\ \/ lpc = "print" /\ lpc' = "send"
     \/ lpc = "dummy" /\ lpc' = "unlock"
  /\ UNCHANGED <<ringVars, mutex, g_imu_recording, csvVars, queueVars, sensorVars,
                 data, empties, controlVars, historyVars>>

(* msgsnd with flags 0: it waits while the queue is full, and fails, which *)
(* is only reported, when there is no queue or it is removed meanwhile.    *)
SendMessage ==
  /\ Running /\ lpc = "send"
  /\ \/ /\ g_msqid = "live"
        /\ Len(msgq) < MSG_CAPACITY
        /\ msgq' = Append(msgq, data)
     \/ /\ g_msqid # "live"
        /\ UNCHANGED msgq
  /\ lpc' = "pop"
  /\ UNCHANGED <<ringVars, mutex, g_imu_recording, csvVars, g_msqid, sensorVars,
                 data, empties, controlVars, historyVars>>

PopSample ==
  /\ Running /\ lpc = "pop"
  /\ head' = NextHead
  /\ count' = count - 1
  /\ lpc' = "unlock"
  /\ UNCHANGED <<filtered, mutex, g_imu_recording, csvVars, queueVars, sensorVars,
                 data, empties, controlVars, historyVars>>

LoggerUnlock ==
  /\ Running /\ lpc = "unlock"
  /\ Unlock("logger")
  /\ lpc' = "lock"
  /\ UNCHANGED <<ringVars, g_imu_recording, csvVars, queueVars, sensorVars, data,
                 empties, controlVars, historyVars>>
-----------------------------------------------------------------------------
(* Command listener: what "start" and "stop" do.  How a command reaches    *)
(* the listener through the FIFO is the subject of CommandFifo.            *)
StartCommand ==
  /\ Running
  /\ g_imu_recording' = TRUE
  /\ startMark' = IF g_imu_recording THEN startMark ELSE raw
  /\ staleRows' = IF g_imu_recording THEN staleRows ELSE 0
  /\ UNCHANGED <<ringVars, mutex, csvVars, queueVars, sensorVars, loggerVars,
                 controlVars, rows, rowsAfterStop, dummyMark>>

StopCommand ==
  /\ Running
  /\ g_imu_recording' = FALSE
  /\ rowsAfterStop' = IF g_imu_recording THEN 0 ELSE rowsAfterStop
  /\ UNCHANGED <<ringVars, mutex, csvVars, queueVars, sensorVars, loggerVars,
                 controlVars, rows, startMark, staleRows, dummyMark>>
-----------------------------------------------------------------------------
(* handle_signal, statement by statement: close_csv_file with its fclose   *)
(* and its reset of csv_file, msgctl(IPC_RMID), pthread_mutex_destroy,     *)
(* exit(0).  The other threads run on until exit ends the process.         *)
SignalFclose ==
  /\ Signalled /\ Running /\ handler = "idle"
  /\ handler' = IF csv_file = "NULL" THEN "closed" ELSE "closing"
  /\ UNCHANGED <<ringVars, mutex, g_imu_recording, csvVars, queueVars, sensorVars,
                 loggerVars, process, historyVars>>

SignalForgetFile ==
  /\ Running /\ handler = "closing"
  /\ csv_file' = "NULL"
  /\ handler' = "closed"
  /\ UNCHANGED <<ringVars, mutex, g_imu_recording, expired, queueVars, sensorVars,
                 loggerVars, process, historyVars>>

SignalRemoveQueue ==
  /\ Running /\ handler = "closed"
  /\ IF g_msqid = "live"
       THEN g_msqid' = "removed" /\ msgq' = << >>
       ELSE UNCHANGED queueVars
  /\ handler' = "removed"
  /\ UNCHANGED <<ringVars, mutex, g_imu_recording, csvVars, sensorVars, loggerVars,
                 process, historyVars>>

(* The C library refuses to destroy a mutex that is held.                  *)
SignalDestroyMutex ==
  /\ Running /\ handler = "removed"
  /\ mutex' = IF mutex = "free" THEN "destroyed" ELSE mutex
  /\ handler' = "destroyed"
  /\ UNCHANGED <<ringVars, g_imu_recording, csvVars, queueVars, sensorVars,
                 loggerVars, process, historyVars>>

SignalExit ==
  /\ Running /\ handler = "destroyed"
  /\ process' = "exited"
  /\ UNCHANGED <<ringVars, mutex, g_imu_recording, csvVars, queueVars, sensorVars,
                 loggerVars, handler, historyVars>>
-----------------------------------------------------------------------------
(* The environment: a day passes; another process receives a message.      *)
DayPasses ==
  /\ Running /\ ~expired
  /\ expired' = TRUE
  /\ UNCHANGED <<ringVars, mutex, g_imu_recording, csv_file, queueVars, sensorVars,
                 loggerVars, controlVars, historyVars>>

ReceiveMessage ==
  /\ QueueReader
  /\ msgq # << >>
  /\ msgq' = Tail(msgq)
  /\ UNCHANGED <<ringVars, mutex, g_imu_recording, csvVars, g_msqid, sensorVars,
                 loggerVars, controlVars, historyVars>>
-----------------------------------------------------------------------------
SensorStep ==
  ReadMpu \/ ReadAk \/ SensorLock \/ StoreSample \/ DropSample \/ CountSample
    \/ SensorUnlock

LoggerStep ==
  InitLogger \/ LoggerLock \/ PeekSample \/ PollEmpty \/ PrintDummyRow
    \/ EnsureFile \/ RollFile \/ PrintRow \/ CrashOnClosedFile \/ LoseRow
    \/ SendMessage \/ PopSample \/ LoggerUnlock

ListenerStep == StartCommand \/ StopCommand

SignalStep ==
  SignalFclose \/ SignalForgetFile \/ SignalRemoveQueue \/ SignalDestroyMutex
    \/ SignalExit

Next ==
  SensorStep \/ LoggerStep \/ ListenerStep \/ SignalStep \/ DayPasses
    \/ ReceiveMessage

Spec == Init /\ [][Next]_vars

(* Threads that can run are scheduled.  A thread that waits for the mutex  *)
(* gets it if it is free again and again: both threads sleep outside the   *)
(* critical section (usleep(5000) and usleep(10000)).  Commands, signals,  *)
(* sensor readings and the passing of days are not forced.  A started      *)
(* handler and the receiver of the messages, if there is one, go on.       *)
Fairness ==
  /\ WF_vars(SensorStep /\ spc # "mpu") /\ SF_vars(SensorLock)
  /\ WF_vars(LoggerStep) /\ SF_vars(LoggerLock)
  /\ WF_vars(SignalStep /\ handler # "idle")
  /\ WF_vars(ReceiveMessage)

FairSpec == Spec /\ Fairness
-----------------------------------------------------------------------------
(* Types of all variables.                                                 *)
TypeOK ==
  /\ filtered \in [Slots -> Nat]
  /\ head \in Slots
  /\ count \in 0 .. BUFFER_SIZE
  /\ mutex \in {"free", "sensor", "logger", "destroyed"}
  /\ g_imu_recording \in BOOLEAN
  /\ csv_file \in Files
  /\ expired \in BOOLEAN
  /\ msgq \in Seq(Nat)
  /\ g_msqid \in {"live", "none", "removed"}
  /\ spc \in SensorPC /\ raw \in Nat /\ cnt \in 0 .. BUFFER_SIZE
  /\ lpc \in LoggerPC /\ data \in Nat /\ empties \in Nat
  /\ handler \in {"idle", "closing", "closed", "removed", "destroyed"}
  /\ process \in {"running", "exited", "crashed"}
  /\ rows \in Seq(Nat)
  /\ startMark \in Nat /\ staleRows \in Nat /\ rowsAfterStop \in Nat
  /\ dummyMark \in Nat

(* Between pthread_mutex_destroy and the end of exit(0) the two threads    *)
(* share the ring without exclusion; nothing is promised there.            *)
MutexAlive == mutex # "destroyed"

(* No sample is written twice and none overtakes another, whatever the     *)
(* interleaving of sensor_read_thread and logging_thread, the wrapping of  *)
(* head and tail, the dropped samples and the changes of file.             *)
RowsOrdered == \A i, j \in DOMAIN rows : i < j => rows[i] < rows[j]
RowsInOrder == MutexAlive => RowsOrdered

(* The logging thread also drains the ring while recording is off, but at  *)
(* half the sensor's rate, so a recording begins with old samples: at most *)
(* a full ring of them and the one the sensor thread has in hand.          *)
StaleRowsBounded == MutexAlive => staleRows <= BUFFER_SIZE + 1

(* The flag is tested before write_to_csv runs, so a "stop" may come too   *)
(* late for the sample being written, and only for that one.               *)
AtMostOneRowAfterStop == rowsAfterStop <= 1

(* A dummy row bears the current time.  It is written under the mutex with *)
(* an empty ring, so the only older sample that can still follow it is the *)
(* one sensor_read_thread had read and not yet stored.                     *)
DummyRowsInOrder == [][rows' # rows /\ MutexAlive => data >= dummyMark]_vars

(* Writing through a NULL or closed csv_file can only happen when          *)
(* handle_signal has closed the file under the logging thread's feet,      *)
(* never because create_csv_file failed.                                   *)
CrashOnlyInShutdown == process = "crashed" => handler # "idle"

(* The ring under its mutex implements the bounded queue of SampleQueue,   *)
(* until handle_signal destroys the mutex.                                 *)
Window == [i \in 1 .. count |-> filtered[(head + i - 1) % BUFFER_SIZE]]

Abstract == INSTANCE SampleQueue
  WITH Capacity <- BUFFER_SIZE,
       queue    <- Window,
       newest   <- raw,
       pending  <- spc \in {"ak", "lock", "slot", "inc"}

ImplementsSampleQueue ==
  Abstract!Init /\ [][Abstract!Next \/ ~MutexAlive]_(Abstract!vars)

(* The sensor thread, once it has a sample, is not kept waiting forever    *)
(* for the mutex, which the logging thread holds during msgsnd.            *)
SensorNotStarved == spc = "lock" ~> (spc # "lock" \/ ~Running)

(* Every sample in the ring is eventually taken out by the logging thread. *)
SamplesReleased ==
  \A s \in 1 .. MaxSamples :
    (\E i \in DOMAIN Window : Window[i] = s)
      ~> (~Running \/ \A i \in DOMAIN Window : Window[i] # s)

(* While the emergency file of logging_thread is open, a row is never      *)
(* given up for want of a file.                                            *)
EmergencyFileTakesRows ==
  [][~(csv_file = "emergency" /\ lpc = "age" /\ lpc' = "send")]_vars
=============================================================================
