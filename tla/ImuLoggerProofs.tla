-------------------------- MODULE ImuLoggerProofs --------------------------
(***************************************************************************)
(* Theorems about ImuLogger for every size of the ring and of the queue.   *)
(* The inductive invariants come first, then the facts about the ring's    *)
(* index arithmetic, then the invariance proofs.                           *)
(***************************************************************************)
EXTENDS ImuLogger, SequenceTheorems, TLAPS

(* Steps of a thread inside the critical section.                          *)
SensorInside == spc \in {"slot", "inc", "unlock"}
LoggerInside == lpc \notin {"init", "lock"}

(* The sensor thread has a sample that is neither stored nor given up.     *)
Holding == spc \in {"ak", "lock", "slot", "inc"}

(* The i-th sample of the live window, from 0.                             *)
At(i) == filtered[(head + i) % BUFFER_SIZE]
Live  == 0 .. count - 1

(* Whoever is past its test of count still has room, or a sample.          *)
CountInv ==
  /\ spc = "inc" => cnt < BUFFER_SIZE
  /\ lpc \in {"open", "age", "print", "send", "pop"} => count > 0

MutexInv ==
  MutexAlive => /\ SensorInside <=> mutex = "sensor"
                /\ LoggerInside <=> mutex = "logger"

(* What the critical sections have read is still what the ring holds.      *)
DataInv ==
  MutexAlive =>
    /\ spc = "inc" => cnt = count /\ filtered[TailIndex] = raw
    /\ lpc \in {"open", "age", "print"} => data = At(0)

(* The rows, the window and the sample in hand are increasing in a row.    *)
WindowBelowRaw == \A i \in Live : At(i) <= raw /\ (Holding => At(i) < raw)
WindowOrdered  == \A i, j \in Live : i < j => At(i) < At(j)
RowsBelowRaw   == \A k \in DOMAIN rows : rows[k] <= raw /\ (Holding => rows[k] < raw)

(* The oldest sample may be a row already, until it is popped.             *)
RowsBeforeWindow ==
  \A k \in DOMAIN rows, i \in Live :
    (i > 0 \/ lpc \notin {"send", "pop"}) => rows[k] < At(i)

OrderParts ==
  WindowBelowRaw /\ WindowOrdered /\ RowsBelowRaw /\ RowsBeforeWindow /\ RowsOrdered

OrderInv == MutexAlive => OrderParts

(* Whatever can still be written is at least as new as the last dummy row. *)
DummyInv ==
  MutexAlive =>
    /\ lpc = "dummy" => count = 0
    /\ dummyMark <= raw
    /\ \A i \in Live : dummyMark <= At(i)

(* The old samples that can still be written fit into what is left of the  *)
(* bound: the oldest i + 1 of the window, less the one that is a row or    *)
(* given up already, and the one in the sensor thread's hands.             *)
InHand  == IF Holding /\ raw <= startMark THEN 1 ELSE 0
Printed == IF lpc \in {"send", "pop"} THEN 1 ELSE 0

StaleInv ==
  MutexAlive =>
    /\ startMark <= raw
    /\ staleRows + InHand <= BUFFER_SIZE + 1
    /\ \A i \in Live : At(i) <= startMark =>
         staleRows + InHand + (i + 1) - Printed <= BUFFER_SIZE + 1

(* The file is there until a row is printed, unless a signal was taken.    *)
FileInv ==
  /\ handler = "idle" /\ lpc \in {"age", "print", "dummy"} => csv_file # "NULL"
  /\ CrashOnlyInShutdown

(* A row on its way while the flag is 0 is the first since the stop.       *)
StopInv ==
  /\ AtMostOneRowAfterStop
  /\ ~g_imu_recording /\ lpc \in {"open", "age", "print"} => rowsAfterStop = 0
-----------------------------------------------------------------------------
(* Adding less than a full turn to an index of the ring.                   *)
LEMMA Wrap ==
  ASSUME NEW a \in Slots, NEW b \in 0 .. BUFFER_SIZE
  PROVE  /\ (a + b) % BUFFER_SIZE
              = IF a + b < BUFFER_SIZE THEN a + b ELSE a + b - BUFFER_SIZE
         /\ (a + b) % BUFFER_SIZE \in Slots
<1>1. CASE a + b < BUFFER_SIZE
  BY <1>1, SizeAssumption DEF Slots
<1>2. CASE ~(a + b < BUFFER_SIZE)
  <2>1. a + b - BUFFER_SIZE \in Slots
    BY <1>2, SizeAssumption DEF Slots
  <2>2. ((a + b - BUFFER_SIZE) + BUFFER_SIZE) % BUFFER_SIZE
          = (a + b - BUFFER_SIZE) % BUFFER_SIZE
    BY <2>1, SizeAssumption DEF Slots
  <2> QED
    BY <1>2, <2>1, <2>2, SizeAssumption DEF Slots
<1> QED
  BY <1>1, <1>2

(* The variables of the model, without their abbreviations.                *)
USE DEF vars, ringVars, csvVars, queueVars, sensorVars, loggerVars, controlVars,
        historyVars, flagHistory

(* Types are kept, whoever holds the mutex and even when nobody can.       *)
LEMMA Typing == Spec => [](TypeOK /\ CountInv)
<1>1. Init => TypeOK /\ CountInv
  <2> SUFFICES ASSUME Init
               PROVE  TypeOK /\ CountInv
    OBVIOUS
  <2>1. filtered \in [Slots -> Nat] /\ head \in Slots /\ count \in 0 .. BUFFER_SIZE
    BY SizeAssumption DEF Init, Slots
  <2> QED
    BY <2>1, SizeAssumption DEF Init, TypeOK, CountInv, Files, SensorPC, LoggerPC
<1>2. TypeOK /\ CountInv /\ [Next]_vars => (TypeOK /\ CountInv)'
  <2> SUFFICES ASSUME TypeOK, CountInv, [Next]_vars
               PROVE  (TypeOK /\ CountInv)'
    OBVIOUS
  <2> USE SizeAssumption DEF TypeOK, CountInv, Slots, Files, SensorPC, LoggerPC
  <2>1. CASE ReadMpu
    BY <2>1 DEF ReadMpu
  <2>2. CASE ReadAk
    BY <2>2 DEF ReadAk
  <2>3. CASE SensorLock
    BY <2>3 DEF SensorLock, Lock
  <2>4. CASE StoreSample
    BY <2>4 DEF StoreSample, HasRoom, TailIndex
  <2>5. CASE DropSample
    BY <2>5 DEF DropSample, HasRoom
  <2>6. CASE CountSample
    BY <2>6 DEF CountSample
  <2>7. CASE SensorUnlock
    BY <2>7 DEF SensorUnlock, Unlock
  <2>8. CASE InitLogger
    <3>1. csv_file' \in Files /\ expired' \in BOOLEAN /\ lpc' = "lock"
      BY <2>8 DEF InitLogger, CreateCsv
    <3> QED
      BY <3>1, <2>8 DEF InitLogger
  <2>9. CASE LoggerLock
    BY <2>9 DEF LoggerLock, Lock
  <2>10. CASE PeekSample
    BY <2>10 DEF PeekSample, HasData, AfterPeek
  <2>11. CASE PollEmpty
    BY <2>11 DEF PollEmpty, HasData
  <2>12. CASE PrintDummyRow
    BY <2>12 DEF PrintDummyRow
  <2>13. CASE EnsureFile
    <3>1. csv_file' \in Files /\ expired' \in BOOLEAN /\ lpc' \in LoggerPC
      BY <2>13 DEF EnsureFile, CreateCsv, OrGiveUp
    <3> QED
      BY <3>1, <2>13 DEF EnsureFile, OrGiveUp
  <2>14. CASE RollFile
    <3>1. csv_file' \in Files /\ expired' \in BOOLEAN /\ lpc' \in LoggerPC
      BY <2>14 DEF RollFile, CreateCsv, OrGiveUp
    <3> QED
      BY <3>1, <2>14 DEF RollFile, OrGiveUp
  <2>15. CASE PrintRow
    BY <2>15 DEF PrintRow
  <2>16. CASE CrashOnClosedFile
    BY <2>16 DEF CrashOnClosedFile
  <2>17. CASE LoseRow
    BY <2>17 DEF LoseRow
  <2>18. CASE SendMessage
    <3>1. msgq' \in Seq(Nat)
      <4>1. CASE msgq' = Append(msgq, data)
        BY <4>1
      <4>2. CASE msgq' = msgq
        BY <4>2
      <4> QED
        BY <4>1, <4>2, <2>18 DEF SendMessage
    <3> QED
      BY <3>1, <2>18 DEF SendMessage
  <2>19. CASE PopSample
    BY <2>19 DEF PopSample, NextHead
  <2>20. CASE LoggerUnlock
    BY <2>20 DEF LoggerUnlock, Unlock
  <2>21. CASE StartCommand
    BY <2>21 DEF StartCommand
  <2>22. CASE StopCommand
    <3>1. rowsAfterStop' \in Nat /\ g_imu_recording' \in BOOLEAN
      BY <2>22 DEF StopCommand
    <3> QED
      BY <3>1, <2>22 DEF StopCommand
  <2>23. CASE SignalFclose
    BY <2>23 DEF SignalFclose
  <2>24. CASE SignalForgetFile
    BY <2>24 DEF SignalForgetFile
  <2>25. CASE SignalRemoveQueue
    <3>1. msgq' \in Seq(Nat)
      <4>1. CASE msgq' = << >>
        BY <4>1
      <4>2. CASE msgq' = msgq
        BY <4>2
      <4> QED
        BY <4>1, <4>2, <2>25 DEF SignalRemoveQueue
    <3> QED
      BY <3>1, <2>25 DEF SignalRemoveQueue
  <2>26. CASE SignalDestroyMutex
    BY <2>26 DEF SignalDestroyMutex
  <2>27. CASE SignalExit
    BY <2>27 DEF SignalExit
  <2>28. CASE DayPasses
    BY <2>28 DEF DayPasses
  <2>29. CASE ReceiveMessage
    BY <2>29 DEF ReceiveMessage
  <2>30. CASE UNCHANGED vars
    BY <2>30
  <2> QED
    BY <2>1, <2>2, <2>3, <2>4, <2>5, <2>6, <2>7, <2>8, <2>9, <2>10, <2>11, <2>12, <2>13, <2>14, <2>15, <2>16, <2>17, <2>18, <2>19, <2>20, <2>21, <2>22, <2>23, <2>24, <2>25, <2>26, <2>27, <2>28, <2>29, <2>30
       DEF Next, SensorStep, LoggerStep, ListenerStep, SignalStep
<1> QED
  BY <1>1, <1>2, PTL DEF Spec

(* A thread is inside its critical section exactly when it holds the mutex. *)
LEMMA MutexHeld == Spec => []MutexInv
<1>1. Init => MutexInv
  BY DEF Init, MutexInv, SensorInside, LoggerInside
<1>2. TypeOK /\ MutexInv /\ [Next]_vars => MutexInv'
  <2> SUFFICES ASSUME TypeOK, MutexInv, [Next]_vars
               PROVE  MutexInv'
    OBVIOUS
  <2> USE DEF TypeOK, MutexInv, MutexAlive, SensorInside, LoggerInside, SensorPC, LoggerPC
  <2>1. CASE ReadMpu
    BY <2>1 DEF ReadMpu
  <2>2. CASE ReadAk
    BY <2>2 DEF ReadAk
  <2>3. CASE SensorLock
    BY <2>3 DEF SensorLock, Lock
  <2>4. CASE StoreSample
    BY <2>4 DEF StoreSample
  <2>5. CASE DropSample
    BY <2>5 DEF DropSample
  <2>6. CASE CountSample
    BY <2>6 DEF CountSample
  <2>7. CASE SensorUnlock
    BY <2>7 DEF SensorUnlock, Unlock
  <2>8. CASE InitLogger
    BY <2>8 DEF InitLogger
  <2>9. CASE LoggerLock
    BY <2>9 DEF LoggerLock, Lock
  <2>10. CASE PeekSample
    BY <2>10 DEF PeekSample, AfterPeek
  <2>11. CASE PollEmpty
    BY <2>11 DEF PollEmpty
  <2>12. CASE PrintDummyRow
    BY <2>12 DEF PrintDummyRow
  <2>13. CASE EnsureFile
    BY <2>13 DEF EnsureFile, OrGiveUp
  <2>14. CASE RollFile
    BY <2>14 DEF RollFile, OrGiveUp
  <2>15. CASE PrintRow
    BY <2>15 DEF PrintRow
  <2>16. CASE LoseRow
    BY <2>16 DEF LoseRow
  <2>17. CASE SendMessage
    BY <2>17 DEF SendMessage
  <2>18. CASE PopSample
    BY <2>18 DEF PopSample
  <2>19. CASE LoggerUnlock
    BY <2>19 DEF LoggerUnlock, Unlock
  <2>20. CASE SignalDestroyMutex
    BY <2>20 DEF SignalDestroyMutex
  <2>21. CASE UNCHANGED vars
    BY <2>21
  <2>22. CASE CrashOnClosedFile \/ StartCommand \/ StopCommand \/
              SignalFclose \/ SignalForgetFile \/ SignalRemoveQueue \/
              SignalExit \/ DayPasses \/ ReceiveMessage
    BY <2>22
       DEF CrashOnClosedFile, StartCommand, StopCommand, SignalFclose,
           SignalForgetFile, SignalRemoveQueue, SignalExit, DayPasses,
           ReceiveMessage
  <2> QED
    BY <2>1, <2>2, <2>3, <2>4, <2>5, <2>6, <2>7, <2>8, <2>9, <2>10, <2>11, <2>12, <2>13, <2>14, <2>15, <2>16, <2>17, <2>18, <2>19, <2>20, <2>21, <2>22
       DEF Next, SensorStep, LoggerStep, ListenerStep, SignalStep
<1> QED
  BY <1>1, <1>2, Typing, PTL DEF Spec

(* The strengthening behind AtMostOneRowAfterStop.                         *)
LEMMA StopHeld == Spec => []StopInv
<1>1. Init => StopInv
  BY DEF Init, StopInv, AtMostOneRowAfterStop
<1>2. TypeOK /\ StopInv /\ [Next]_vars => StopInv'
  <2> SUFFICES ASSUME TypeOK, StopInv, [Next]_vars
               PROVE  StopInv'
    OBVIOUS
  <2> USE DEF TypeOK, StopInv, AtMostOneRowAfterStop
  <2>1. CASE LoggerLock
    BY <2>1 DEF LoggerLock
  <2>2. CASE PeekSample
    BY <2>2 DEF PeekSample, AfterPeek
  <2>3. CASE PollEmpty
    BY <2>3 DEF PollEmpty
  <2>4. CASE EnsureFile
    BY <2>4 DEF EnsureFile, OrGiveUp
  <2>5. CASE RollFile
    BY <2>5 DEF RollFile, OrGiveUp
  <2>6. CASE PrintRow
    BY <2>6 DEF PrintRow
  <2>7. CASE LoggerUnlock
    BY <2>7 DEF LoggerUnlock
  <2>8. CASE StartCommand
    BY <2>8 DEF StartCommand
  <2>9. CASE StopCommand
    BY <2>9 DEF StopCommand
  <2>10. CASE UNCHANGED vars
    BY <2>10
  <2>11. CASE ReadMpu \/ ReadAk \/ SensorLock \/ StoreSample \/
              DropSample \/ CountSample \/ SensorUnlock \/ InitLogger \/
              PrintDummyRow \/ CrashOnClosedFile \/ LoseRow \/
              SendMessage \/ PopSample \/ SignalFclose \/
              SignalForgetFile \/ SignalRemoveQueue \/
              SignalDestroyMutex \/ SignalExit \/ DayPasses \/
              ReceiveMessage
    BY <2>11
       DEF ReadMpu, ReadAk, SensorLock, StoreSample, DropSample,
           CountSample, SensorUnlock, InitLogger, PrintDummyRow,
           CrashOnClosedFile, LoseRow, SendMessage, PopSample,
           SignalFclose, SignalForgetFile, SignalRemoveQueue,
           SignalDestroyMutex, SignalExit, DayPasses, ReceiveMessage
  <2> QED
    BY <2>1, <2>2, <2>3, <2>4, <2>5, <2>6, <2>7, <2>8, <2>9, <2>10, <2>11
       DEF Next, SensorStep, LoggerStep, ListenerStep, SignalStep
<1> QED
  BY <1>1, <1>2, Typing, PTL DEF Spec

(* The strengthening behind CrashOnlyInShutdown.                           *)
LEMMA FileHeld == Spec => []FileInv
<1>1. Init => FileInv
  BY DEF Init, FileInv, CrashOnlyInShutdown
<1>2. TypeOK /\ FileInv /\ [Next]_vars => FileInv'
  <2> SUFFICES ASSUME TypeOK, FileInv, [Next]_vars
               PROVE  FileInv'
    OBVIOUS
  <2> USE DEF TypeOK, FileInv, CrashOnlyInShutdown, Running
  <2>1. CASE InitLogger
    BY <2>1 DEF InitLogger, CreateCsv
  <2>2. CASE LoggerLock
    BY <2>2 DEF LoggerLock
  <2>3. CASE PeekSample
    BY <2>3 DEF PeekSample, AfterPeek
  <2>4. CASE PollEmpty
    BY <2>4 DEF PollEmpty
  <2>5. CASE EnsureFile
    BY <2>5 DEF EnsureFile, CreateCsv, OrGiveUp
  <2>6. CASE RollFile
    BY <2>6 DEF RollFile, CreateCsv, OrGiveUp
  <2>7. CASE PrintRow
    BY <2>7 DEF PrintRow
  <2>8. CASE CrashOnClosedFile
    BY <2>8 DEF CrashOnClosedFile
  <2>9. CASE LoggerUnlock
    BY <2>9 DEF LoggerUnlock
  <2>10. CASE StartCommand
    BY <2>10 DEF StartCommand
  <2>11. CASE StopCommand
    BY <2>11 DEF StopCommand
  <2>12. CASE SignalFclose
    BY <2>12 DEF SignalFclose
  <2>13. CASE SignalForgetFile
    BY <2>13 DEF SignalForgetFile
  <2>14. CASE SignalExit
    BY <2>14 DEF SignalExit
  <2>15. CASE UNCHANGED vars
    BY <2>15
  <2>16. CASE ReadMpu \/ ReadAk \/ SensorLock \/ StoreSample \/
              DropSample \/ CountSample \/ SensorUnlock \/ PrintDummyRow \/
              LoseRow \/ SendMessage \/ PopSample \/ SignalRemoveQueue \/
              SignalDestroyMutex \/ DayPasses \/ ReceiveMessage
    BY <2>16
       DEF ReadMpu, ReadAk, SensorLock, StoreSample, DropSample,
           CountSample, SensorUnlock, PrintDummyRow, LoseRow, SendMessage,
           PopSample, SignalRemoveQueue, SignalDestroyMutex, DayPasses,
           ReceiveMessage
  <2> QED
    BY <2>1, <2>2, <2>3, <2>4, <2>5, <2>6, <2>7, <2>8, <2>9, <2>10, <2>11, <2>12, <2>13, <2>14, <2>15, <2>16
       DEF Next, SensorStep, LoggerStep, ListenerStep, SignalStep
<1> QED
  BY <1>1, <1>2, Typing, PTL DEF Spec

-----------------------------------------------------------------------------
(* The slot behind the window is not one of the window's.                  *)
LEMMA TailIsFree ==
  ASSUME NEW h \in Slots, NEW c \in 0 .. BUFFER_SIZE - 1, NEW i \in 0 .. c - 1
  PROVE  (h + i) % BUFFER_SIZE # (h + c) % BUFFER_SIZE
<1>1. i \in 0 .. BUFFER_SIZE /\ c \in 0 .. BUFFER_SIZE
  BY SizeAssumption
<1>2. (h + i) % BUFFER_SIZE
        = IF h + i < BUFFER_SIZE THEN h + i ELSE h + i - BUFFER_SIZE
  BY <1>1, Wrap
<1>3. (h + c) % BUFFER_SIZE
        = IF h + c < BUFFER_SIZE THEN h + c ELSE h + c - BUFFER_SIZE
  BY <1>1, Wrap
<1> QED
  BY <1>2, <1>3, SizeAssumption DEF Slots

(* After the head has moved on, every sample is one place nearer to it.    *)
LEMMA Advance ==
  ASSUME NEW h \in Slots, NEW i \in 0 .. BUFFER_SIZE - 1
  PROVE  /\ (((h + 1) % BUFFER_SIZE) + i) % BUFFER_SIZE = (h + (i + 1)) % BUFFER_SIZE
         /\ (h + 1) % BUFFER_SIZE \in Slots
         /\ (h + 0) % BUFFER_SIZE = h
<1>1. 1 \in 0 .. BUFFER_SIZE /\ 0 \in 0 .. BUFFER_SIZE /\ i + 1 \in 0 .. BUFFER_SIZE
  BY SizeAssumption
<1>2. /\ (h + 1) % BUFFER_SIZE
           = IF h + 1 < BUFFER_SIZE THEN h + 1 ELSE h + 1 - BUFFER_SIZE
      /\ (h + 1) % BUFFER_SIZE \in Slots
  BY <1>1, Wrap
<1>3. (h + 0) % BUFFER_SIZE = IF h + 0 < BUFFER_SIZE THEN h + 0 ELSE h + 0 - BUFFER_SIZE
  BY <1>1, Wrap
<1>4. (((h + 1) % BUFFER_SIZE) + i) % BUFFER_SIZE
        = IF ((h + 1) % BUFFER_SIZE) + i < BUFFER_SIZE
            THEN ((h + 1) % BUFFER_SIZE) + i
            ELSE ((h + 1) % BUFFER_SIZE) + i - BUFFER_SIZE
  BY <1>1, <1>2, Wrap, SizeAssumption
<1>5. (h + (i + 1)) % BUFFER_SIZE
        = IF h + (i + 1) < BUFFER_SIZE THEN h + (i + 1) ELSE h + (i + 1) - BUFFER_SIZE
  BY <1>1, Wrap, SizeAssumption
<1> QED
  BY <1>2, <1>3, <1>4, <1>5, SizeAssumption DEF Slots

(* Samples of the window are numbers.                                      *)
LEMMA WindowTyped ==
  ASSUME TypeOK, NEW i \in 0 .. BUFFER_SIZE
  PROVE  At(i) \in Nat /\ (head + i) % BUFFER_SIZE \in Slots
BY Wrap DEF TypeOK, At

-----------------------------------------------------------------------------
(* A destroyed mutex stays destroyed.                                      *)
LEMMA DestroyedForGood == [Next]_vars /\ MutexAlive' => MutexAlive
BY DEF MutexAlive, Next, SensorStep, LoggerStep, ListenerStep, SignalStep,
       Lock, Unlock, ReadMpu, ReadAk, SensorLock, StoreSample, DropSample, CountSample,
       SensorUnlock, InitLogger, LoggerLock, PeekSample, PollEmpty,
       PrintDummyRow, EnsureFile, RollFile, PrintRow, CrashOnClosedFile,
       LoseRow, SendMessage, PopSample, LoggerUnlock, StartCommand,
       StopCommand, SignalFclose, SignalForgetFile, SignalRemoveQueue,
       SignalDestroyMutex, SignalExit, DayPasses, ReceiveMessage

(* What a thread has read inside its critical section stays true there.    *)
LEMMA DataHeld == Spec => []DataInv
<1>1. Init => DataInv
  BY DEF Init, DataInv
<1>2. TypeOK /\ CountInv /\ MutexInv /\ DataInv /\ [Next]_vars => DataInv'
  <2> SUFFICES ASSUME TypeOK, CountInv, MutexInv, DataInv, [Next]_vars, MutexAlive'
               PROVE  DataInv'
    BY DEF DataInv
  <2> MutexAlive
    BY DestroyedForGood
  <2> USE DEF MutexInv, DataInv, SensorInside, LoggerInside, At, TailIndex
  <2>0. head = (head + 0) % BUFFER_SIZE
    BY Advance, SizeAssumption DEF TypeOK
  <2>1. CASE SensorLock
    BY <2>1 DEF SensorLock, Lock
  <2>2. CASE StoreSample
    BY SizeAssumption, Wrap, <2>2 DEF StoreSample, HasRoom, TypeOK, Slots
  <2>3. CASE CountSample
    BY <2>3 DEF CountSample
  <2>4. CASE LoggerLock
    BY <2>4 DEF LoggerLock, Lock
  <2>5. CASE PeekSample
    BY <2>0, <2>5 DEF PeekSample, AfterPeek
  <2>6. CASE EnsureFile
    BY <2>6 DEF EnsureFile, OrGiveUp
  <2>7. CASE RollFile
    BY <2>7 DEF RollFile, OrGiveUp
  <2>8. CASE PopSample
    BY <2>8 DEF PopSample
  <2>9. CASE ReadAk
    BY <2>9 DEF ReadAk
  <2>10. CASE ReadMpu
    BY <2>10 DEF ReadMpu
  <2>11. CASE SignalDestroyMutex
    BY <2>11 DEF SignalDestroyMutex
  <2>12. CASE UNCHANGED vars
    BY <2>12
  <2>13. CASE DropSample \/ SensorUnlock \/ InitLogger \/ PollEmpty \/
              PrintDummyRow \/ PrintRow \/ CrashOnClosedFile \/ LoseRow \/
              SendMessage \/ LoggerUnlock \/ StartCommand \/ StopCommand \/
              SignalFclose \/ SignalForgetFile \/ SignalRemoveQueue \/
              SignalExit \/ DayPasses \/ ReceiveMessage
    BY <2>13
       DEF DropSample, SensorUnlock, InitLogger, PollEmpty, PrintDummyRow,
           PrintRow, CrashOnClosedFile, LoseRow, SendMessage, LoggerUnlock,
           StartCommand, StopCommand, SignalFclose, SignalForgetFile,
           SignalRemoveQueue, SignalExit, DayPasses, ReceiveMessage,
           Lock, Unlock
  <2> QED
    BY <2>1, <2>2, <2>3, <2>4, <2>5, <2>6, <2>7, <2>8, <2>9, <2>10, <2>11, <2>12, <2>13
       DEF Next, SensorStep, LoggerStep, ListenerStep, SignalStep
<1> QED
  BY <1>1, <1>2, Typing, MutexHeld, PTL DEF Spec

-----------------------------------------------------------------------------
(* Steps that only move a thread to its next line keep the order.          *)
LEMMA OrderFrame ==
  ASSUME OrderParts, UNCHANGED <<filtered, head, count, raw, rows>>,
         Holding' => Holding,
         lpc' \notin {"send", "pop"} => lpc \notin {"send", "pop"}
  PROVE  OrderParts'
BY DEF OrderParts, WindowBelowRaw, WindowOrdered, RowsBelowRaw, RowsBeforeWindow,
       RowsOrdered, Live, At

(* The inductive step of OrderInv.                                         *)
LEMMA OrderStep ==
  ASSUME TypeOK, CountInv, MutexInv, DataInv, OrderParts, MutexAlive, [Next]_vars
  PROVE  OrderParts'
<1> USE SizeAssumption
<1>1. CASE ReadMpu
  BY <1>1, WindowTyped DEF OrderParts, WindowBelowRaw, WindowOrdered, RowsBelowRaw,
     RowsBeforeWindow, RowsOrdered, Live, At, ReadMpu, TypeOK
<1>2. CASE StoreSample
  <2>1. \A i \in Live : At(i)' = At(i)
    BY <1>2, TailIsFree, WindowTyped DEF StoreSample, HasRoom, TailIndex, TypeOK, Live, At
  <2> QED
    BY <1>2, <2>1 DEF OrderParts, WindowBelowRaw, WindowOrdered, RowsBelowRaw,
       RowsBeforeWindow, RowsOrdered, Live, StoreSample, Holding
<1>3. CASE CountSample
  <2>1. count' = count + 1 /\ UNCHANGED <<filtered, head>> /\ filtered[TailIndex] = raw
    BY <1>3 DEF CountSample, DataInv
  <2>2. Live' = Live \cup {count} /\ \A i \in Live : i \in Nat /\ i < count
    BY <2>1 DEF Live, TypeOK
  <2>3. \A i \in Live' : At(i)' = IF i = count THEN raw ELSE At(i)
    BY <2>1 DEF TailIndex, At
  <2>4. raw' = raw /\ rows' = rows /\ lpc' = lpc /\ Holding /\ ~Holding'
    BY <1>3 DEF CountSample, Holding
  <2>5. \A i \in Live : At(i) \in Nat /\ At(i) < raw
    BY <2>4, WindowTyped DEF Live, TypeOK, OrderParts, WindowBelowRaw
  <2>6. WindowBelowRaw' /\ WindowOrdered'
    BY <2>2, <2>3, <2>4, <2>5 DEF OrderParts, WindowBelowRaw, WindowOrdered, TypeOK
  <2>7. RowsBelowRaw' /\ RowsBeforeWindow' /\ RowsOrdered'
    BY <2>2, <2>3, <2>4 DEF OrderParts, RowsBelowRaw, RowsBeforeWindow, RowsOrdered
  <2> QED
    BY <2>6, <2>7 DEF OrderParts
<1>4. CASE PrintRow
  <2>1. UNCHANGED <<filtered, head, count, spc, raw>> /\ lpc = "print" /\ lpc' = "send"
    BY <1>4 DEF PrintRow
  <2>2. 0 \in Live /\ data = At(0)
    BY <2>1 DEF Live, CountInv, DataInv, TypeOK
  <2>3. /\ DOMAIN rows' = DOMAIN rows \cup {Len(rows) + 1}
        /\ \A k \in DOMAIN rows : rows'[k] = rows[k] /\ k < Len(rows) + 1
        /\ rows'[Len(rows) + 1] = data
    BY <1>4 DEF PrintRow, TypeOK
  <2>4. \A k \in DOMAIN rows : rows[k] < data
    BY <2>1, <2>2 DEF OrderParts, RowsBeforeWindow
  <2>5. \A i \in Live : At(i)' = At(i) /\ At(i) \in Nat /\ (i > 0 => data < At(i))
    BY <2>1, <2>2, WindowTyped DEF OrderParts, WindowOrdered, Live, At, TypeOK
  <2>6. Live' = Live /\ Holding' = Holding
    BY <2>1 DEF Live, Holding
  <2>7. WindowBelowRaw' /\ WindowOrdered'
    BY <2>1, <2>5, <2>6 DEF OrderParts, WindowBelowRaw, WindowOrdered
  <2>8. RowsBelowRaw'
    BY <2>1, <2>2, <2>3, <2>6 DEF OrderParts, RowsBelowRaw, WindowBelowRaw
  <2>9. RowsBeforeWindow'
    BY <2>1, <2>3, <2>5, <2>6 DEF OrderParts, RowsBeforeWindow
  <2>10. RowsOrdered'
    BY <2>3, <2>4 DEF OrderParts, RowsOrdered, TypeOK
  <2> QED
    BY <2>7, <2>8, <2>9, <2>10 DEF OrderParts
<1>5. CASE PopSample
  <2>1. /\ count' = count - 1 /\ head' = (head + 1) % BUFFER_SIZE
        /\ UNCHANGED <<filtered, spc, raw, rows>>
    BY <1>5 DEF PopSample, NextHead
  <2>2. \A i \in Live' : i \in 0 .. BUFFER_SIZE - 1 /\ i + 1 \in Live
    BY <2>1 DEF Live, TypeOK
  <2>3. \A i \in Live' : At(i)' = At(i + 1)
    BY <2>1, <2>2, Advance DEF At, TypeOK
  <2>4. Holding' = Holding
    BY <2>1 DEF Holding
  <2> QED
    BY <2>1, <2>2, <2>3, <2>4 DEF OrderParts, WindowBelowRaw, WindowOrdered,
       RowsBelowRaw, RowsBeforeWindow, RowsOrdered
<1>6. CASE UNCHANGED vars
  BY <1>6, OrderFrame DEF Holding
<1>7. CASE ReadAk \/ SensorLock \/ DropSample \/ SensorUnlock \/
            InitLogger \/ LoggerLock \/ PeekSample \/ PollEmpty \/
            PrintDummyRow \/ EnsureFile \/ RollFile \/ CrashOnClosedFile \/
            LoseRow \/ SendMessage \/ LoggerUnlock \/ StartCommand \/
            StopCommand \/ SignalFclose \/ SignalForgetFile \/
            SignalRemoveQueue \/ SignalDestroyMutex \/ SignalExit \/
            DayPasses \/ ReceiveMessage
  <2>1. /\ UNCHANGED <<filtered, head, count, raw, rows>>
        /\ Holding' => Holding
        /\ lpc' \notin {"send", "pop"} => lpc \notin {"send", "pop"}
    BY <1>7
       DEF Holding, AfterPeek, OrGiveUp, ReadAk, SensorLock, DropSample, SensorUnlock, InitLogger,
           LoggerLock, PeekSample, PollEmpty, PrintDummyRow, EnsureFile,
           RollFile, CrashOnClosedFile, LoseRow, SendMessage, LoggerUnlock,
           StartCommand, StopCommand, SignalFclose, SignalForgetFile,
           SignalRemoveQueue, SignalDestroyMutex, SignalExit, DayPasses,
           ReceiveMessage
  <2> QED
    BY <2>1, OrderFrame
<1> QED
  BY <1>1, <1>2, <1>3, <1>4, <1>5, <1>6, <1>7
     DEF Next, SensorStep, LoggerStep, ListenerStep, SignalStep

LEMMA OrderHeld == Spec => []OrderInv
<1>1. Init => OrderInv
  BY DEF Init, OrderInv, OrderParts, WindowBelowRaw, WindowOrdered, RowsBelowRaw,
         RowsBeforeWindow, RowsOrdered, Live, At
<1>2. TypeOK /\ CountInv /\ MutexInv /\ DataInv /\ OrderInv /\ [Next]_vars => OrderInv'
  BY DestroyedForGood, OrderStep DEF OrderInv
<1> QED
  BY <1>1, <1>2, Typing, MutexHeld, DataHeld, PTL DEF Spec

-----------------------------------------------------------------------------
(* The strengthening behind DummyRowsInOrder.                              *)
LEMMA DummyStep ==
  ASSUME TypeOK, CountInv, MutexInv, DataInv, DummyInv, MutexAlive, [Next]_vars
  PROVE  DummyInv'
<1> USE SizeAssumption DEF DummyInv
<1>1. CASE ReadMpu
  BY <1>1 DEF ReadMpu, TypeOK, Live, At
<1>2. CASE StoreSample
  <2>1. \A i \in Live : At(i)' = At(i)
    BY <1>2, TailIsFree DEF StoreSample, HasRoom, TailIndex, TypeOK, Live, At
  <2> QED
    BY <1>2, <2>1 DEF StoreSample, Live
<1>3. CASE CountSample
  <2>1. count' = count + 1 /\ UNCHANGED <<filtered, head>> /\ filtered[TailIndex] = raw
    BY <1>3 DEF CountSample, DataInv
  <2>2. Live' = Live \cup {count}
    BY <2>1 DEF Live, TypeOK
  <2>3. \A i \in Live' : At(i)' = IF i = count THEN raw ELSE At(i)
    BY <2>1 DEF TailIndex, At
  <2>4. lpc' # "dummy"
    BY <1>3 DEF CountSample, MutexInv, SensorInside, LoggerInside
  <2> QED
    BY <1>3, <2>2, <2>3, <2>4 DEF CountSample
<1>4. CASE PopSample
  <2>1. count' = count - 1 /\ head' = (head + 1) % BUFFER_SIZE /\ UNCHANGED filtered
    BY <1>4 DEF PopSample, NextHead
  <2>2. \A i \in Live' : i \in 0 .. BUFFER_SIZE - 1 /\ i + 1 \in Live
    BY <2>1 DEF Live, TypeOK
  <2>3. \A i \in Live' : At(i)' = At(i + 1)
    BY <2>1, <2>2, Advance DEF At, TypeOK
  <2> QED
    BY <1>4, <2>2, <2>3 DEF PopSample
<1>5. CASE PrintDummyRow
  BY <1>5 DEF PrintDummyRow, Live, TypeOK
<1>6. CASE PollEmpty
  BY <1>6 DEF PollEmpty, HasData, Live, At, TypeOK
<1>7. CASE UNCHANGED vars
  BY <1>7 DEF Live, At, MutexAlive
<1>8. CASE ReadAk \/ SensorLock \/ DropSample \/ SensorUnlock \/
           InitLogger \/ LoggerLock \/ PeekSample \/ EnsureFile \/
           RollFile \/ PrintRow \/ CrashOnClosedFile \/ LoseRow \/
           SendMessage \/ LoggerUnlock \/ StartCommand \/ StopCommand \/
           SignalFclose \/ SignalForgetFile \/ SignalRemoveQueue \/
           SignalDestroyMutex \/ SignalExit \/ DayPasses \/ ReceiveMessage
  <2>1. /\ UNCHANGED <<filtered, head, count, raw, dummyMark>>
        /\ lpc' = "dummy" => lpc = "dummy"
    BY <1>8
       DEF AfterPeek, OrGiveUp, ReadAk, SensorLock, DropSample, SensorUnlock, InitLogger,
           LoggerLock, PeekSample, EnsureFile, RollFile, PrintRow,
           CrashOnClosedFile, LoseRow, SendMessage, LoggerUnlock,
           StartCommand, StopCommand, SignalFclose, SignalForgetFile,
           SignalRemoveQueue, SignalDestroyMutex, SignalExit, DayPasses,
           ReceiveMessage
  <2> QED
    BY <2>1 DEF Live, At
<1> QED
  BY <1>1, <1>2, <1>3, <1>4, <1>5, <1>6, <1>7, <1>8
     DEF Next, SensorStep, LoggerStep, ListenerStep, SignalStep

LEMMA DummyHeld == Spec => []DummyInv
<1>1. Init => DummyInv
  BY DEF Init, DummyInv, Live
<1>2. TypeOK /\ CountInv /\ MutexInv /\ DataInv /\ DummyInv /\ [Next]_vars => DummyInv'
  BY DestroyedForGood, DummyStep DEF DummyInv
<1> QED
  BY <1>1, <1>2, Typing, MutexHeld, DataHeld, PTL DEF Spec

-----------------------------------------------------------------------------
(* The abstract queue of c samples from slot h of the ring f.              *)
Win(f, h, c) == [i \in 1 .. c |-> f[(h + i - 1) % BUFFER_SIZE]]

LEMMA WinIsSequence ==
  ASSUME NEW f \in [Slots -> Nat], NEW h \in Slots, NEW c \in 0 .. BUFFER_SIZE
  PROVE  /\ Win(f, h, c) \in Seq(Nat)
         /\ Len(Win(f, h, c)) = c
         /\ DOMAIN Win(f, h, c) = 1 .. c
         /\ \A i \in 1 .. c : Win(f, h, c)[i] = f[(h + (i - 1)) % BUFFER_SIZE]
<1>1. \A i \in 1 .. c : h + i - 1 = h + (i - 1) /\ i - 1 \in 0 .. BUFFER_SIZE
  BY SizeAssumption DEF Slots
<1>2. \A i \in 1 .. c : f[(h + i - 1) % BUFFER_SIZE] \in Nat
  BY <1>1, Wrap
<1> QED
  BY <1>1, <1>2, SizeAssumption DEF Win

(* Filling the slot behind the window does not show in the queue ...       *)
LEMMA WinStore ==
  ASSUME NEW f \in [Slots -> Nat], NEW h \in Slots,
         NEW c \in 0 .. BUFFER_SIZE - 1, NEW v \in Nat
  PROVE  Win([f EXCEPT ![(h + c) % BUFFER_SIZE] = v], h, c) = Win(f, h, c)
<1>1. \A i \in 1 .. c : h + i - 1 = h + (i - 1) /\ i - 1 \in 0 .. c - 1
  BY SizeAssumption DEF Slots
<1>2. \A i \in 1 .. c : (h + i - 1) % BUFFER_SIZE # (h + c) % BUFFER_SIZE
  BY <1>1, TailIsFree
<1>3. \A i \in 1 .. c : (h + i - 1) % BUFFER_SIZE \in Slots
  BY <1>1, Wrap, SizeAssumption
<1> QED
  BY <1>2, <1>3 DEF Win

(* ... counting it appends its sample ...                                  *)
LEMMA WinAppend ==
  ASSUME NEW f \in [Slots -> Nat], NEW h \in Slots, NEW c \in 0 .. BUFFER_SIZE - 1
  PROVE  Win(f, h, c + 1) = Append(Win(f, h, c), f[(h + c) % BUFFER_SIZE])
<1>1. c \in 0 .. BUFFER_SIZE /\ c + 1 \in 0 .. BUFFER_SIZE
  BY SizeAssumption
<1>2. h + (c + 1) - 1 = h + c
  BY SizeAssumption DEF Slots
<1>3. /\ Win(f, h, c) \in Seq(Nat) /\ Len(Win(f, h, c)) = c
      /\ Win(f, h, c + 1) \in Seq(Nat) /\ Len(Win(f, h, c + 1)) = c + 1
  BY <1>1, WinIsSequence
<1>4. f[(h + c) % BUFFER_SIZE] \in Nat
  BY <1>1, Wrap
<1> DEFINE app == Append(Win(f, h, c), f[(h + c) % BUFFER_SIZE])
<1>5. /\ app \in Seq(Nat) /\ Len(app) = c + 1
      /\ \A i \in 1 .. c : app[i] = Win(f, h, c)[i]
      /\ app[c + 1] = f[(h + c) % BUFFER_SIZE]
  BY <1>3, <1>4, AppendProperties
<1>6. \A i \in 1 .. c + 1 : Win(f, h, c + 1)[i] = app[i]
  <2>1. \A i \in 1 .. c : Win(f, h, c + 1)[i] = Win(f, h, c)[i]
    BY <1>1 DEF Win
  <2>2. Win(f, h, c + 1)[c + 1] = f[(h + c) % BUFFER_SIZE]
    BY <1>1, <1>2 DEF Win
  <2>3. \A i \in 1 .. c + 1 : i \in 1 .. c \/ i = c + 1
    BY <1>1
  <2> QED
    BY <1>5, <2>1, <2>2, <2>3
<1> QED
  BY <1>3, <1>5, <1>6, SeqEqual

(* ... and moving the head on takes the first sample away.                 *)
LEMMA WinTail ==
  ASSUME NEW f \in [Slots -> Nat], NEW h \in Slots, NEW c \in 1 .. BUFFER_SIZE
  PROVE  /\ Win(f, h, c) # << >>
         /\ Win(f, (h + 1) % BUFFER_SIZE, c - 1) = Tail(Win(f, h, c))
<1>1. c \in 0 .. BUFFER_SIZE /\ c - 1 \in 0 .. BUFFER_SIZE /\ (h + 1) % BUFFER_SIZE \in Slots
  BY Advance, SizeAssumption
<1> DEFINE w == Win(f, h, c)
           v == Win(f, (h + 1) % BUFFER_SIZE, c - 1)
<1>2. /\ w \in Seq(Nat) /\ Len(w) = c
      /\ v \in Seq(Nat) /\ Len(v) = c - 1
  BY <1>1, WinIsSequence
<1>3. w # << >>
  BY <1>2
<1>4. /\ Tail(w) \in Seq(Nat) /\ Len(Tail(w)) = c - 1
      /\ \A i \in 1 .. c - 1 : Tail(w)[i] = w[i + 1]
  BY <1>2, <1>3, HeadTailProperties
<1>5. \A i \in 1 .. c - 1 : v[i] = w[i + 1]
  <2> SUFFICES ASSUME NEW i \in 1 .. c - 1
               PROVE  v[i] = w[i + 1]
    OBVIOUS
  <2>1. /\ i - 1 \in 0 .. BUFFER_SIZE - 1 /\ i + 1 \in 1 .. c
        /\ (i - 1) + 1 = (i + 1) - 1
    BY SizeAssumption
  <2>2. v[i] = f[(((h + 1) % BUFFER_SIZE) + (i - 1)) % BUFFER_SIZE]
    BY <1>1, WinIsSequence
  <2>3. w[i + 1] = f[(h + ((i + 1) - 1)) % BUFFER_SIZE]
    BY <1>1, <2>1, WinIsSequence
  <2> QED
    BY <2>1, <2>2, <2>3, Advance
<1>6. v = Tail(w)
  BY <1>2, <1>4, <1>5, SeqEqual
<1> QED
  BY <1>3, <1>6

(* Every step of the threads is a step of the queue or leaves it alone.    *)
LEMMA QueueStep ==
  ASSUME TypeOK, CountInv, DataInv, MutexAlive, [Next]_vars
  PROVE  [Abstract!Next]_(Abstract!vars)
<1> USE SizeAssumption
<1> DEFINE pending == spc \in {"ak", "lock", "slot", "inc"}
<1>1. CASE ReadMpu
  <2>1. Abstract!Take
    BY <1>1 DEF ReadMpu, Abstract!Take, Window
  <2> QED
    BY <2>1 DEF Abstract!Next
<1>2. CASE ReadAk \/ DropSample
  <2>1. Abstract!Drop \/ UNCHANGED Abstract!vars
    BY <1>2 DEF ReadAk, DropSample, Abstract!Drop, Abstract!vars, Window
  <2> QED
    BY <2>1 DEF Abstract!Next
<1>3. CASE StoreSample
  <2>1. count \in 0 .. BUFFER_SIZE - 1
    BY <1>3 DEF StoreSample, HasRoom, TypeOK
  <2>2. filtered' = [filtered EXCEPT ![(head + count) % BUFFER_SIZE] = raw]
    BY <1>3 DEF StoreSample, TailIndex
  <2>3. Win(filtered', head, count) = Win(filtered, head, count)
    BY <2>1, <2>2, WinStore DEF TypeOK
  <2>4. Window' = Window
    BY <1>3, <2>3 DEF StoreSample, Window, Win
  <2> QED
    BY <1>3, <2>4 DEF StoreSample, Abstract!vars
<1>4. CASE CountSample
  <2>1. /\ count \in 0 .. BUFFER_SIZE - 1 /\ count' = count + 1
        /\ filtered[TailIndex] = raw
        /\ UNCHANGED <<filtered, head, raw>> /\ pending /\ ~pending'
    BY <1>4 DEF CountSample, DataInv, CountInv, TypeOK
  <2>2. Window' = Append(Window, raw)
    BY <2>1, WinAppend DEF TailIndex, TypeOK, Window, Win
  <2>3. Len(Window) < BUFFER_SIZE
    BY <2>1, WinIsSequence DEF TypeOK, Window, Win
  <2> QED
    BY <2>1, <2>2, <2>3 DEF Abstract!Accept, Abstract!Next
<1>5. CASE PopSample
  <2>1. /\ count \in 1 .. BUFFER_SIZE /\ count' = count - 1
        /\ head' = (head + 1) % BUFFER_SIZE
        /\ UNCHANGED <<filtered, raw, pending>>
    BY <1>5 DEF PopSample, NextHead, CountInv, TypeOK
  <2>2. /\ Win(filtered, head, count) # << >>
        /\ Win(filtered, head', count') = Tail(Win(filtered, head, count))
    BY <2>1, WinTail DEF TypeOK
  <2>3. Window # << >> /\ Window' = Tail(Window)
    BY <2>1, <2>2 DEF Window, Win
  <2> QED
    BY <2>1, <2>3 DEF Abstract!Release, Abstract!Next
<1>6. CASE UNCHANGED vars
  BY <1>6 DEF Abstract!vars, Window
<1>7. CASE SensorLock \/ SensorUnlock \/ InitLogger \/ LoggerLock \/
           PeekSample \/ PollEmpty \/ PrintDummyRow \/ EnsureFile \/
           RollFile \/ PrintRow \/ CrashOnClosedFile \/ LoseRow \/
           SendMessage \/ LoggerUnlock \/ StartCommand \/ StopCommand \/
           SignalFclose \/ SignalForgetFile \/ SignalRemoveQueue \/
           SignalDestroyMutex \/ SignalExit \/ DayPasses \/ ReceiveMessage
  <2>1. UNCHANGED <<filtered, head, count, raw, pending>>
    BY <1>7
       DEF SensorLock, SensorUnlock, InitLogger, LoggerLock, PeekSample,
           PollEmpty, PrintDummyRow, EnsureFile, RollFile, PrintRow,
           CrashOnClosedFile, LoseRow, SendMessage, LoggerUnlock,
           StartCommand, StopCommand, SignalFclose, SignalForgetFile,
           SignalRemoveQueue, SignalDestroyMutex, SignalExit, DayPasses,
           ReceiveMessage
  <2> QED
    BY <2>1 DEF Abstract!vars, Window
<1> QED
  BY <1>1, <1>2, <1>3, <1>4, <1>5, <1>6, <1>7
     DEF Next, SensorStep, LoggerStep, ListenerStep, SignalStep

-----------------------------------------------------------------------------
(* The strengthening behind StaleRowsBounded.                              *)
LEMMA StaleStep ==
  ASSUME TypeOK, CountInv, MutexInv, DataInv, OrderInv, StaleInv, MutexAlive,
         [Next]_vars
  PROVE  StaleInv'
<1> USE SizeAssumption DEF StaleInv, InHand, Printed
<1>0. \A i \in Live : i \in Nat /\ At(i) \in Nat
  BY WindowTyped DEF Live, TypeOK
<1>1. CASE ReadMpu
  BY <1>0, <1>1 DEF ReadMpu, TypeOK, Live, At, Holding
<1>2. CASE StoreSample
  <2>1. \A i \in Live : At(i)' = At(i)
    BY <1>2, TailIsFree DEF StoreSample, HasRoom, TailIndex, TypeOK, Live, At
  <2> QED
    BY <1>2, <2>1 DEF StoreSample, Live, Holding
<1>3. CASE CountSample
  <2>1. /\ count' = count + 1 /\ filtered[TailIndex] = raw /\ Holding /\ ~Holding'
        /\ UNCHANGED <<filtered, head, raw, lpc, startMark, staleRows>>
    BY <1>3 DEF CountSample, DataInv, Holding
  <2>2. Live' = Live \cup {count} /\ \A i \in Live : i <= count - 1
    BY <2>1 DEF Live, TypeOK
  <2>3. \A i \in Live' : At(i)' = IF i = count THEN raw ELSE At(i)
    BY <2>1 DEF TailIndex, At
  <2>4. raw <= startMark => staleRows + 1 + count - Printed <= BUFFER_SIZE + 1
    <3>1. CASE count = 0
      BY <2>1, <3>1 DEF TypeOK
    <3>2. CASE count > 0
      <4>1. count - 1 \in Live
        BY <3>2 DEF Live, TypeOK
      <4>2. At(count - 1) <= raw
        BY <4>1 DEF OrderInv, OrderParts, WindowBelowRaw
      <4> QED
        BY <1>0, <2>1, <4>1, <4>2 DEF TypeOK
    <3> QED
      BY <3>1, <3>2 DEF TypeOK
  <2> QED
    BY <1>0, <2>1, <2>2, <2>3, <2>4 DEF TypeOK, MutexAlive
<1>4. CASE PrintRow
  <2>1. 0 \in Live /\ data = At(0)
    BY <1>4 DEF PrintRow, Live, CountInv, DataInv, TypeOK
  <2>2. \A i \in Live : At(i) <= startMark => At(0) <= startMark
    <3> SUFFICES ASSUME NEW i \in Live, At(i) <= startMark
                 PROVE  At(0) <= startMark
      OBVIOUS
    <3>1. CASE i = 0
      BY <3>1
    <3>2. CASE i > 0
      <4>1. At(0) < At(i)
        BY <2>1, <3>2 DEF OrderInv, OrderParts, WindowOrdered
      <4> QED
        BY <1>0, <2>1, <4>1 DEF TypeOK
    <3> QED
      BY <1>0, <3>1, <3>2
  <2> QED
    BY <1>0, <1>4, <2>1, <2>2 DEF PrintRow, TypeOK, Holding, Live, At
<1>5. CASE PopSample
  <2>1. /\ count' = count - 1 /\ head' = (head + 1) % BUFFER_SIZE
        /\ UNCHANGED <<filtered, raw, startMark, staleRows, spc>>
        /\ lpc = "pop" /\ lpc' = "unlock"
    BY <1>5 DEF PopSample, NextHead
  <2>2. \A i \in Live' : i \in 0 .. BUFFER_SIZE - 1 /\ i + 1 \in Live
    BY <2>1 DEF Live, TypeOK
  <2>3. \A i \in Live' : At(i)' = At(i + 1)
    BY <2>1, <2>2, Advance DEF At, TypeOK
  <2> QED
    BY <2>1, <2>2, <2>3 DEF Holding, TypeOK
<1>6. CASE StartCommand
  <2>1. \A i \in Live : i + 1 <= BUFFER_SIZE
    BY DEF Live, TypeOK
  <2> QED
    BY <1>0, <1>6, <2>1 DEF StartCommand, TypeOK, Holding, Live, At
<1>7. CASE UNCHANGED vars
  BY <1>7 DEF Live, At, Holding, MutexAlive
<1>8. CASE ReadAk \/ SensorLock \/ DropSample \/ SensorUnlock \/
           InitLogger \/ LoggerLock \/ PeekSample \/ PollEmpty \/
           PrintDummyRow \/ EnsureFile \/ RollFile \/ CrashOnClosedFile \/
           LoseRow \/ SendMessage \/ LoggerUnlock \/ StopCommand \/
           SignalFclose \/ SignalForgetFile \/ SignalRemoveQueue \/
           SignalDestroyMutex \/ SignalExit \/ DayPasses \/ ReceiveMessage
  <2>1. /\ UNCHANGED <<filtered, head, count, raw, startMark, staleRows>>
        /\ Holding' => Holding
        /\ lpc \in {"send", "pop"} => lpc' \in {"send", "pop"}
    BY <1>8
       DEF Holding, AfterPeek, OrGiveUp, ReadAk, SensorLock, DropSample, SensorUnlock, InitLogger,
           LoggerLock, PeekSample, PollEmpty, PrintDummyRow, EnsureFile,
           RollFile, CrashOnClosedFile, LoseRow, SendMessage, LoggerUnlock,
           StopCommand, SignalFclose, SignalForgetFile, SignalRemoveQueue,
           SignalDestroyMutex, SignalExit, DayPasses, ReceiveMessage
  <2> QED
    BY <1>0, <2>1 DEF Live, At, TypeOK
<1> QED
  BY <1>1, <1>2, <1>3, <1>4, <1>5, <1>6, <1>7, <1>8
     DEF Next, SensorStep, LoggerStep, ListenerStep, SignalStep

LEMMA StaleHeld == Spec => []StaleInv
<1>1. Init => StaleInv
  BY SizeAssumption DEF Init, StaleInv, InHand, Holding, Live
<1>2. TypeOK /\ CountInv /\ MutexInv /\ DataInv /\ OrderInv /\ StaleInv /\ [Next]_vars
        => StaleInv'
  BY DestroyedForGood, StaleStep DEF StaleInv
<1> QED
  BY <1>1, <1>2, Typing, MutexHeld, DataHeld, OrderHeld, PTL DEF Spec
-----------------------------------------------------------------------------
(* Type correctness of the ring, the threads, the file and the handler.    *)
THEOREM TypeCorrect == Spec => []TypeOK
BY Typing, PTL

(* For every ring size and however sensor_read_thread, logging_thread, the *)
(* listener and handle_signal interleave, rows are written in the order of *)
(* the samples and no sample is written twice.                             *)
THEOREM RowsStayInOrder == Spec => []RowsInOrder
<1>1. OrderInv => RowsInOrder
  BY DEF OrderInv, OrderParts, RowsInOrder
<1> QED
  BY <1>1, OrderHeld, PTL

(* At most BUFFER_SIZE + 1 rows of a recording are older than its start.   *)
THEOREM StaleRowsStayBounded == Spec => []StaleRowsBounded
<1>1. TypeOK /\ StaleInv => StaleRowsBounded
  BY SizeAssumption DEF StaleInv, InHand, StaleRowsBounded, TypeOK
<1> QED
  BY <1>1, Typing, StaleHeld, PTL

(* A "stop" comes too late for at most one row.                            *)
THEOREM StopIsPrompt == Spec => []AtMostOneRowAfterStop
<1>1. StopInv => AtMostOneRowAfterStop
  BY DEF StopInv
<1> QED
  BY <1>1, StopHeld, PTL

(* The logging thread never uses a NULL or closed file before a signal.    *)
THEOREM NoCrashBeforeSignal == Spec => []CrashOnlyInShutdown
<1>1. FileInv => CrashOnlyInShutdown
  BY DEF FileInv
<1> QED
  BY <1>1, FileHeld, PTL

(* Of the samples taken before a dummy row was written at most one can be  *)
(* written after it, the one that the sensor thread then had in hand.      *)
THEOREM DummyRowsStayInOrder == Spec => DummyRowsInOrder
<1>1. /\ TypeOK /\ CountInv /\ DataInv /\ DummyInv /\ [Next]_vars
      => [rows' # rows /\ MutexAlive => data >= dummyMark]_vars
  <2> SUFFICES ASSUME TypeOK, CountInv, DataInv, DummyInv, [Next]_vars,
                      rows' # rows, MutexAlive
               PROVE  data >= dummyMark
    OBVIOUS
  <2>1. lpc = "print"
    BY DEF Next, SensorStep, LoggerStep, ListenerStep, SignalStep, ReadMpu, ReadAk, SensorLock, StoreSample, DropSample, CountSample,
           SensorUnlock, InitLogger, LoggerLock, PeekSample, PollEmpty,
           PrintDummyRow, EnsureFile, RollFile, PrintRow, CrashOnClosedFile,
           LoseRow, SendMessage, PopSample, LoggerUnlock, StartCommand,
           StopCommand, SignalFclose, SignalForgetFile, SignalRemoveQueue,
           SignalDestroyMutex, SignalExit, DayPasses, ReceiveMessage
  <2>2. 0 \in Live /\ data = At(0) /\ dummyMark <= At(0)
    BY <2>1 DEF CountInv, DataInv, DummyInv, Live, TypeOK
  <2> QED
    BY <2>2 DEF TypeOK
<1> QED
  BY <1>1, Typing, DataHeld, DummyHeld, PTL DEF Spec, DummyRowsInOrder

(* The ring, its mutex and the two threads implement the bounded queue of  *)
(* SampleQueue until handle_signal destroys the mutex.                     *)
THEOREM RingImplementsQueue == Spec => ImplementsSampleQueue
<1>1. Init => Abstract!Init
  BY DEF Init, Abstract!Init, Window
<1>2. /\ TypeOK /\ CountInv /\ DataInv /\ [Next]_vars
      => [Abstract!Next \/ ~MutexAlive]_(Abstract!vars)
  BY QueueStep
<1> QED
  BY <1>1, <1>2, Typing, DataHeld, PTL DEF Spec, ImplementsSampleQueue
=============================================================================
