------------------------- MODULE VideoProcessProofs -------------------------
(***************************************************************************)
(* Theorems about VideoProcess, for queues of any size and any number of   *)
(* starts and kills of both processes: types, one holder of a semaphore,   *)
(* no use of what was released, what main leaves behind, no separation of  *)
(* the two processes by a kill, and no frame shown in parts.               *)
(***************************************************************************)
EXTENDS VideoProcess, SequenceTheorems, FiniteSetTheorems, TLAPS

USE DEF attachments

(* Steps of main during which it has the memory attached, the semaphore    *)
(* open, or either of them to be found under its key or name.              *)
Attached == {"create", "sem", "record", "play", "monitor", "join", "null",
             "drain", "close", "unlink", "detach"}
Opened   == {"record", "play", "monitor", "join", "null", "drain", "close"}
HasKey   == Attached \cup {"attach", "destroy"}
HasName  == Opened \cup {"unlink"}

(* What main has at each of its steps.                                     *)
RecMatches ==
  /\ rec.seg = IF main \in Attached THEN had.seg ELSE None
  /\ rec.sem = IF main \in Opened THEN had.sem ELSE None
  /\ main \in HasKey => had.seg # None /\ key = had.seg
  /\ main \in HasName => had.sem # None /\ name = had.sem

(* What it has not got yet, and what cannot be found any more.             *)
NotYetOrGone ==
  /\ main \in {"config", "shm"} => had = NoObjects
  /\ main \in {"attach", "create", "sem"} => had.sem = None
  /\ main = "returned" /\ had.seg # None => key # had.seg
  /\ main \in {"detach", "destroy", "returned"} /\ had.sem # None =>
       name # had.sem

(* Frames flow, and are copied, only while main has everything.            *)
StreamInv ==
  /\ playing => main \in {"monitor", "join", "null"}
  /\ stream # "idle" => main \in {"monitor", "join", "null", "drain"}

(* The segment of the recording control, attached from init_record_control *)
(* to cleanup_pipeline and found ever after.                               *)
Controls == {"play", "monitor", "join", "null", "drain", "close", "unlink"}
ControlMatches ==
  /\ main \in Controls <=> record_control = "attached"
  /\ main \in {"detach", "destroy", "returned"} /\ had.sem # None =>
       record_control = "found"

MainInv == RecMatches /\ NotYetOrGone /\ ControlMatches /\ StreamInv

(* The user interface has opened what it uses, and what it has opened can  *)
(* still be found unless something was removed.                            *)
UiInv ==
  /\ display = "down" => ui = NoObjects
  /\ display \in {"ready", "read", "readRest", "post"} =>
       ui.seg # None /\ ui.sem # None
  /\ ~removed /\ ui.seg # None => key = ui.seg
  /\ ~removed /\ ui.sem # None => name = ui.sem

(* OneHolder, counted.                                                     *)
Count(holds) == IF holds THEN 1 ELSE 0
Holders(id) == Count(RecHolds(id)) + Count(UiHolds(id)) + Count(id \in lost)
HoldInv == \A id \in DOMAIN semaphore : Holders(id) = 1 - semaphore[id]

VideoInv == TypeOK /\ MainInv /\ UiInv /\ HoldInv
-----------------------------------------------------------------------------
(* A segment that is had is the one under the key from then on; it is new  *)
(* only if there was none.                                                 *)
LEMMA Segments ==
  ASSUME TypeOK, NEW id \in 1..(Len(segment) + 1), GetSegment(id)
  PROVE  /\ segment' \in Seq((Frames \cup {Blank}) \X (Frames \cup {Blank}))
         /\ Len(segment') \in Nat /\ Len(segment) \in Nat
         /\ Len(segment) <= Len(segment')
         /\ id \in 1..Len(segment') /\ id # None /\ key' = id
         /\ key # None => id = key
         /\ key = None => id = Len(segment) + 1
<1>1. CASE key # None /\ id = key /\ UNCHANGED <<segment, key>>
  BY <1>1 DEF TypeOK, None
<1>2. CASE /\ key = None /\ id = Len(segment) + 1
           /\ segment' = Append(segment, <<Blank, Blank>>)
           /\ key' = id
  <2>1. <<Blank, Blank>> \in (Frames \cup {Blank}) \X (Frames \cup {Blank})
    BY DEF Blank
  <2> QED
    BY <1>2, <2>1 DEF TypeOK, None
<1> QED
  BY <1>1, <1>2 DEF GetSegment

(* The same of semaphores; a new one is free, the others keep their value. *)
LEMMA Semaphores ==
  ASSUME TypeOK, NEW id \in 1..(Len(semaphore) + 1), OpenSemaphore(id)
  PROVE  /\ semaphore' \in Seq({0, 1})
         /\ Len(semaphore') \in Nat /\ Len(semaphore) \in Nat
         /\ Len(semaphore) <= Len(semaphore')
         /\ id \in 1..Len(semaphore') /\ id # None /\ name' = id
         /\ name # None => id = name
         /\ name = None => id = Len(semaphore) + 1
         /\ \A j \in DOMAIN semaphore' :
              IF j \in DOMAIN semaphore THEN semaphore'[j] = semaphore[j]
              ELSE semaphore'[j] = 1
<1>1. CASE name # None /\ id = name /\ UNCHANGED <<semaphore, name>>
  BY <1>1 DEF TypeOK, None
<1>2. CASE /\ name = None /\ id = Len(semaphore) + 1
           /\ semaphore' = Append(semaphore, 1)
           /\ name' = id
  BY <1>2 DEF TypeOK, None
<1> QED
  BY <1>1, <1>2 DEF OpenSemaphore
-----------------------------------------------------------------------------
(* TypeOK in the parts that different steps change.                        *)
KernelType ==
  /\ segment \in Seq((Frames \cup {Blank}) \X (Frames \cup {Blank}))
  /\ semaphore \in Seq({0, 1})
  /\ key \in 0..Len(segment) /\ name \in 0..Len(semaphore)
HandleType ==
  /\ rec \in Objects /\ ui \in Objects /\ had \in Objects
  /\ lost \subseteq 1..Len(semaphore)
MainType ==
  /\ main \in StartPC \cup EndPC \cup {"down", "monitor", "returned", "exited"}
  /\ control \in {"none", "running", "exited"}
  /\ record_control \in {"missing", "found", "attached"}
  /\ bus \in BOOLEAN /\ starts \in Nat
StreamType ==
  /\ stream \in {"idle", "wait", "copy", "copyRest", "post"}
  /\ playing \in BOOLEAN
  /\ frame \in Frames
  /\ app_queue \in Seq(Frames) /\ Len(app_queue) <= MAX_BUFFERS
  /\ enc_queue \in 0..MAX_BUFFERS
  /\ map \in Frames \cup {Blank}
ReaderType ==
  /\ display \in {"down", "open", "ready", "read", "readRest", "post"}
  /\ shown \in (Frames \cup {Blank}) \X (Frames \cup {Blank})
  /\ removed \in BOOLEAN /\ cut \in BOOLEAN /\ uiStarts \in Nat

LEMMA TypeParts ==
  TypeOK <=> KernelType /\ HandleType /\ MainType /\ StreamType /\ ReaderType
BY DEF TypeOK, KernelType, HandleType, MainType, StreamType, ReaderType

(* Which steps change what.                                                *)
LEMMA KernelFrame ==
  [Next]_vars =>
    \/ CreateShm \/ InitSemaphore \/ Unlink \/ DestroyShm
    \/ SemWait \/ CopyFirst \/ CopyRest \/ SemPost
    \/ UiOpenSemaphore \/ UiAttach \/ UiWait \/ UiPost
    \/ UNCHANGED kernel
BY DEF Next, MainStep, StartUp, CleanUp, OnNewSample, UiReading, vars, kernel,
   StartProcess, LoadConfig, AttachShm, CreatePipeline, InitRecordControl, Play,
   Monitor, JoinThread, Flush, Drain, CloseSemaphore, DetachShm, KillProcess,
   Camera, Encode, NewSample, PipelineError, StartUi, UiReadFirst, UiReadRest,
   KillUi

LEMMA HandleFrame ==
  [Next]_vars =>
    \/ StartProcess \/ CreateShm \/ AttachShm \/ InitSemaphore
    \/ InitRecordControl \/ CloseSemaphore \/ DetachShm \/ KillProcess
    \/ UiOpenSemaphore \/ UiAttach \/ KillUi
    \/ UNCHANGED <<rec, ui, had, lost>>
BY DEF Next, MainStep, StartUp, CleanUp, OnNewSample, UiReading, vars, reader,
   history, LoadConfig, CreatePipeline, Play, Monitor, JoinThread, Flush, Drain,
   Unlink, DestroyShm, Camera, Encode, NewSample, SemWait, CopyFirst, CopyRest,
   SemPost, PipelineError, StartUi, UiWait, UiReadFirst, UiReadRest, UiPost

LEMMA MainFrame ==
  [Next]_vars =>
    \/ StartProcess \/ MainStep \/ KillProcess \/ PipelineError
    \/ UNCHANGED <<main, control, record_control, bus, starts>>
BY DEF Next, OnNewSample, UiReading, vars, history, Camera, Encode, NewSample,
   SemWait, CopyFirst, CopyRest, SemPost, StartUi, UiOpenSemaphore, UiAttach,
   UiWait, UiReadFirst, UiReadRest, UiPost, KillUi

LEMMA StreamFrame ==
  [Next]_vars =>
    \/ Play \/ Flush \/ KillProcess \/ Camera \/ Encode \/ OnNewSample \/ SemWait
    \/ UNCHANGED <<pipeline, copying>>
BY DEF Next, MainStep, StartUp, CleanUp, UiReading, vars, StartProcess,
   LoadConfig, CreateShm, AttachShm, CreatePipeline, InitSemaphore,
   InitRecordControl, Monitor, JoinThread, Drain, CloseSemaphore, Unlink,
   DetachShm, DestroyShm, PipelineError, StartUi, UiOpenSemaphore, UiAttach,
   UiWait, UiReadFirst, UiReadRest, UiPost, KillUi

LEMMA ReaderFrame ==
  [Next]_vars =>
    \/ Unlink \/ DestroyShm \/ KillProcess
    \/ StartUi \/ UiOpenSemaphore \/ UiAttach \/ UiWait \/ UiReading \/ KillUi
    \/ UNCHANGED <<display, shown, removed, cut, uiStarts>>
BY DEF Next, MainStep, StartUp, CleanUp, OnNewSample, vars, reader, history,
   StartProcess, LoadConfig, CreateShm, AttachShm, CreatePipeline, InitSemaphore,
   InitRecordControl, Play, Monitor, JoinThread, Flush, Drain, CloseSemaphore,
   DetachShm, Camera, Encode, NewSample, SemWait, CopyFirst, CopyRest, SemPost,
   PipelineError

-----------------------------------------------------------------------------
(* While a frame is copied, and while the user interface reads one, the    *)
(* segment and the semaphore in use exist.                                 *)
LEMMA CopierHas ==
  ASSUME TypeOK, MainInv, stream # "idle"
  PROVE  rec.seg \in 1..Len(segment) /\ rec.sem \in 1..Len(semaphore)
<1>1. main \in Attached /\ main \in Opened /\ main \in HasKey /\ main \in HasName
  BY DEF MainInv, StreamInv, Attached, Opened, HasKey, HasName
<1>2. rec.seg # None /\ rec.sem # None
  BY <1>1 DEF MainInv, RecMatches
<1>3. rec.seg \in 0..Len(segment) /\ rec.sem \in 0..Len(semaphore)
  BY DEF TypeOK, Objects
<1> QED
  BY <1>2, <1>3 DEF None

LEMMA ReaderHas ==
  ASSUME TypeOK, UiInv, display \in {"ready", "read", "readRest", "post"}
  PROVE  ui.seg \in 1..Len(segment) /\ ui.sem \in 1..Len(semaphore)
<1>1. ui.seg # None /\ ui.sem # None
  BY DEF UiInv
<1>2. ui.seg \in 0..Len(segment) /\ ui.sem \in 0..Len(semaphore)
  BY DEF TypeOK, Objects
<1> QED
  BY <1>1, <1>2 DEF None

(* Taking a semaphore that is free, and posting one that is held.          *)
LEMMA Downs ==
  ASSUME TypeOK, NEW id \in 1..Len(semaphore), semaphore[id] > 0, Down(id)
  PROVE  /\ semaphore' \in Seq({0, 1}) /\ Len(semaphore') = Len(semaphore)
         /\ semaphore[id] = 1 /\ semaphore'[id] = 0
         /\ \A j \in 1..Len(semaphore) : j # id => semaphore'[j] = semaphore[j]
<1>1. semaphore \in Seq({0, 1})
  BY DEF TypeOK
<1>2. semaphore[id] = 1
  BY <1>1
<1>3. semaphore' = [semaphore EXCEPT ![id] = 0]
  BY <1>2 DEF Down
<1> QED
  BY <1>1, <1>2, <1>3, ExceptSeq

LEMMA Ups ==
  ASSUME TypeOK, NEW id \in 1..Len(semaphore), semaphore[id] = 0, Up(id)
  PROVE  /\ semaphore' \in Seq({0, 1}) /\ Len(semaphore') = Len(semaphore)
         /\ semaphore'[id] = 1
         /\ \A j \in 1..Len(semaphore) : j # id => semaphore'[j] = semaphore[j]
<1>1. semaphore \in Seq({0, 1})
  BY DEF TypeOK
<1>2. semaphore' = [semaphore EXCEPT ![id] = 1]
  BY DEF Up
<1> QED
  BY <1>1, <1>2, ExceptSeq

-----------------------------------------------------------------------------
(* The kernel's objects.  A semaphore stays 0 or 1 because only a holder   *)
(* posts it.                                                               *)
LEMMA KernelStep ==
  TypeOK /\ MainInv /\ UiInv /\ HoldInv /\ [Next]_vars => KernelType'
<1> SUFFICES ASSUME TypeOK, MainInv, UiInv, HoldInv, [Next]_vars
             PROVE  KernelType'
  OBVIOUS
<1> USE DEF KernelType
<1>0. KernelType /\ HandleType /\ StreamType /\ ReaderType
  BY TypeParts
<1>1. CASE CreateShm
  <2>1. UNCHANGED <<semaphore, name>>
    BY <1>1 DEF CreateShm
  <2>2. CASE UNCHANGED <<segment, key>>
    BY <1>0, <2>1, <2>2
  <2>3. CASE \E id \in 1..(Len(segment) + 1) : GetSegment(id)
    <3>1. PICK id \in 1..(Len(segment) + 1) : GetSegment(id)
      BY <2>3
    <3>2. /\ segment' \in Seq((Frames \cup {Blank}) \X (Frames \cup {Blank}))
          /\ key' \in 1..Len(segment')
      BY <3>1, Segments
    <3> QED
      BY <1>0, <2>1, <3>2
  <2> QED
    BY <1>1, <2>2, <2>3 DEF CreateShm
<1>2. CASE InitSemaphore
  <2>1. UNCHANGED <<segment, key>>
    BY <1>2 DEF InitSemaphore
  <2>2. CASE UNCHANGED <<semaphore, name>>
    BY <1>0, <2>1, <2>2
  <2>3. CASE \E id \in 1..(Len(semaphore) + 1) : OpenSemaphore(id)
    <3>1. PICK id \in 1..(Len(semaphore) + 1) : OpenSemaphore(id)
      BY <2>3
    <3>2. semaphore' \in Seq({0, 1}) /\ name' \in 1..Len(semaphore')
      BY <3>1, Semaphores
    <3> QED
      BY <1>0, <2>1, <3>2
  <2> QED
    BY <1>2, <2>2, <2>3 DEF InitSemaphore
<1>3. CASE Unlink
  BY <1>0, <1>3 DEF Unlink, UnlinkSemaphore, None
<1>4. CASE DestroyShm
  BY <1>0, <1>4 DEF DestroyShm, None
<1>5. CASE SemWait
  <2>1. rec.sem \in 1..Len(semaphore) /\ semaphore[rec.sem] > 0 /\ Down(rec.sem)
    BY <1>5, CopierHas DEF SemWait
  <2>2. semaphore' \in Seq({0, 1}) /\ Len(semaphore') = Len(semaphore)
    BY <2>1, Downs
  <2> QED
    BY <1>0, <1>5, <2>2 DEF SemWait
<1>6. CASE CopyFirst
  <2> DEFINE halves == [segment[rec.seg] EXCEPT ![1] = map]
  <2>1. rec.seg \in 1..Len(segment)
    BY <1>6, CopierHas DEF CopyFirst
  <2>2. halves \in (Frames \cup {Blank}) \X (Frames \cup {Blank})
    <3>1. segment[rec.seg] \in (Frames \cup {Blank}) \X (Frames \cup {Blank})
      BY <1>0, <2>1
    <3>2. halves = <<map, segment[rec.seg][2]>>
      BY <3>1
    <3> QED
      BY <1>0, <3>1, <3>2 DEF StreamType
  <2>3. segment' = [segment EXCEPT ![rec.seg] = halves]
    BY <1>6 DEF CopyFirst
  <2>4. /\ segment' \in Seq((Frames \cup {Blank}) \X (Frames \cup {Blank}))
        /\ Len(segment') = Len(segment)
    BY <1>0, <2>1, <2>2, <2>3, ExceptSeq
  <2> QED
    BY <1>0, <1>6, <2>4 DEF CopyFirst
<1>7. CASE CopyRest
  <2> DEFINE halves == [segment[rec.seg] EXCEPT ![2] = map]
  <2>1. rec.seg \in 1..Len(segment)
    BY <1>7, CopierHas DEF CopyRest
  <2>2. halves \in (Frames \cup {Blank}) \X (Frames \cup {Blank})
    <3>1. segment[rec.seg] \in (Frames \cup {Blank}) \X (Frames \cup {Blank})
      BY <1>0, <2>1
    <3>2. halves = <<segment[rec.seg][1], map>>
      BY <3>1
    <3> QED
      BY <1>0, <3>1, <3>2 DEF StreamType
  <2>3. segment' = [segment EXCEPT ![rec.seg] = halves]
    BY <1>7 DEF CopyRest
  <2>4. /\ segment' \in Seq((Frames \cup {Blank}) \X (Frames \cup {Blank}))
        /\ Len(segment') = Len(segment)
    BY <1>0, <2>1, <2>2, <2>3, ExceptSeq
  <2> QED
    BY <1>0, <1>7, <2>4 DEF CopyRest
<1>8. CASE SemPost
  <2>1. RecHolds(rec.sem) /\ rec.sem \in 1..Len(semaphore) /\ Up(rec.sem)
    BY <1>8, CopierHas DEF SemPost, RecHolds
  <2>2. semaphore[rec.sem] = 0
    BY <1>0, <2>1 DEF HoldInv, Holders, Count
  <2>3. semaphore' \in Seq({0, 1}) /\ Len(semaphore') = Len(semaphore)
    BY <2>1, <2>2, Ups
  <2> QED
    BY <1>0, <1>8, <2>3 DEF SemPost
<1>9. CASE UiOpenSemaphore
  <2>1. PICK id \in 1..(Len(semaphore) + 1) : OpenSemaphore(id)
    BY <1>9 DEF UiOpenSemaphore
  <2>2. semaphore' \in Seq({0, 1}) /\ name' \in 1..Len(semaphore')
    BY <2>1, Semaphores
  <2> QED
    BY <1>0, <1>9, <2>2 DEF UiOpenSemaphore
<1>10. CASE UiAttach
  <2>1. PICK id \in 1..(Len(segment) + 1) : GetSegment(id)
    BY <1>10 DEF UiAttach
  <2>2. /\ segment' \in Seq((Frames \cup {Blank}) \X (Frames \cup {Blank}))
        /\ key' \in 1..Len(segment')
    BY <2>1, Segments
  <2> QED
    BY <1>0, <1>10, <2>2 DEF UiAttach
<1>11. CASE UiWait
  <2>1. ui.sem \in 1..Len(semaphore) /\ semaphore[ui.sem] > 0 /\ Down(ui.sem)
    BY <1>11, ReaderHas DEF UiWait
  <2>2. semaphore' \in Seq({0, 1}) /\ Len(semaphore') = Len(semaphore)
    BY <2>1, Downs
  <2> QED
    BY <1>0, <1>11, <2>2 DEF UiWait
<1>12. CASE UiPost
  <2>1. UiHolds(ui.sem) /\ ui.sem \in 1..Len(semaphore) /\ Up(ui.sem)
    BY <1>12, ReaderHas DEF UiPost, UiHolds
  <2>2. semaphore[ui.sem] = 0
    BY <1>0, <2>1 DEF HoldInv, Holders, Count
  <2>3. semaphore' \in Seq({0, 1}) /\ Len(semaphore') = Len(semaphore)
    BY <2>1, <2>2, Ups
  <2> QED
    BY <1>0, <1>12, <2>3 DEF UiPost
<1>13. CASE UNCHANGED kernel
  BY <1>0, <1>13 DEF kernel
<1> QED
  BY <1>1, <1>2, <1>3, <1>4, <1>5, <1>6, <1>7, <1>8, <1>9, <1>10, <1>11,
     <1>12, <1>13, KernelFrame

(* Nothing that exists ever goes away from the kernel's tables.            *)
LEMMA TablesGrow ==
  TypeOK /\ [Next]_vars =>
    Len(segment) <= Len(segment') /\ Len(semaphore) <= Len(semaphore')
<1> SUFFICES ASSUME TypeOK, [Next]_vars
             PROVE  Len(segment) <= Len(segment') /\ Len(semaphore) <= Len(semaphore')
  OBVIOUS
<1>0. KernelType
  BY TypeParts
<1> USE DEF KernelType
<1>1. CASE CreateShm \/ UiAttach
  <2>1. UNCHANGED semaphore
    BY <1>1 DEF CreateShm, UiAttach
  <2>2. CASE UNCHANGED segment
    BY <1>0, <2>1, <2>2
  <2>3. CASE \E id \in 1..(Len(segment) + 1) : GetSegment(id)
    BY <1>0, <2>1, <2>3, Segments
  <2> QED
    BY <1>1, <2>2, <2>3 DEF CreateShm, UiAttach
<1>2. CASE InitSemaphore \/ UiOpenSemaphore
  <2>1. UNCHANGED segment
    BY <1>2 DEF InitSemaphore, UiOpenSemaphore
  <2>2. CASE UNCHANGED semaphore
    BY <1>0, <2>1, <2>2
  <2>3. CASE \E id \in 1..(Len(semaphore) + 1) : OpenSemaphore(id)
    BY <1>0, <2>1, <2>3, Semaphores
  <2> QED
    BY <1>2, <2>2, <2>3 DEF InitSemaphore, UiOpenSemaphore
<1>3. CASE UNCHANGED <<segment, semaphore>>
  BY <1>0, <1>3
<1>4. CASE CopyFirst \/ CopyRest
  BY <1>0, <1>4 DEF CopyFirst, CopyRest
<1>5. CASE SemWait \/ SemPost \/ UiWait \/ UiPost
  BY <1>0, <1>5 DEF SemWait, SemPost, UiWait, UiPost, Down, Up
<1> QED
  BY <1>1, <1>2, <1>3, <1>4, <1>5, KernelFrame DEF Unlink, DestroyShm, kernel

(* What the processes have, and what was lost, is in those tables.         *)
LEMMA HandleStep == TypeOK /\ [Next]_vars => HandleType'
<1> SUFFICES ASSUME TypeOK, [Next]_vars PROVE HandleType'
  OBVIOUS
<1>0. KernelType /\ HandleType /\ Len(segment) \in Nat /\ Len(semaphore) \in Nat
  BY TypeParts DEF KernelType
<1>1. /\ 0..Len(segment) \subseteq 0..Len(segment')
      /\ 0..Len(semaphore) \subseteq 0..Len(semaphore')
      /\ 1..Len(semaphore) \subseteq 1..Len(semaphore')
      /\ 0 \in 0..Len(segment) /\ 0 \in 0..Len(semaphore)
  BY <1>0, TablesGrow
<1>2. Objects \subseteq Objects' /\ NoObjects \in Objects /\ NoObjects \in Objects'
  BY <1>1 DEF Objects, NoObjects, None
<1>3. rec \in Objects' /\ ui \in Objects' /\ had \in Objects'
      /\ lost \subseteq 1..Len(semaphore')
  BY <1>0, <1>1, <1>2 DEF HandleType
<1> USE DEF HandleType
<1>4. CASE StartProcess
  BY <1>2, <1>3, <1>4 DEF StartProcess, reader
<1>5. CASE CreateShm
  <2>1. UNCHANGED <<rec, ui, lost>>
    BY <1>5 DEF CreateShm, reader
  <2>2. CASE UNCHANGED had
    BY <1>3, <2>1, <2>2
  <2>3. CASE \E id \in 1..(Len(segment) + 1) :
               GetSegment(id) /\ had' = [had EXCEPT !.seg = id]
    <3>1. PICK id \in 1..(Len(segment) + 1) :
            GetSegment(id) /\ had' = [had EXCEPT !.seg = id]
      BY <2>3
    <3>2. id \in 0..Len(segment')
      BY <3>1, Segments
    <3>3. had' \in Objects'
      BY <1>3, <3>1, <3>2 DEF Objects
    <3> QED
      BY <1>3, <2>1, <3>3
  <2> QED
    BY <1>5, <2>2, <2>3 DEF CreateShm
<1>6. CASE AttachShm
  <2>1. UNCHANGED <<ui, had, lost>> /\ rec' \in {rec, [rec EXCEPT !.seg = had.seg]}
    BY <1>6 DEF AttachShm, reader, history
  <2> QED
    BY <1>3, <2>1 DEF Objects
<1>7. CASE InitSemaphore
  <2>1. UNCHANGED <<ui, lost>>
    BY <1>7 DEF InitSemaphore, reader
  <2>2. CASE rec' = NoObjects /\ UNCHANGED had
    BY <1>2, <1>3, <2>1, <2>2
  <2>3. CASE \E id \in 1..(Len(semaphore) + 1) :
               /\ OpenSemaphore(id)
               /\ rec' = [rec EXCEPT !.sem = id]
               /\ had' = [had EXCEPT !.sem = id]
    <3>1. PICK id \in 1..(Len(semaphore) + 1) :
               /\ OpenSemaphore(id)
               /\ rec' = [rec EXCEPT !.sem = id]
               /\ had' = [had EXCEPT !.sem = id]
      BY <2>3
    <3>2. id \in 0..Len(semaphore')
      BY <3>1, Semaphores
    <3>3. had' \in Objects' /\ rec' \in Objects'
      BY <1>3, <3>1, <3>2 DEF Objects
    <3> QED
      BY <1>3, <2>1, <3>3
  <2> QED
    BY <1>7, <2>2, <2>3 DEF InitSemaphore
<1>8. CASE InitRecordControl
  BY <1>2, <1>3, <1>8 DEF InitRecordControl, reader, history
<1>9. CASE CloseSemaphore \/ DetachShm
  <2>1. /\ rec' \in {[rec EXCEPT !.sem = None], [rec EXCEPT !.seg = None]}
        /\ UNCHANGED <<ui, had, lost>>
    BY <1>9 DEF CloseSemaphore, DetachShm, reader, history
  <2> QED
    BY <1>1, <1>3, <2>1 DEF Objects, None
<1>10. CASE KillProcess
  <2>1. /\ rec' = NoObjects /\ UNCHANGED <<ui, had, semaphore>>
        /\ lost' \subseteq lost \cup DOMAIN semaphore
    BY <1>10 DEF KillProcess, reader, kernel
  <2> QED
    BY <1>0, <1>2, <1>3, <2>1 DEF HandleType, KernelType
<1>11. CASE KillUi
  <2>1. /\ ui' = NoObjects /\ UNCHANGED <<rec, had, semaphore>>
        /\ lost' \subseteq lost \cup DOMAIN semaphore
    BY <1>11 DEF KillUi, kernel
  <2> QED
    BY <1>0, <1>2, <1>3, <2>1 DEF HandleType, KernelType
<1>12. CASE UiOpenSemaphore
  <2>1. PICK id \in 1..(Len(semaphore) + 1) :
          OpenSemaphore(id) /\ ui' = [ui EXCEPT !.sem = id]
    BY <1>12 DEF UiOpenSemaphore
  <2>2. id \in 0..Len(semaphore') /\ UNCHANGED <<rec, had, lost>>
    BY <1>12, <2>1, Semaphores DEF UiOpenSemaphore, history
  <2> QED
    BY <1>3, <2>1, <2>2 DEF Objects
<1>13. CASE UiAttach
  <2>1. PICK id \in 1..(Len(segment) + 1) :
          GetSegment(id) /\ ui' = [ui EXCEPT !.seg = id]
    BY <1>13 DEF UiAttach
  <2>2. id \in 0..Len(segment') /\ UNCHANGED <<rec, had, lost>>
    BY <1>13, <2>1, Segments DEF UiAttach, history
  <2> QED
    BY <1>3, <2>1, <2>2 DEF Objects
<1>14. CASE UNCHANGED <<rec, ui, had, lost>>
  BY <1>3, <1>14
<1> QED
  BY <1>4, <1>5, <1>6, <1>7, <1>8, <1>9, <1>10, <1>11, <1>12, <1>13, <1>14,
     HandleFrame

LEMMA MainTypeStep == TypeOK /\ [Next]_vars => MainType'
<1> SUFFICES ASSUME TypeOK, [Next]_vars PROVE MainType'
  OBVIOUS
<1>0. MainType
  BY TypeParts
<1> USE DEF MainType, StartPC, EndPC
<1>1. CASE StartProcess
  <2>1. main' = "config" /\ control' = "none" /\ bus' = FALSE
    BY <1>1 DEF StartProcess
  <2>2. starts' \in Nat /\ UNCHANGED record_control
    BY <1>0, <1>1 DEF StartProcess
  <2> QED
    BY <1>0, <2>1, <2>2
<1>2. CASE StartUp
  <2>1. CASE Play
    BY <1>0, <2>1 DEF Play, Goto, history
  <2>2. CASE CreateShm
    BY <1>0, <2>2 DEF CreateShm, Goto
  <2>3. CASE InitSemaphore
    BY <1>0, <2>3 DEF InitSemaphore, Goto
  <2>4. CASE LoadConfig \/ AttachShm \/ CreatePipeline \/ InitRecordControl
    BY <1>0, <2>4 DEF LoadConfig, AttachShm, CreatePipeline, InitRecordControl,
       Goto, history
  <2> QED
    BY <1>2, <2>1, <2>2, <2>3, <2>4 DEF StartUp
<1>3. CASE CleanUp
  BY <1>0, <1>3 DEF CleanUp, Monitor, JoinThread, Flush, Drain, CloseSemaphore,
     Unlink, DetachShm, DestroyShm, Goto, history
<1>4. CASE KillProcess \/ PipelineError
  BY <1>0, <1>4 DEF KillProcess, PipelineError, history
<1>5. CASE UNCHANGED <<main, control, record_control, bus, starts>>
  BY <1>0, <1>5
<1> QED
  BY <1>1, <1>2, <1>3, <1>4, <1>5, MainFrame DEF MainStep

LEMMA EmptyFits ==
  <<>> \in Seq(Frames) /\ Len(<<>>) <= MAX_BUFFERS /\ 0 \in 0..MAX_BUFFERS
BY VideoAssumption

LEMMA StreamTypeStep == TypeOK /\ [Next]_vars => StreamType'
<1> SUFFICES ASSUME TypeOK, [Next]_vars PROVE StreamType'
  OBVIOUS
<1>0. StreamType /\ MAX_BUFFERS \in Nat /\ MAX_BUFFERS > 0
  BY TypeParts, VideoAssumption
<1> USE DEF StreamType
<1>1. CASE Play
  BY <1>0, <1>1 DEF Play, copying
<1>2. CASE Flush
  <2>1. /\ playing' = FALSE /\ app_queue' = <<>> /\ enc_queue' = 0
        /\ UNCHANGED <<frame, stream, map>>
    BY <1>2 DEF Flush, copying
  <2> QED
    BY <1>0, <2>1, EmptyFits
<1>3. CASE KillProcess
  <2>1. /\ playing' = FALSE /\ frame' = 0 /\ app_queue' = <<>> /\ enc_queue' = 0
        /\ stream' = "idle" /\ map' = Blank
    BY <1>3 DEF KillProcess
  <2> QED
    BY <1>0, <2>1, EmptyFits DEF Frames
<1>4. CASE Camera
  <2>1. app_queue' \in Seq(Frames) /\ Len(app_queue') <= MAX_BUFFERS
    BY <1>0, <1>4 DEF Camera, PushLeaky
  <2>2. enc_queue' \in 0..MAX_BUFFERS
    BY <1>0, <1>4 DEF Camera
  <2>3. frame' \in Frames
    BY <1>0, <1>4 DEF Camera, Frames
  <2> QED
    BY <1>0, <1>4, <2>1, <2>2, <2>3 DEF Camera, copying
<1>5. CASE Encode
  BY <1>0, <1>5 DEF Encode, copying
<1>6. CASE NewSample
  <2>1. app_queue' \in Seq(Frames) /\ Len(app_queue') <= MAX_BUFFERS
    BY <1>0, <1>6 DEF NewSample
  <2>2. Head(app_queue) \in Frames
    BY <1>0, <1>6 DEF NewSample
  <2> QED
    BY <1>0, <1>6, <2>1, <2>2 DEF NewSample
<1>7. CASE SemWait \/ CopyFirst \/ CopyRest \/ SemPost
  BY <1>0, <1>7 DEF SemWait, CopyFirst, CopyRest, SemPost, pipeline
<1>8. CASE UNCHANGED <<pipeline, copying>>
  BY <1>0, <1>8 DEF pipeline, copying
<1> QED
  BY <1>1, <1>2, <1>3, <1>4, <1>5, <1>6, <1>7, <1>8, StreamFrame DEF OnNewSample

LEMMA ReaderStep ==
  TypeOK /\ UiInv /\ [Next]_vars => ReaderType'
<1> SUFFICES ASSUME TypeOK, UiInv, [Next]_vars PROVE ReaderType'
  OBVIOUS
<1>0. ReaderType /\ KernelType /\ HandleType
  BY TypeParts
<1> USE DEF ReaderType
<1>1. CASE Unlink
  BY <1>0, <1>1 DEF Unlink, reader, Unsafe, HandleType
<1>2. CASE DestroyShm
  BY <1>0, <1>2 DEF DestroyShm, reader, Unsafe, HandleType
<1>3. CASE KillProcess
  BY <1>0, <1>3 DEF KillProcess, reader
<1>4. CASE StartUi
  <2>1. UNCHANGED <<shown, cut>> /\ display' = "open" /\ removed' = FALSE
    BY <1>4 DEF StartUi
  <2>2. uiStarts' \in Nat
    BY <1>0, <1>4 DEF StartUi
  <2> QED
    BY <1>0, <2>1, <2>2
<1>5. CASE UiOpenSemaphore \/ UiAttach \/ UiWait \/ UiPost
  BY <1>0, <1>5 DEF UiOpenSemaphore, UiAttach, UiWait, UiPost, history
<1>6. CASE UiReadFirst \/ UiReadRest
  <2>1. segment[ui.seg] \in (Frames \cup {Blank}) \X (Frames \cup {Blank})
    BY <1>0, <1>6, ReaderHas DEF UiReadFirst, UiReadRest, KernelType
  <2> QED
    BY <1>0, <1>6, <2>1 DEF UiReadFirst, UiReadRest, history
<1>7. CASE KillUi
  BY <1>0, <1>7 DEF KillUi
<1>8. CASE UNCHANGED <<display, shown, removed, cut, uiStarts>>
  BY <1>0, <1>8
<1> QED
  BY <1>1, <1>2, <1>3, <1>4, <1>5, <1>6, <1>7, <1>8, ReaderFrame DEF UiReading

LEMMA TypeStep ==
  TypeOK /\ MainInv /\ UiInv /\ HoldInv /\ [Next]_vars => TypeOK'
<1> SUFFICES ASSUME TypeOK, MainInv, UiInv, HoldInv, [Next]_vars
             PROVE  TypeOK'
  OBVIOUS
<1>1. KernelType' /\ HandleType' /\ MainType' /\ StreamType' /\ ReaderType'
  BY KernelStep, HandleStep, MainTypeStep, StreamTypeStep, ReaderStep
<1> QED
  BY <1>1 DEF TypeOK, KernelType, HandleType, MainType, StreamType, ReaderType
-----------------------------------------------------------------------------
(* What the steps of the others leave alone: they never take a key or name *)
(* away, and never change it once it is there.                             *)
LEMMA MainAlone ==
  [Next]_vars =>
    \/ StartProcess \/ MainStep \/ KillProcess \/ UiOpenSemaphore \/ UiAttach
    \/ UNCHANGED <<main, attachments, had, key, name, playing>>
BY DEF Next, OnNewSample, UiReading, vars, kernel, pipeline, history, Camera,
   Encode, NewSample, SemWait, CopyFirst, CopyRest, SemPost, PipelineError,
   StartUi, UiWait, UiReadFirst, UiReadRest, UiPost, KillUi

(* The memory, while the key is set up, used and given back.               *)
KeyMatches ==
  /\ rec.seg = IF main \in Attached THEN had.seg ELSE None
  /\ main \in HasKey => had.seg # None /\ key = had.seg
  /\ main \in {"config", "shm"} => had = NoObjects
  /\ main = "returned" /\ had.seg # None => key # had.seg

(* The semaphore likewise.                                                 *)
NameMatches ==
  /\ rec.sem = IF main \in Opened THEN had.sem ELSE None
  /\ main \in HasName => had.sem # None /\ name = had.sem
  /\ main \in {"attach", "create", "sem"} => had.sem = None
  /\ main \in {"detach", "destroy", "returned"} /\ had.sem # None =>
       name # had.sem

LEMMA MainParts ==
  MainInv <=> KeyMatches /\ NameMatches /\ ControlMatches /\ StreamInv
BY DEF MainInv, RecMatches, NotYetOrGone, KeyMatches, NameMatches

LEMMA KeyStep == TypeOK /\ MainInv /\ [Next]_vars => KeyMatches'
<1> SUFFICES ASSUME TypeOK, MainInv, [Next]_vars PROVE KeyMatches'
  OBVIOUS
<1>0. /\ KeyMatches
      /\ rec \in Objects /\ had \in Objects
      /\ key \in 0..Len(segment) /\ Len(segment) \in Nat
  BY MainParts DEF TypeOK
<1> USE DEF KeyMatches, Attached, HasKey
<1>1. CASE StartProcess
  BY <1>0, <1>1 DEF StartProcess, NoObjects
<1>2. CASE CreateShm
  <2>1. main = "shm" /\ had = NoObjects /\ UNCHANGED rec
    BY <1>0, <1>2 DEF CreateShm, Goto
  <2>2. CASE main' = "returned" /\ UNCHANGED <<segment, key, had>>
    BY <1>0, <2>1, <2>2 DEF NoObjects
  <2>3. CASE /\ main' = "attach"
             /\ \E id \in 1..(Len(segment) + 1) :
                  GetSegment(id) /\ had' = [had EXCEPT !.seg = id]
    <3>1. PICK id \in 1..(Len(segment) + 1) :
                  GetSegment(id) /\ had' = [had EXCEPT !.seg = id]
      BY <2>3
    <3>2. id # None /\ key' = id
      BY <3>1, Segments
    <3>3. had'.seg = id
      BY <1>0, <3>1 DEF Objects
    <3> QED
      BY <1>0, <2>1, <2>3, <3>2, <3>3
  <2> QED
    BY <1>2, <2>2, <2>3 DEF CreateShm, Goto
<1>3. CASE LoadConfig \/ CreatePipeline \/ Play \/ Monitor \/ JoinThread
           \/ Flush \/ Drain \/ Unlink
  <2>1. UNCHANGED <<rec, had, key>>
    BY <1>3 DEF LoadConfig, CreatePipeline, Play, Monitor, JoinThread, Flush,
       Drain, Unlink, kernel, history
  <2>2. CASE LoadConfig
    BY <1>0, <2>1, <2>2 DEF LoadConfig, Goto, NoObjects
  <2>3. CASE CreatePipeline \/ Play \/ Monitor \/ JoinThread
    BY <1>0, <2>1, <2>3 DEF CreatePipeline, Play, Monitor, JoinThread, Goto
  <2>4. CASE Flush \/ Drain \/ Unlink
    BY <1>0, <2>1, <2>4 DEF Flush, Drain, Unlink, Goto
  <2> QED
    BY <1>3, <2>2, <2>3, <2>4
<1>4. CASE AttachShm
  <2>1. main = "attach" /\ UNCHANGED <<had, key>>
    BY <1>4 DEF AttachShm, Goto, kernel, history
  <2> QED
    BY <1>0, <1>4, <2>1 DEF AttachShm, Goto, Objects
<1>5. CASE InitSemaphore
  <2>1. main = "sem" /\ UNCHANGED key
    BY <1>5 DEF InitSemaphore, Goto
  <2>2. CASE main' = "exited" /\ rec' = NoObjects /\ UNCHANGED had
    BY <1>0, <2>1, <2>2 DEF NoObjects
  <2>3. CASE main' = "record" /\ \E id \in 1..(Len(semaphore) + 1) :
               rec' = [rec EXCEPT !.sem = id] /\ had' = [had EXCEPT !.sem = id]
    BY <1>0, <2>1, <2>3 DEF Objects
  <2> QED
    BY <1>5, <2>2, <2>3 DEF InitSemaphore, Goto
<1>6. CASE InitRecordControl
  BY <1>0, <1>6 DEF InitRecordControl, Goto, NoObjects, kernel, history
<1>7. CASE CloseSemaphore
  BY <1>0, <1>7 DEF CloseSemaphore, Goto, kernel, history, Objects
<1>8. CASE DetachShm
  BY <1>0, <1>8 DEF DetachShm, Goto, kernel, history, Objects
<1>9. CASE DestroyShm
  BY <1>0, <1>9 DEF DestroyShm, Goto
<1>10. CASE KillProcess
  BY <1>0, <1>10 DEF KillProcess, NoObjects
<1>11. CASE UiAttach
  <2>1. PICK id \in 1..(Len(segment) + 1) : GetSegment(id)
    BY <1>11 DEF UiAttach
  <2>2. key' # None /\ (key # None => key' = key)
        /\ (key = None => key' = Len(segment) + 1)
    BY <2>1, Segments
  <2>3. UNCHANGED <<main, rec, had>>
    BY <1>11 DEF UiAttach, history
  <2>4. had.seg \in 0..Len(segment)
    BY <1>0 DEF Objects
  <2> QED
    BY <1>0, <2>2, <2>3, <2>4
<1>12. CASE UiOpenSemaphore
  BY <1>0, <1>12 DEF UiOpenSemaphore, history
<1>13. CASE UNCHANGED <<main, rec, had, key, name, playing>>
  BY <1>0, <1>13
<1> QED
  BY <1>1, <1>2, <1>3, <1>4, <1>5, <1>6, <1>7, <1>8, <1>9, <1>10, <1>11,
     <1>12, <1>13, MainAlone DEF MainStep, StartUp, CleanUp

LEMMA NameStep == TypeOK /\ MainInv /\ [Next]_vars => NameMatches'
<1> SUFFICES ASSUME TypeOK, MainInv, [Next]_vars PROVE NameMatches'
  OBVIOUS
<1>0. /\ NameMatches
      /\ rec \in Objects /\ had \in Objects
      /\ name \in 0..Len(semaphore) /\ Len(semaphore) \in Nat
      /\ main \in {"config", "shm"} => had = NoObjects
  BY MainParts DEF TypeOK, KeyMatches
<1> USE DEF NameMatches, Opened, HasName
<1>1. CASE StartProcess
  BY <1>0, <1>1 DEF StartProcess, NoObjects
<1>2. CASE CreateShm
  <2>1. main = "shm" /\ had = NoObjects /\ UNCHANGED <<rec, name>>
    BY <1>0, <1>2 DEF CreateShm, Goto
  <2>2. had'.sem = None
    BY <1>2, <2>1 DEF CreateShm, NoObjects
  <2> QED
    BY <1>0, <1>2, <2>1, <2>2 DEF CreateShm, Goto
<1>3. CASE LoadConfig \/ CreatePipeline \/ Play \/ Monitor \/ JoinThread
           \/ Flush \/ Drain \/ DestroyShm
  <2>1. UNCHANGED <<rec, had, name>>
    BY <1>3 DEF LoadConfig, CreatePipeline, Play, Monitor, JoinThread, Flush,
       Drain, DestroyShm, kernel, history
  <2>2. CASE LoadConfig
    BY <1>0, <2>1, <2>2 DEF LoadConfig, Goto, NoObjects
  <2>3. CASE CreatePipeline \/ Play \/ Monitor \/ JoinThread
    BY <1>0, <2>1, <2>3 DEF CreatePipeline, Play, Monitor, JoinThread, Goto
  <2>4. CASE Flush \/ Drain \/ DestroyShm
    BY <1>0, <2>1, <2>4 DEF Flush, Drain, DestroyShm, Goto
  <2> QED
    BY <1>3, <2>2, <2>3, <2>4
<1>4. CASE AttachShm
  <2>1. main = "attach" /\ UNCHANGED <<had, name>>
    BY <1>4 DEF AttachShm, Goto, kernel, history
  <2> QED
    BY <1>0, <1>4, <2>1 DEF AttachShm, Goto, Objects
<1>5. CASE InitSemaphore
  <2>1. main = "sem"
    BY <1>5 DEF InitSemaphore, Goto
  <2>2. CASE main' = "exited" /\ rec' = NoObjects
    BY <1>0, <2>1, <2>2 DEF NoObjects
  <2>3. CASE main' = "record" /\ \E id \in 1..(Len(semaphore) + 1) :
               /\ OpenSemaphore(id)
               /\ rec' = [rec EXCEPT !.sem = id]
               /\ had' = [had EXCEPT !.sem = id]
    <3>1. PICK id \in 1..(Len(semaphore) + 1) :
               /\ OpenSemaphore(id)
               /\ rec' = [rec EXCEPT !.sem = id]
               /\ had' = [had EXCEPT !.sem = id]
      BY <2>3
    <3>2. id # None /\ name' = id
      BY <3>1, Semaphores
    <3>3. rec'.sem = id /\ had'.sem = id
      BY <1>0, <3>1 DEF Objects
    <3> QED
      BY <2>3, <3>2, <3>3
  <2> QED
    BY <1>5, <2>2, <2>3 DEF InitSemaphore, Goto
<1>6. CASE InitRecordControl
  BY <1>0, <1>6 DEF InitRecordControl, Goto, NoObjects, kernel, history
<1>7. CASE CloseSemaphore
  BY <1>0, <1>7 DEF CloseSemaphore, Goto, kernel, history, Objects
<1>8. CASE Unlink
  BY <1>0, <1>8 DEF Unlink, UnlinkSemaphore, Goto
<1>9. CASE DetachShm
  BY <1>0, <1>9 DEF DetachShm, Goto, kernel, history, Objects
<1>10. CASE KillProcess
  BY <1>0, <1>10 DEF KillProcess, NoObjects
<1>11. CASE UiOpenSemaphore
  <2>1. PICK id \in 1..(Len(semaphore) + 1) : OpenSemaphore(id)
    BY <1>11 DEF UiOpenSemaphore
  <2>2. name' # None /\ (name # None => name' = name)
        /\ (name = None => name' = Len(semaphore) + 1)
    BY <2>1, Semaphores
  <2>3. UNCHANGED <<main, rec, had>>
    BY <1>11 DEF UiOpenSemaphore, history
  <2>4. had.sem \in 0..Len(semaphore)
    BY <1>0 DEF Objects
  <2> QED
    BY <1>0, <2>2, <2>3, <2>4
<1>12. CASE UiAttach
  BY <1>0, <1>12 DEF UiAttach, history
<1>13. CASE UNCHANGED <<main, rec, had, key, name, playing>>
  BY <1>0, <1>13
<1> QED
  BY <1>1, <1>2, <1>3, <1>4, <1>5, <1>6, <1>7, <1>8, <1>9, <1>10, <1>11,
     <1>12, <1>13, MainAlone DEF MainStep, StartUp, CleanUp

(* cleanup_pipeline has waited for the streaming thread when it goes on.   *)
LEMMA ControlStep == TypeOK /\ MainInv /\ [Next]_vars => ControlMatches'
<1> SUFFICES ASSUME TypeOK, MainInv, [Next]_vars PROVE ControlMatches'
  OBVIOUS
<1>0. ControlMatches /\ NotYetOrGone /\ had \in Objects
  BY DEF MainInv, TypeOK
<1> USE DEF ControlMatches, Controls
<1>1. CASE StartProcess
  BY <1>0, <1>1 DEF StartProcess, NotRunning
<1>2. CASE StartUp
  <2>1. CASE LoadConfig \/ AttachShm \/ CreatePipeline \/ Play
    BY <1>0, <2>1 DEF LoadConfig, AttachShm, CreatePipeline, Play, Goto, history,
       NotYetOrGone, NoObjects
  <2>2. CASE CreateShm
    <3>1. had.sem = None
      BY <1>0, <2>2 DEF CreateShm, Goto, NotYetOrGone, NoObjects
    <3>2. had'.sem = None
      BY <1>0, <2>2, <3>1 DEF CreateShm, Objects
    <3> QED
      BY <1>0, <2>2, <3>2 DEF CreateShm, Goto
  <2>3. CASE InitSemaphore \/ InitRecordControl
    BY <1>0, <2>3 DEF InitSemaphore, InitRecordControl, Goto
  <2> QED
    BY <1>2, <2>1, <2>2, <2>3 DEF StartUp
<1>3. CASE Monitor \/ JoinThread \/ Flush \/ Drain \/ CloseSemaphore
  BY <1>0, <1>3 DEF Monitor, JoinThread, Flush, Drain, CloseSemaphore, Goto, history
<1>4. CASE Unlink \/ DetachShm \/ DestroyShm
  BY <1>0, <1>4 DEF Unlink, DetachShm, DestroyShm, Goto, history
<1>5. CASE KillProcess
  BY <1>0, <1>5 DEF KillProcess
<1>6. CASE UiOpenSemaphore \/ UiAttach
  BY <1>0, <1>6 DEF UiOpenSemaphore, UiAttach, history
<1>7. CASE UNCHANGED <<main, attachments, had>>
  BY <1>0, <1>7
<1> QED
  BY <1>1, <1>2, <1>3, <1>4, <1>5, <1>6, <1>7, MainAlone DEF MainStep, CleanUp

LEMMA StreamStep == MainInv /\ [Next]_vars => StreamInv'
<1> SUFFICES ASSUME MainInv, [Next]_vars PROVE StreamInv'
  OBVIOUS
<1>0. StreamInv
  BY DEF MainInv
<1> USE DEF StreamInv
<1>1. CASE StartProcess
  BY <1>0, <1>1 DEF StartProcess, NotRunning, pipeline, copying
<1>2. CASE StartUp
  BY <1>0, <1>2 DEF StartUp, LoadConfig, CreateShm, AttachShm, CreatePipeline,
     InitSemaphore, InitRecordControl, Play, Goto, pipeline, copying
<1>3. CASE Monitor \/ JoinThread \/ Flush
  BY <1>0, <1>3 DEF Monitor, JoinThread, Flush, Goto, pipeline, copying
<1>4. CASE Drain
  BY <1>0, <1>4 DEF Drain, StreamEnded, Goto, pipeline, copying
<1>5. CASE CloseSemaphore \/ Unlink \/ DetachShm \/ DestroyShm
  BY <1>0, <1>5 DEF CloseSemaphore, Unlink, DetachShm, DestroyShm, Goto, pipeline,
     copying
<1>6. CASE KillProcess
  BY <1>6 DEF KillProcess
<1>7. CASE OnNewSample \/ SemWait
  BY <1>0, <1>7 DEF OnNewSample, NewSample, SemWait, CopyFirst, CopyRest, SemPost,
     pipeline
<1>8. CASE UNCHANGED <<main, playing, stream>>
  BY <1>0, <1>8
<1> QED
  BY <1>1, <1>2, <1>3, <1>4, <1>5, <1>6, <1>7, <1>8 DEF Next, MainStep, CleanUp,
     vars, copying, pipeline, Camera, Encode, PipelineError, StartUi,
     UiOpenSemaphore, UiAttach, UiWait, UiReading, UiReadFirst, UiReadRest, UiPost,
     KillUi

LEMMA MainInvStep == TypeOK /\ MainInv /\ [Next]_vars => MainInv'
<1> SUFFICES ASSUME TypeOK, MainInv, [Next]_vars PROVE MainInv'
  OBVIOUS
<1>1. KeyMatches' /\ NameMatches' /\ ControlMatches' /\ StreamInv'
  BY KeyStep, NameStep, ControlStep, StreamStep
<1> QED
  BY <1>1 DEF MainInv, RecMatches, NotYetOrGone, KeyMatches, NameMatches

LEMMA UiStep == TypeOK /\ UiInv /\ [Next]_vars => UiInv'
<1> SUFFICES ASSUME TypeOK, UiInv, [Next]_vars PROVE UiInv'
  OBVIOUS
<1>0. ui \in Objects /\ removed \in BOOLEAN
  BY DEF TypeOK
<1> USE DEF UiInv
<1>1. CASE Unlink
  BY <1>1 DEF Unlink, reader
<1>2. CASE DestroyShm
  BY <1>2 DEF DestroyShm, reader
<1>3. CASE StartUi
  BY <1>3 DEF StartUi, NoObjects
<1>4. CASE KillUi
  BY <1>4 DEF KillUi, NoObjects
<1>5. CASE UiOpenSemaphore
  <2>1. PICK id \in 1..(Len(semaphore) + 1) :
          OpenSemaphore(id) /\ ui' = [ui EXCEPT !.sem = id]
    BY <1>5 DEF UiOpenSemaphore
  <2>2. id # None /\ name' = id
    BY <2>1, Semaphores
  <2>3. ui'.sem = id /\ ui'.seg = ui.seg
    BY <1>0, <2>1 DEF Objects
  <2> QED
    BY <1>5, <2>2, <2>3 DEF UiOpenSemaphore, history
<1>6. CASE UiAttach
  <2>1. PICK id \in 1..(Len(segment) + 1) :
          GetSegment(id) /\ ui' = [ui EXCEPT !.seg = id]
    BY <1>6 DEF UiAttach
  <2>2. id # None /\ key' = id
    BY <2>1, Segments
  <2>3. ui'.seg = id /\ ui'.sem = ui.sem
    BY <1>0, <2>1 DEF Objects
  <2> QED
    BY <1>6, <2>2, <2>3 DEF UiAttach, history
<1>7. CASE UiWait \/ UiReading
  BY <1>7 DEF UiWait, UiReading, UiReadFirst, UiReadRest, UiPost, kernel, history
<1>8. CASE CreateShm
  <2>1. UNCHANGED <<ui, display, removed, name>>
    BY <1>8 DEF CreateShm, reader
  <2>2. CASE UNCHANGED key
    BY <2>1, <2>2
  <2>3. CASE \E id \in 1..(Len(segment) + 1) : GetSegment(id)
    BY <2>1, <2>3, Segments
  <2> QED
    BY <1>8, <2>2, <2>3 DEF CreateShm
<1>9. CASE InitSemaphore
  <2>1. UNCHANGED <<ui, display, removed, key>>
    BY <1>9 DEF InitSemaphore, reader
  <2>2. CASE UNCHANGED name
    BY <2>1, <2>2
  <2>3. CASE \E id \in 1..(Len(semaphore) + 1) : OpenSemaphore(id)
    BY <2>1, <2>3, Semaphores
  <2> QED
    BY <1>9, <2>2, <2>3 DEF InitSemaphore
<1>10. CASE UNCHANGED <<ui, display, removed, key, name>>
  BY <1>10
<1>11. CASE StartProcess \/ LoadConfig \/ AttachShm \/ CreatePipeline
            \/ InitRecordControl \/ Play \/ Monitor \/ JoinThread \/ Flush
            \/ Drain \/ CloseSemaphore \/ DetachShm \/ KillProcess
  BY <1>10, <1>11 DEF StartProcess, LoadConfig, AttachShm, CreatePipeline,
     InitRecordControl, Play, Monitor, JoinThread, Flush, Drain, CloseSemaphore,
     DetachShm, KillProcess, kernel, reader, history
<1>12. CASE Camera \/ Encode \/ OnNewSample \/ SemWait \/ PipelineError
            \/ UNCHANGED vars
  BY <1>10, <1>12 DEF Camera, Encode, OnNewSample, NewSample, SemWait, CopyFirst,
     CopyRest, SemPost, PipelineError, kernel, reader, history, vars
<1> QED
  BY <1>1, <1>2, <1>3, <1>4, <1>5, <1>6, <1>7, <1>8, <1>9, <1>11, <1>12
     DEF Next, MainStep, StartUp, CleanUp
-----------------------------------------------------------------------------
(* Steps that neither take, post nor lose a semaphore.                     *)
LEMMA HoldSame ==
  ASSUME HoldInv, UNCHANGED <<semaphore, lost>>,
         \A id \in DOMAIN semaphore : /\ RecHolds(id)' <=> RecHolds(id)
                                      /\ UiHolds(id)' <=> UiHolds(id)
  PROVE  HoldInv'
BY DEF HoldInv, Holders, Count

(* A new semaphore has no holder: nobody can have opened it before.        *)
LEMMA HoldNew ==
  ASSUME TypeOK, HoldInv, NEW new \in 1..(Len(semaphore) + 1), OpenSemaphore(new),
         UNCHANGED lost,
         \A id \in Nat : /\ RecHolds(id)' <=> (RecHolds(id) /\ id \in 1..Len(semaphore))
                         /\ UiHolds(id)' <=> (UiHolds(id) /\ id \in 1..Len(semaphore))
  PROVE  HoldInv'
<1>1. /\ semaphore \in Seq({0, 1}) /\ semaphore' \in Seq({0, 1})
      /\ lost \subseteq 1..Len(semaphore)
  BY Semaphores DEF TypeOK
<1>2. SUFFICES ASSUME NEW id \in DOMAIN semaphore'
               PROVE  Holders(id)' = 1 - semaphore'[id]
  BY DEF HoldInv
<1>3. id \in Nat
  BY <1>1
<1>4. CASE id \in DOMAIN semaphore
  <2>1. semaphore'[id] = semaphore[id]
    BY <1>4, Semaphores
  <2>2. Holders(id)' = Holders(id)
    BY <1>1, <1>3, <1>4 DEF Holders, Count
  <2> QED
    BY <1>4, <2>1, <2>2 DEF HoldInv
<1>5. CASE id \notin DOMAIN semaphore
  <2>1. semaphore'[id] = 1
    BY <1>5, Semaphores
  <2>2. ~RecHolds(id)' /\ ~UiHolds(id)' /\ id \notin lost'
    BY <1>1, <1>3, <1>5
  <2>3. Holders(id)' = 0
    BY <2>2 DEF Holders, Count
  <2> QED
    BY <2>1, <2>3
<1> QED
  BY <1>4, <1>5

(* What each holder has open exists.                                       *)
LEMMA HoldersExist ==
  ASSUME TypeOK, NEW id \in Nat
  PROVE  /\ id \notin 1..Len(semaphore) /\ id # None => rec.sem # id /\ ui.sem # id
         /\ DOMAIN semaphore = 1..Len(semaphore) /\ Len(semaphore) \in Nat
         /\ rec.sem \in 0..Len(semaphore) /\ ui.sem \in 0..Len(semaphore)
BY DEF TypeOK, Objects, None

(* main is not at these steps while a frame is copied.                     *)
LEMMA NoCopy ==
  ASSUME MainInv,
         main \in {"down", "returned", "exited", "shm", "attach", "sem", "record",
                   "close", "detach"}
  PROVE  stream = "idle"
BY DEF MainInv, StreamInv

LEMMA HoldStep ==
  TypeOK /\ MainInv /\ UiInv /\ HoldInv /\ [Next]_vars => HoldInv'
<1> SUFFICES ASSUME TypeOK, MainInv, UiInv, HoldInv, [Next]_vars
             PROVE  HoldInv'
  OBVIOUS
<1>0. /\ semaphore \in Seq({0, 1}) /\ lost \subseteq 1..Len(semaphore)
      /\ DOMAIN semaphore = 1..Len(semaphore) /\ Len(semaphore) \in Nat
      /\ rec.sem \in 0..Len(semaphore) /\ ui.sem \in 0..Len(semaphore)
  BY DEF TypeOK, Objects
<1>1. CASE InitSemaphore
  <2>1. stream = "idle" /\ UNCHANGED <<stream, ui, display, lost>>
    BY <1>1, NoCopy DEF InitSemaphore, Goto, copying, reader
  <2>2. \A id : RecHolds(id)' = FALSE /\ RecHolds(id) = FALSE
                /\ UiHolds(id)' = UiHolds(id)
    BY <2>1 DEF RecHolds, UiHolds
  <2>3. CASE UNCHANGED semaphore
    BY <2>1, <2>2, <2>3, HoldSame
  <2>4. CASE \E id \in 1..(Len(semaphore) + 1) : OpenSemaphore(id)
    <3>1. PICK new \in 1..(Len(semaphore) + 1) : OpenSemaphore(new)
      BY <2>4
    <3>2. \A id : UiHolds(id) => id \in 1..Len(semaphore)
      BY ReaderHas DEF UiHolds
    <3> QED
      BY <2>1, <2>2, <3>1, <3>2, HoldNew
  <2> QED
    BY <1>1, <2>3, <2>4 DEF InitSemaphore
<1>2. CASE UiOpenSemaphore
  <2>1. PICK new \in 1..(Len(semaphore) + 1) : OpenSemaphore(new)
    BY <1>2 DEF UiOpenSemaphore
  <2>2. /\ UNCHANGED <<stream, rec, lost>>
        /\ display = "open" /\ display' \in {"open", "ready"}
    BY <1>2 DEF UiOpenSemaphore, copying, history
  <2>3. \A id : UiHolds(id)' = FALSE /\ UiHolds(id) = FALSE
                /\ RecHolds(id)' = RecHolds(id)
    BY <2>2 DEF RecHolds, UiHolds
  <2>4. \A id : RecHolds(id) => id \in 1..Len(semaphore)
    BY CopierHas DEF RecHolds
  <2> QED
    BY <2>1, <2>2, <2>3, <2>4, HoldNew
<1>3. CASE SemWait
  <2>1. /\ stream = "wait" /\ stream' = "copy" /\ UNCHANGED <<rec, ui, display, lost>>
        /\ rec.sem \in 1..Len(semaphore) /\ semaphore[rec.sem] > 0 /\ Down(rec.sem)
    BY <1>3, CopierHas DEF SemWait, reader, history
  <2>2. /\ Len(semaphore') = Len(semaphore) /\ semaphore' \in Seq({0, 1})
        /\ semaphore[rec.sem] = 1 /\ semaphore'[rec.sem] = 0
        /\ \A j \in 1..Len(semaphore) : j # rec.sem => semaphore'[j] = semaphore[j]
    BY <2>1, Downs
  <2>3. \A id : /\ RecHolds(id)' <=> id = rec.sem
                /\ RecHolds(id) <=> FALSE
                /\ UiHolds(id)' <=> UiHolds(id)
    BY <2>1 DEF RecHolds, UiHolds
  <2>4. SUFFICES ASSUME NEW id \in DOMAIN semaphore'
                 PROVE  Holders(id)' = 1 - semaphore'[id]
    BY DEF HoldInv
  <2>5. id \in DOMAIN semaphore /\ Holders(id) = 1 - semaphore[id]
    BY <1>0, <2>2 DEF HoldInv
  <2> QED
    BY <1>0, <2>1, <2>2, <2>3, <2>5 DEF Holders, Count
<1>4. CASE SemPost
  <2>1. /\ stream = "post" /\ stream' = "idle" /\ UNCHANGED <<rec, ui, display, lost>>
        /\ rec.sem \in 1..Len(semaphore) /\ Up(rec.sem)
    BY <1>4, CopierHas DEF SemPost, reader, history
  <2>2. \A id : /\ RecHolds(id)' <=> FALSE
                /\ RecHolds(id) <=> id = rec.sem
                /\ UiHolds(id)' <=> UiHolds(id)
    BY <2>1 DEF RecHolds, UiHolds
  <2>3. semaphore[rec.sem] = 0
    BY <1>0, <2>1, <2>2 DEF HoldInv, Holders, Count
  <2>4. /\ Len(semaphore') = Len(semaphore) /\ semaphore' \in Seq({0, 1})
        /\ semaphore'[rec.sem] = 1
        /\ \A j \in 1..Len(semaphore) : j # rec.sem => semaphore'[j] = semaphore[j]
    BY <2>1, <2>3, Ups
  <2>5. SUFFICES ASSUME NEW id \in DOMAIN semaphore'
                 PROVE  Holders(id)' = 1 - semaphore'[id]
    BY DEF HoldInv
  <2>6. id \in DOMAIN semaphore /\ Holders(id) = 1 - semaphore[id]
    BY <1>0, <2>4 DEF HoldInv
  <2> QED
    <3>1. CASE id = rec.sem
      <4>1. RecHolds(id) /\ ~RecHolds(id)' /\ (UiHolds(id)' <=> UiHolds(id))
        BY <2>2, <3>1
      <4>2. Holders(id) = 1
        BY <2>3, <2>6, <3>1
      <4>3. ~UiHolds(id) /\ id \notin lost
        BY <4>1, <4>2 DEF Holders, Count
      <4>4. Holders(id)' = 0
        BY <2>1, <4>1, <4>3 DEF Holders, Count
      <4> QED
        BY <2>4, <3>1, <4>4
    <3>2. CASE id # rec.sem
      BY <1>0, <2>1, <2>2, <2>4, <2>6, <3>2 DEF Holders, Count
    <3> QED
      BY <3>1, <3>2
<1>5. CASE UiWait
  <2>1. /\ display = "ready" /\ display' = "read" /\ UNCHANGED <<rec, stream, ui, lost>>
        /\ ui.sem \in 1..Len(semaphore) /\ semaphore[ui.sem] > 0 /\ Down(ui.sem)
    BY <1>5, ReaderHas DEF UiWait, copying, history
  <2>2. /\ Len(semaphore') = Len(semaphore) /\ semaphore' \in Seq({0, 1})
        /\ semaphore[ui.sem] = 1 /\ semaphore'[ui.sem] = 0
        /\ \A j \in 1..Len(semaphore) : j # ui.sem => semaphore'[j] = semaphore[j]
    BY <2>1, Downs
  <2>3. \A id : /\ UiHolds(id)' <=> id = ui.sem
                /\ UiHolds(id) <=> FALSE
                /\ RecHolds(id)' <=> RecHolds(id)
    BY <2>1 DEF RecHolds, UiHolds
  <2>4. SUFFICES ASSUME NEW id \in DOMAIN semaphore'
                 PROVE  Holders(id)' = 1 - semaphore'[id]
    BY DEF HoldInv
  <2>5. id \in DOMAIN semaphore /\ Holders(id) = 1 - semaphore[id]
    BY <1>0, <2>2 DEF HoldInv
  <2> QED
    BY <1>0, <2>1, <2>2, <2>3, <2>5 DEF Holders, Count
<1>6. CASE UiPost
  <2>1. /\ display = "post" /\ display' = "ready" /\ UNCHANGED <<rec, stream, ui, lost>>
        /\ ui.sem \in 1..Len(semaphore) /\ Up(ui.sem)
    BY <1>6, ReaderHas DEF UiPost, copying, history
  <2>2. \A id : /\ UiHolds(id)' <=> FALSE
                /\ UiHolds(id) <=> id = ui.sem
                /\ RecHolds(id)' <=> RecHolds(id)
    BY <2>1 DEF RecHolds, UiHolds
  <2>3. semaphore[ui.sem] = 0
    BY <1>0, <2>1, <2>2 DEF HoldInv, Holders, Count
  <2>4. /\ Len(semaphore') = Len(semaphore) /\ semaphore' \in Seq({0, 1})
        /\ semaphore'[ui.sem] = 1
        /\ \A j \in 1..Len(semaphore) : j # ui.sem => semaphore'[j] = semaphore[j]
    BY <2>1, <2>3, Ups
  <2>5. SUFFICES ASSUME NEW id \in DOMAIN semaphore'
                 PROVE  Holders(id)' = 1 - semaphore'[id]
    BY DEF HoldInv
  <2>6. id \in DOMAIN semaphore /\ Holders(id) = 1 - semaphore[id]
    BY <1>0, <2>4 DEF HoldInv
  <2> QED
    <3>1. CASE id = ui.sem
      <4>1. UiHolds(id) /\ ~UiHolds(id)' /\ (RecHolds(id)' <=> RecHolds(id))
        BY <2>2, <3>1
      <4>2. Holders(id) = 1
        BY <2>3, <2>6, <3>1
      <4>3. ~RecHolds(id) /\ id \notin lost
        BY <4>1, <4>2 DEF Holders, Count
      <4>4. Holders(id)' = 0
        BY <2>1, <4>1, <4>3 DEF Holders, Count
      <4> QED
        BY <2>4, <3>1, <4>4
    <3>2. CASE id # ui.sem
      BY <1>0, <2>1, <2>2, <2>4, <2>6, <3>2 DEF Holders, Count
    <3> QED
      BY <3>1, <3>2
<1>7. CASE KillProcess
  <2>1. /\ stream' = "idle" /\ UNCHANGED <<semaphore, ui, display>>
        /\ lost' = lost \cup {id \in DOMAIN semaphore : RecHolds(id)}
    BY <1>7 DEF KillProcess, kernel, reader
  <2>2. SUFFICES ASSUME NEW id \in DOMAIN semaphore
                 PROVE  Holders(id)' = 1 - semaphore[id]
    BY <2>1 DEF HoldInv
  <2>3. /\ RecHolds(id)' <=> FALSE
        /\ UiHolds(id)' <=> UiHolds(id)
        /\ id \in lost' <=> id \in lost \/ RecHolds(id)
    BY <2>1 DEF RecHolds, UiHolds
  <2>4. Holders(id) = 1 - semaphore[id] /\ semaphore[id] \in {0, 1}
    BY <1>0 DEF HoldInv
  <2> QED
    BY <2>3, <2>4 DEF Holders, Count
<1>8. CASE KillUi
  <2>1. /\ display' = "down" /\ UNCHANGED <<semaphore, rec, stream>>
        /\ lost' = lost \cup {id \in DOMAIN semaphore : UiHolds(id)}
    BY <1>8 DEF KillUi, kernel, copying
  <2>2. SUFFICES ASSUME NEW id \in DOMAIN semaphore
                 PROVE  Holders(id)' = 1 - semaphore[id]
    BY <2>1 DEF HoldInv
  <2>3. /\ UiHolds(id)' <=> FALSE
        /\ RecHolds(id)' <=> RecHolds(id)
        /\ id \in lost' <=> id \in lost \/ UiHolds(id)
    BY <2>1 DEF RecHolds, UiHolds
  <2>4. Holders(id) = 1 - semaphore[id] /\ semaphore[id] \in {0, 1}
    BY <1>0 DEF HoldInv
  <2> QED
    BY <2>3, <2>4 DEF Holders, Count
<1>9. CASE StartProcess \/ InitRecordControl \/ CloseSemaphore \/ AttachShm
           \/ DetachShm \/ CreateShm
  <2>1. /\ stream = "idle" /\ UNCHANGED <<semaphore, lost, stream, ui, display>>
    BY <1>9, NoCopy DEF StartProcess, NotRunning, InitRecordControl,
       CloseSemaphore, AttachShm, DetachShm, CreateShm, Goto, kernel, copying,
       reader, history
  <2>2. \A id : /\ RecHolds(id)' <=> RecHolds(id)
                /\ UiHolds(id)' <=> UiHolds(id)
    BY <2>1 DEF RecHolds, UiHolds
  <2> QED
    BY <2>1, <2>2, HoldSame
<1>10. CASE NewSample \/ CopyFirst \/ CopyRest
  <2>1. /\ UNCHANGED <<semaphore, lost, rec, ui, display>>
        /\ stream' \in {"copy", "copyRest", "post"}
             <=> stream \in {"copy", "copyRest", "post"}
    BY <1>10 DEF NewSample, CopyFirst, CopyRest, kernel, reader, history
  <2>2. \A id : /\ RecHolds(id)' <=> RecHolds(id)
                /\ UiHolds(id)' <=> UiHolds(id)
    BY <2>1 DEF RecHolds, UiHolds
  <2> QED
    BY <2>1, <2>2, HoldSame
<1>11. CASE StartUi \/ UiAttach \/ UiReadFirst \/ UiReadRest
  <2>1. /\ UNCHANGED <<semaphore, lost, rec, stream>>
        /\ display' \in {"read", "readRest", "post"} => UNCHANGED ui
        /\ display' \in {"read", "readRest", "post"}
             <=> display \in {"read", "readRest", "post"}
    BY <1>11 DEF StartUi, UiAttach, UiReadFirst, UiReadRest, kernel, copying,
       history
  <2>2. \A id : /\ RecHolds(id)' <=> RecHolds(id)
                /\ UiHolds(id)' <=> UiHolds(id)
    BY <2>1 DEF RecHolds, UiHolds
  <2> QED
    BY <2>1, <2>2, HoldSame
<1>12. CASE UNCHANGED <<semaphore, lost, rec, stream, ui, display>>
  <2>1. \A id : /\ RecHolds(id)' <=> RecHolds(id)
                /\ UiHolds(id)' <=> UiHolds(id)
    BY <1>12 DEF RecHolds, UiHolds
  <2> QED
    BY <1>12, <2>1, HoldSame
<1>13. CASE LoadConfig \/ CreatePipeline \/ Play \/ Monitor \/ JoinThread
            \/ Flush \/ Drain \/ Unlink \/ DestroyShm
  BY <1>12, <1>13 DEF LoadConfig, CreatePipeline, Play, Monitor, JoinThread,
     Flush, Drain, Unlink, DestroyShm, kernel, copying, reader, history
<1>14. CASE Camera \/ Encode \/ PipelineError \/ UNCHANGED vars
  BY <1>12, <1>14 DEF Camera, Encode, PipelineError, kernel, copying, reader,
     history, vars
<1> QED
  BY <1>1, <1>2, <1>3, <1>4, <1>5, <1>6, <1>7, <1>8, <1>9, <1>10, <1>11, <1>13,
     <1>14 DEF Next, MainStep, StartUp, CleanUp, OnNewSample, UiReading
-----------------------------------------------------------------------------
LEMMA VideoStart == Init => VideoInv
<1> SUFFICES ASSUME Init PROVE VideoInv
  OBVIOUS
<1>1. KernelType /\ HandleType
  BY DEF Init, KernelType, HandleType, Objects, NoObjects, None
<1>2. MainType /\ ReaderType
  BY DEF Init, MainType, ReaderType, Blank
<1>3. StreamType
  BY EmptyFits DEF Init, StreamType, Frames
<1>4. MainInv
  BY DEF Init, MainInv, RecMatches, NotYetOrGone, ControlMatches, Controls,
     StreamInv, Attached, Opened, HasKey, HasName, NoObjects, None
<1>5. UiInv
  BY DEF Init, UiInv, NoObjects, None
<1>6. HoldInv
  BY DEF Init, HoldInv
<1> QED
  BY <1>1, <1>2, <1>3, <1>4, <1>5, <1>6, TypeParts DEF VideoInv

LEMMA VideoStays == Spec => []VideoInv
<1>1. Init => VideoInv
  BY VideoStart
<1>2. VideoInv /\ [Next]_vars => VideoInv'
  BY TypeStep, MainInvStep, UiStep, HoldStep DEF VideoInv
<1> QED
  BY <1>1, <1>2, PTL DEF Spec

(* How many processes hold a semaphore.                                    *)
LEMMA Counted ==
  ASSUME NEW r \in BOOLEAN, NEW u \in BOOLEAN
  PROVE  Cardinality({h \in {"rec"} : r} \cup {h \in {"ui"} : u}) = Count(r) + Count(u)
<1>1. CASE ~r /\ ~u
  <2>1. {h \in {"rec"} : r} \cup {h \in {"ui"} : u} = {}
    BY <1>1
  <2> QED
    BY <1>1, <2>1, FS_EmptySet DEF Count
<1>2. CASE r /\ ~u
  <2>1. {h \in {"rec"} : r} \cup {h \in {"ui"} : u} = {"rec"}
    BY <1>2
  <2>2. Cardinality({"rec"}) = 1
    BY FS_Singleton
  <2> QED
    BY <1>2, <2>1, <2>2 DEF Count
<1>3. CASE ~r /\ u
  <2>1. {h \in {"rec"} : r} \cup {h \in {"ui"} : u} = {"ui"}
    BY <1>3
  <2>2. Cardinality({"ui"}) = 1
    BY FS_Singleton
  <2> QED
    BY <1>3, <2>1, <2>2 DEF Count
<1>4. CASE r /\ u
  <2>1. {h \in {"rec"} : r} \cup {h \in {"ui"} : u} = {"rec"} \cup {"ui"}
    BY <1>4
  <2>2. IsFiniteSet({"rec"}) /\ Cardinality({"rec"}) = 1
    BY FS_Singleton
  <2>3. Cardinality({"rec"} \cup {"ui"}) = 2
    BY <2>2, FS_AddElement
  <2> QED
    BY <1>4, <2>1, <2>3 DEF Count
<1> QED
  BY <1>1, <1>2, <1>3, <1>4

(* The types of the video process, its preview and its reader.             *)
THEOREM VideoTypes == Spec => []TypeOK
<1>1. VideoInv => TypeOK
  BY DEF VideoInv
<1> QED
  BY <1>1, VideoStays, PTL

(* A preview semaphore that is taken has exactly one holder, alive or      *)
(* killed, and one that is free has none: on_new_sample and the user       *)
(* interface exclude each other over every kill, removal and restart.      *)
THEOREM SemaphoreExcludes == Spec => []OneHolder
<1>1. VideoInv => OneHolder
  <2> SUFFICES ASSUME VideoInv, NEW id \in DOMAIN semaphore
               PROVE  Cardinality({h \in {"rec"} : RecHolds(id)}
                                    \cup {h \in {"ui"} : UiHolds(id)})
                        + (IF id \in lost THEN 1 ELSE 0) = 1 - semaphore[id]
    BY DEF OneHolder
  <2>1. RecHolds(id) \in BOOLEAN /\ UiHolds(id) \in BOOLEAN
    BY DEF RecHolds, UiHolds
  <2>2. Cardinality({h \in {"rec"} : RecHolds(id)} \cup {h \in {"ui"} : UiHolds(id)})
          = Count(RecHolds(id)) + Count(UiHolds(id))
    BY <2>1, Counted
  <2>3. Holders(id) = 1 - semaphore[id]
    BY DEF VideoInv, HoldInv
  <2>4. Count(id \in lost) = IF id \in lost THEN 1 ELSE 0
    BY DEF Count
  <2> QED
    BY <2>2, <2>3, <2>4 DEF Holders
<1> QED
  BY <1>1, VideoStays, PTL

(* on_new_sample never runs with its semaphore closed or its memory        *)
(* detached, at whatever step the pipeline fails and cleanup_pipeline      *)
(* runs.                                                                   *)
THEOREM NothingUsedAfterRelease == Spec => []NoUseAfterRelease
<1>1. VideoInv => NoUseAfterRelease
  <2> SUFFICES ASSUME VideoInv, stream # "idle"
               PROVE  rec.sem # None /\ rec.seg # None /\ ExpectedBytes <= SHM_SIZE
    BY DEF NoUseAfterRelease
  <2>1. rec.seg \in 1..Len(segment) /\ rec.sem \in 1..Len(semaphore)
    BY CopierHas DEF VideoInv
  <2>2. ExpectedBytes <= SHM_SIZE
    BY DEF ExpectedBytes, SHM_SIZE
  <2> QED
    BY <2>1, <2>2 DEF None
<1> QED
  BY <1>1, VideoStays, PTL

(* main returns, through whichever of its failures, with nothing open or   *)
(* attached; the preview's segment and semaphore are not to be found, the  *)
(* segment of the recording control is.                                    *)
THEOREM ReturnReleases == Spec => []AllReleased
<1>1. VideoInv => AllReleased
  <2> SUFFICES ASSUME VideoInv, main = "returned"
               PROVE  /\ rec = NoObjects /\ record_control # "attached"
                      /\ had.seg # None => key # had.seg
                      /\ had.sem # None =>
                           name # had.sem /\ record_control = "found"
    BY DEF AllReleased
  <2>1. rec.seg = None /\ rec.sem = None
    BY DEF VideoInv, MainInv, RecMatches, Attached, Opened
  <2>2. rec = NoObjects
    BY <2>1 DEF VideoInv, TypeOK, Objects, NoObjects
  <2> QED
    BY <2>2 DEF VideoInv, MainInv, NotYetOrGone, ControlMatches, Controls
<1> QED
  BY <1>1, VideoStays, PTL

(* Only an orderly end of the video process separates it from the user     *)
(* interface: until then what either has is what is found under key and    *)
(* name, so kills and restarts bring them to the same objects.             *)
THEOREM KillsDoNotSeparate == Spec => []KillKeepsPreview
<1>1. VideoInv => KillKeepsPreview
  <2> SUFFICES ASSUME VideoInv, ~removed
               PROVE  /\ rec.seg # None /\ ui.seg # None => rec.seg = ui.seg
                      /\ rec.sem # None /\ ui.sem # None => rec.sem = ui.sem
    BY DEF KillKeepsPreview
  <2>1. /\ rec.seg # None => key = rec.seg
        /\ rec.sem # None => name = rec.sem
    BY DEF VideoInv, MainInv, RecMatches, Attached, Opened, HasKey, HasName
  <2>2. /\ ui.seg # None => key = ui.seg
        /\ ui.sem # None => name = ui.sem
    BY DEF VideoInv, UiInv
  <2> QED
    BY <2>1, <2>2
<1> QED
  BY <1>1, VideoStays, PTL
-----------------------------------------------------------------------------
(* WholeFrames.  Between sem_unlink and IPC_RMID the segment can be found  *)
(* and the semaphore cannot.  Otherwise who has opened both objects, or    *)
(* only the semaphore, has the semaphore that is to be found.              *)
Removing == main \in {"detach", "destroy"} /\ had.sem # None

PairInv ==
  ~cut =>
    /\ ui.sem # None /\ ui.seg = None => ui.sem = name
    /\ ui.sem # None /\ ui.seg # None /\ ui.seg = key =>
         ui.sem = name \/ Removing

(* Who can read the segment s does it under the semaphore m.               *)
Guards(m, s) ==
  /\ key = s => name = m
  /\ ui.seg = s => IF ui.sem = None THEN name = m ELSE ui.sem = m

(* A segment with parts of two frames is being copied to, or one whose     *)
(* semaphore nobody will ever get.                                         *)
Torn(s) == segment[s][1] # segment[s][2]

TornInv ==
  ~cut =>
    \A s \in 1..Len(segment) : Torn(s) =>
      \/ stream = "copyRest" /\ rec.seg = s
      \/ \E m \in lost : Guards(m, s)

(* What has been copied, and what has been read, so far.                   *)
HalfInv ==
  /\ stream = "copyRest" => segment[rec.seg][1] = map
  /\ ~cut /\ display = "readRest" => shown[1] = segment[ui.seg][1]
  /\ ~cut /\ display = "post" => shown[1] = shown[2]

FrameInv == PairInv /\ TornInv /\ HalfInv
-----------------------------------------------------------------------------
(* Who copies has the segment and the semaphore that are to be found.      *)
LEMMA CopierFinds ==
  ASSUME MainInv, stream # "idle"
  PROVE  /\ main \in {"monitor", "join", "null", "drain"}
         /\ key = rec.seg /\ name = rec.sem /\ ~Removing
<1>1. main \in {"monitor", "join", "null", "drain"}
  BY DEF MainInv, StreamInv
<1>2. main \in Attached /\ main \in Opened /\ main \in HasKey /\ main \in HasName
  BY <1>1 DEF Attached, Opened, HasKey, HasName
<1> QED
  BY <1>1, <1>2 DEF MainInv, RecMatches, Removing

LEMMA OneHolds ==
  ASSUME TypeOK, HoldInv, NEW id \in 1..Len(semaphore)
  PROVE  ~(UiHolds(id) /\ RecHolds(id)) /\ ~(UiHolds(id) /\ id \in lost)
<1>1. id \in DOMAIN semaphore /\ semaphore[id] \in {0, 1}
  BY DEF TypeOK
<1>2. Holders(id) <= 1
  BY <1>1 DEF HoldInv
<1>3. /\ Count(RecHolds(id)) \in {0, 1} /\ Count(UiHolds(id)) \in {0, 1}
      /\ Count(id \in lost) \in {0, 1}
  BY DEF Count
<1>4. UiHolds(id) => Count(RecHolds(id)) = 0 /\ Count(id \in lost) = 0
  <2>1. UiHolds(id) => Count(UiHolds(id)) = 1
    BY DEF Count
  <2>2. \A r, u, l \in {0, 1} : r + u + l <= 1 /\ u = 1 => r = 0 /\ l = 0
    OBVIOUS
  <2> QED
    BY <1>2, <1>3, <2>1, <2>2, Zenon DEF Holders
<1> QED
  BY <1>4 DEF Count

(* While the user interface reads nobody copies to its segment, and its    *)
(* segment is whole.                                                       *)
LEMMA ReaderAlone ==
  ASSUME VideoInv, PairInv, TornInv, ~cut,
         display \in {"read", "readRest", "post"}
  PROVE  /\ stream \in {"copy", "copyRest", "post"} => rec.seg # ui.seg
         /\ ~Torn(ui.seg)
<1>1. TypeOK /\ MainInv /\ UiInv /\ HoldInv
  BY DEF VideoInv
<1>2. ui.seg \in 1..Len(segment) /\ ui.sem \in 1..Len(semaphore) /\ UiHolds(ui.sem)
  BY <1>1, ReaderHas DEF UiHolds
<1>3. ui.seg # None /\ ui.sem # None
  BY <1>1 DEF UiInv
<1>4. ASSUME stream \in {"copy", "copyRest", "post"}, rec.seg = ui.seg
      PROVE  FALSE
  <2>1. key = rec.seg /\ name = rec.sem /\ ~Removing
    BY <1>1, <1>4, CopierFinds
  <2>2. ui.sem = rec.sem
    BY <1>3, <1>4, <2>1 DEF PairInv
  <2>3. RecHolds(ui.sem)
    BY <1>4, <2>2 DEF RecHolds
  <2> QED
    BY <1>1, <1>2, <2>3, OneHolds
<1>5. ASSUME Torn(ui.seg) PROVE FALSE
  <2>1. \/ stream = "copyRest" /\ rec.seg = ui.seg
        \/ \E m \in lost : Guards(m, ui.seg)
    BY <1>2, <1>5 DEF TornInv
  <2>2. ASSUME NEW m \in lost, Guards(m, ui.seg) PROVE FALSE
    <3>1. ui.sem = m
      BY <1>3, <2>2 DEF Guards
    <3> QED
      BY <1>1, <1>2, <2>2, <3>1, OneHolds
  <2> QED
    BY <1>4, <2>1, <2>2
<1> QED
  BY <1>4, <1>5
-----------------------------------------------------------------------------
(* Removal that was unsafe is not forgotten.                               *)
LEMMA CutStays == [Next]_vars => (cut => cut')
<1> SUFFICES ASSUME [Next]_vars, cut PROVE cut'
  OBVIOUS
<1>1. CASE Unlink \/ DestroyShm \/ KillProcess
  BY <1>1 DEF Unlink, DestroyShm, KillProcess
<1>2. CASE UNCHANGED cut
  BY <1>2
<1>3. CASE StartUi \/ UiOpenSemaphore \/ UiAttach \/ UiWait \/ UiReading \/ KillUi
  BY <1>3 DEF StartUi, UiOpenSemaphore, UiAttach, UiWait, UiReading, UiReadFirst,
     UiReadRest, UiPost, KillUi, history
<1> QED
  BY <1>1, <1>2, <1>3, ReaderFrame

(* The steps that change which objects there are, and who has them.        *)
LEMMA ObjectFrame ==
  [Next]_vars =>
    \/ CreateShm \/ InitSemaphore \/ Unlink \/ DestroyShm \/ KillProcess
    \/ UiOpenSemaphore \/ UiAttach \/ KillUi
    \/ UNCHANGED <<key, name, ui>> /\ (Removing => Removing')
<1> SUFFICES ASSUME [Next]_vars
             PROVE  \/ CreateShm \/ InitSemaphore \/ Unlink \/ DestroyShm
                    \/ KillProcess \/ UiOpenSemaphore \/ UiAttach \/ KillUi
                    \/ UNCHANGED <<key, name, ui>> /\ (Removing => Removing')
  OBVIOUS
<1>1. CASE StartProcess
  BY <1>1 DEF StartProcess, NotRunning, Removing, kernel, reader
<1>2. CASE LoadConfig \/ AttachShm \/ CreatePipeline
  BY <1>2 DEF LoadConfig, AttachShm, CreatePipeline, Goto, Removing, kernel, reader
<1>3. CASE InitRecordControl \/ Play \/ Monitor \/ JoinThread
  BY <1>3 DEF InitRecordControl, Play, Monitor, JoinThread, Goto, Removing, kernel,
     reader
<1>4. CASE Flush \/ Drain \/ CloseSemaphore
  BY <1>4 DEF Flush, Drain, CloseSemaphore, Goto, Removing, kernel, reader
<1>5. CASE DetachShm
  BY <1>5 DEF DetachShm, Goto, Removing, kernel, reader, history
<1>6. CASE Camera \/ Encode \/ OnNewSample \/ SemWait \/ PipelineError
  BY <1>6 DEF Camera, Encode, OnNewSample, NewSample, CopyFirst, CopyRest, SemPost,
     SemWait, PipelineError, Removing, kernel, reader, history
<1>7. CASE StartUi \/ UiWait \/ UiReading
  BY <1>7 DEF StartUi, UiWait, UiReading, UiReadFirst, UiReadRest, UiPost, Removing,
     kernel, history
<1>8. CASE UNCHANGED vars
  BY <1>8 DEF vars, Removing, kernel, reader, history
<1> QED
  BY <1>1, <1>2, <1>3, <1>4, <1>5, <1>6, <1>7, <1>8
  DEF Next, MainStep, StartUp, CleanUp

LEMMA PairStep ==
  ASSUME TypeOK, MainInv, PairInv, [Next]_vars
  PROVE  PairInv'
<1> SUFFICES ASSUME ~cut'
             PROVE  /\ ui'.sem # None /\ ui'.seg = None => ui'.sem = name'
                    /\ ui'.sem # None /\ ui'.seg # None /\ ui'.seg = key' =>
                         ui'.sem = name' \/ Removing'
  BY DEF PairInv
<1>1. /\ ui.sem # None /\ ui.seg = None => ui.sem = name
      /\ ui.sem # None /\ ui.seg # None /\ ui.seg = key =>
           ui.sem = name \/ Removing
  BY CutStays DEF PairInv
<1>2. CASE CreateShm
  <2>1. /\ UNCHANGED <<name, ui>> /\ main = "shm"
        /\ UNCHANGED key \/ \E id \in 1..(Len(segment) + 1) : GetSegment(id)
    BY <1>2 DEF CreateShm, reader, Goto
  <2>2. ~Removing
    BY <2>1 DEF Removing
  <2>3. CASE UNCHANGED key
    BY <1>1, <2>1, <2>2, <2>3
  <2>4. CASE \E id \in 1..(Len(segment) + 1) : GetSegment(id)
    <3>1. key' = key \/ key' = Len(segment) + 1
      BY <2>4 DEF GetSegment
    <3>2. ui.seg # Len(segment) + 1
      BY DEF TypeOK, Objects
    <3> QED
      BY <1>1, <2>1, <2>2, <3>1, <3>2
  <2> QED
    BY <2>1, <2>3, <2>4
<1>3. CASE InitSemaphore
  <2>1. /\ UNCHANGED <<key, ui>> /\ main = "sem"
        /\ UNCHANGED name \/ \E id \in 1..(Len(semaphore) + 1) : OpenSemaphore(id)
    BY <1>3 DEF InitSemaphore, reader, Goto
  <2>2. name' = name \/ name = None
    BY <2>1 DEF OpenSemaphore
  <2> QED
    BY <1>1, <2>1, <2>2 DEF Removing
<1>4. CASE Unlink
  <2>1. /\ UNCHANGED <<key, ui, had>> /\ main = "unlink" /\ main' = "detach"
        /\ ~Unsafe
    BY <1>4 DEF Unlink, reader, Goto
  <2>2. had.sem # None
    BY <2>1 DEF MainInv, RecMatches, HasName, Opened
  <2> QED
    BY <2>1, <2>2 DEF Removing, Unsafe
<1>5. CASE DestroyShm
  <2>1. /\ UNCHANGED <<name, ui>> /\ main = "destroy"
        /\ key' = IF key = had.seg THEN None ELSE key
    BY <1>5 DEF DestroyShm, reader, Goto
  <2>2. key = had.seg
    BY <2>1 DEF MainInv, RecMatches, HasKey
  <2> QED
    BY <1>1, <2>1, <2>2
<1>6. CASE KillProcess
  <2>1. UNCHANGED <<key, name, ui>> /\ ~Removing
    BY <1>6 DEF KillProcess, kernel, reader, Removing
  <2> QED
    BY <1>1, <2>1
<1>7. CASE UiOpenSemaphore
  <2>1. ui'.sem = name'
    <3>1. PICK id \in 1..(Len(semaphore) + 1) :
            OpenSemaphore(id) /\ ui' = [ui EXCEPT !.sem = id]
      BY <1>7 DEF UiOpenSemaphore
    <3>2. name' = id
      BY <3>1, Semaphores
    <3> QED
      BY <3>1, <3>2 DEF TypeOK, Objects
  <2> QED
    BY <2>1
<1>8. CASE UiAttach
  <2>1. /\ UNCHANGED name /\ ui.seg = None
    BY <1>8 DEF UiAttach
  <2>2. ui'.sem = ui.sem
    BY <1>8 DEF UiAttach, TypeOK, Objects
  <2> QED
    BY <1>1, <2>1, <2>2
<1>9. CASE KillUi
  BY <1>9 DEF KillUi, NoObjects
<1>10. CASE UNCHANGED <<key, name, ui>> /\ (Removing => Removing')
  BY <1>1, <1>10
<1> QED
  BY <1>2, <1>3, <1>4, <1>5, <1>6, <1>7, <1>8, <1>9, <1>10, ObjectFrame
-----------------------------------------------------------------------------
(* A semaphore nobody will get stays the one for its segment.              *)
LEMMA GuardStays ==
  ASSUME TypeOK, MainInv, PairInv, [Next]_vars, ~cut',
         NEW s \in 1..Len(segment), NEW m \in lost, Guards(m, s)
  PROVE  Guards(m, s)'
<1>0. m # None /\ s # None /\ Len(segment) \in Nat
  BY DEF TypeOK, None
<1>1. /\ key = s => name = m
      /\ ui.seg = s => IF ui.sem = None THEN name = m ELSE ui.sem = m
  BY DEF Guards
<1>2. SUFFICES /\ key' = s => name' = m
               /\ ui'.seg = s => IF ui'.sem = None THEN name' = m ELSE ui'.sem = m
  BY DEF Guards
<1>3. CASE CreateShm
  <2>1. /\ UNCHANGED <<name, ui>>
        /\ UNCHANGED key \/ \E id \in 1..(Len(segment) + 1) : GetSegment(id)
    BY <1>3 DEF CreateShm, reader
  <2>2. key' = key \/ key' = Len(segment) + 1
    BY <2>1 DEF GetSegment
  <2>3. s # Len(segment) + 1
    BY <1>0
  <2> QED
    BY <1>1, <2>1, <2>2, <2>3
<1>4. CASE InitSemaphore
  <2>1. /\ UNCHANGED <<key, ui>>
        /\ UNCHANGED name \/ \E id \in 1..(Len(semaphore) + 1) : OpenSemaphore(id)
    BY <1>4 DEF InitSemaphore, reader
  <2>2. name' = name \/ name = None
    BY <2>1 DEF OpenSemaphore
  <2> QED
    BY <1>0, <1>1, <2>1, <2>2
<1>5. CASE Unlink
  <2>1. /\ UNCHANGED <<key, ui>> /\ main = "unlink" /\ ~Unsafe
    BY <1>5 DEF Unlink, reader, Goto
  <2>2. name = had.sem
    BY <2>1 DEF MainInv, RecMatches, HasName, Opened
  <2>3. name # m
    BY <2>1, <2>2 DEF Unsafe
  <2> QED
    BY <1>1, <2>1, <2>3
<1>6. CASE DestroyShm
  <2>1. /\ UNCHANGED <<name, ui>>
        /\ key' = IF key = had.seg THEN None ELSE key
    BY <1>6 DEF DestroyShm, reader
  <2> QED
    BY <1>0, <1>1, <2>1
<1>7. CASE KillProcess
  BY <1>1, <1>7 DEF KillProcess, kernel, reader
<1>8. CASE UiOpenSemaphore
  <2>1. PICK id \in 1..(Len(semaphore) + 1) :
          OpenSemaphore(id) /\ ui' = [ui EXCEPT !.sem = id]
    BY <1>8 DEF UiOpenSemaphore
  <2>2. /\ UNCHANGED key /\ ui.sem = None
        /\ name' = id /\ id # None /\ (name # None => id = name)
    BY <1>8, <2>1, Semaphores DEF UiOpenSemaphore
  <2>3. ui'.sem = id /\ ui'.seg = ui.seg
    BY <2>1 DEF TypeOK, Objects
  <2> QED
    BY <1>0, <1>1, <2>2, <2>3
<1>9. CASE UiAttach
  <2>1. PICK id \in 1..(Len(segment) + 1) :
          GetSegment(id) /\ ui' = [ui EXCEPT !.seg = id]
    BY <1>9 DEF UiAttach
  <2>2. /\ UNCHANGED name /\ ui.seg = None
        /\ key' = id /\ (key # None => id = key)
        /\ (key = None => id = Len(segment) + 1)
    BY <1>9, <2>1, Segments DEF UiAttach
  <2>3. ui'.seg = id /\ ui'.sem = ui.sem
    BY <2>1 DEF TypeOK, Objects
  <2>4. s # Len(segment) + 1
    BY <1>0
  <2>5. ui.sem # None => ui.sem = name
    BY <2>2, CutStays DEF PairInv
  <2> QED
    BY <1>0, <1>1, <2>2, <2>3, <2>4, <2>5
<1>10. CASE KillUi
  <2>1. UNCHANGED <<key, name>> /\ ui' = NoObjects
    BY <1>10 DEF KillUi, kernel
  <2> QED
    BY <1>0, <1>1, <2>1 DEF NoObjects
<1>11. CASE UNCHANGED <<key, name, ui>>
  BY <1>1, <1>11
<1> QED
  BY <1>3, <1>4, <1>5, <1>6, <1>7, <1>8, <1>9, <1>10, <1>11, ObjectFrame
-----------------------------------------------------------------------------
(* What the steps do to the segments.                                      *)
Pairs == (Frames \cup {Blank}) \X (Frames \cup {Blank})

MadeBlank ==
  /\ Len(segment') = Len(segment) + 1
  /\ \A s \in 1..Len(segment) : segment'[s] = segment[s]
  /\ segment'[Len(segment) + 1] = <<Blank, Blank>>

Half(h) ==
  /\ rec.seg \in 1..Len(segment) /\ Len(segment') = Len(segment)
  /\ \A s \in 1..Len(segment) : s # rec.seg => segment'[s] = segment[s]
  /\ segment'[rec.seg] = IF h = 1 THEN <<map, segment[rec.seg][2]>>
                         ELSE <<segment[rec.seg][1], map>>

LEMMA SegmentTypes ==
  ASSUME TypeOK
  PROVE  segment \in Seq(Pairs) /\ Len(segment) \in Nat /\ <<Blank, Blank>> \in Pairs
BY DEF TypeOK, Pairs

LEMMA GetsSegment ==
  ASSUME TypeOK, NEW id \in 1..(Len(segment) + 1), GetSegment(id)
  PROVE  UNCHANGED segment \/ MadeBlank
<1>1. CASE UNCHANGED segment
  BY <1>1
<1>2. CASE segment' = Append(segment, <<Blank, Blank>>)
  BY <1>2, SegmentTypes, AppendProperties DEF MadeBlank
<1> QED
  BY <1>1, <1>2 DEF GetSegment

LEMMA CopiesHalf ==
  ASSUME TypeOK, MainInv
  PROVE  /\ CopyFirst => Half(1)
         /\ CopyRest => Half(2)
<1>1. ASSUME stream # "idle"
      PROVE  /\ rec.seg \in 1..Len(segment)
             /\ segment[rec.seg] \in Pairs /\ map \in Frames \cup {Blank}
             /\ segment[rec.seg] = <<segment[rec.seg][1], segment[rec.seg][2]>>
  <2>1. rec.seg \in 1..Len(segment)
    BY <1>1, CopierHas
  <2>2. segment[rec.seg] \in Pairs
    BY <2>1, SegmentTypes, ElementOfSeq
  <2> QED
    BY <2>1, <2>2 DEF Pairs, TypeOK
<1>2. ASSUME CopyFirst PROVE Half(1)
  <2>1. stream # "idle" /\ segment' = [segment EXCEPT ![rec.seg][1] = map]
    BY <1>2 DEF CopyFirst
  <2> DEFINE halves == [segment[rec.seg] EXCEPT ![1] = map]
  <2>2. segment' = [segment EXCEPT ![rec.seg] = halves]
    BY <2>1
  <2>3. halves = <<map, segment[rec.seg][2]>>
    BY <1>1, <2>1 DEF Pairs
  <2>4. halves \in Pairs
    <3>1. <<map, segment[rec.seg][2]>> \in Pairs
      BY <1>1, <2>1 DEF Pairs
    <3> QED
      BY <2>3, <3>1
  <2> HIDE DEF halves
  <2>5. /\ Len(segment') = Len(segment)
        /\ \A s \in 1..Len(segment) :
             segment'[s] = IF s = rec.seg THEN halves ELSE segment[s]
    BY <1>1, <2>1, <2>2, <2>4, SegmentTypes, ExceptSeq
  <2> QED
    BY <1>1, <2>1, <2>3, <2>5 DEF Half
<1>3. ASSUME CopyRest PROVE Half(2)
  <2>1. stream # "idle" /\ segment' = [segment EXCEPT ![rec.seg][2] = map]
    BY <1>3 DEF CopyRest
  <2> DEFINE halves == [segment[rec.seg] EXCEPT ![2] = map]
  <2>2. segment' = [segment EXCEPT ![rec.seg] = halves]
    BY <2>1
  <2>3. halves = <<segment[rec.seg][1], map>>
    BY <1>1, <2>1 DEF Pairs
  <2>4. halves \in Pairs
    <3>1. <<segment[rec.seg][1], map>> \in Pairs
      BY <1>1, <2>1 DEF Pairs
    <3> QED
      BY <2>3, <3>1
  <2> HIDE DEF halves
  <2>5. /\ Len(segment') = Len(segment)
        /\ \A s \in 1..Len(segment) :
             segment'[s] = IF s = rec.seg THEN halves ELSE segment[s]
    BY <1>1, <2>1, <2>2, <2>4, SegmentTypes, ExceptSeq
  <2> QED
    BY <1>1, <2>1, <2>3, <2>5 DEF Half
<1> QED
  BY <1>2, <1>3

LEMMA SegmentFrame ==
  ASSUME TypeOK, MainInv, [Next]_vars
  PROVE  \/ UNCHANGED segment
         \/ MadeBlank /\ (CreateShm \/ UiAttach)
         \/ CopyFirst /\ Half(1)
         \/ CopyRest /\ Half(2)
<1>1. CASE CreateShm
  BY <1>1, GetsSegment DEF CreateShm
<1>2. CASE UiAttach
  BY <1>2, GetsSegment DEF UiAttach
<1>3. CASE CopyFirst \/ CopyRest
  BY <1>3, CopiesHalf
<1>4. CASE \/ InitSemaphore \/ Unlink \/ DestroyShm \/ SemWait \/ SemPost
           \/ UiOpenSemaphore \/ UiWait \/ UiPost
  BY <1>4 DEF InitSemaphore, Unlink, DestroyShm, SemWait, SemPost, UiOpenSemaphore,
     UiWait, UiPost
<1>5. CASE UNCHANGED kernel
  BY <1>5 DEF kernel
<1> QED
  BY <1>1, <1>2, <1>3, <1>4, <1>5, KernelFrame
-----------------------------------------------------------------------------
(* Until the copy is complete the copier goes on with it, or is killed.    *)
LEMMA CopyGoesOn ==
  ASSUME MainInv, [Next]_vars, stream = "copyRest"
  PROVE  \/ CopyRest \/ KillProcess
         \/ UNCHANGED <<stream, map, rec>> /\ ~CopyFirst /\ ~CreateShm
<1>1. main \in {"monitor", "join", "null", "drain"}
  BY CopierFinds
<1>2. ~CopyFirst /\ ~CreateShm
  BY <1>1 DEF CopyFirst, CreateShm, Goto
<1>3. CASE UNCHANGED <<stream, map>>
  <2>1. CASE \/ StartProcess \/ CreateShm \/ AttachShm \/ InitSemaphore
             \/ InitRecordControl \/ CloseSemaphore \/ DetachShm
    BY <1>1, <2>1 DEF StartProcess, NotRunning, CreateShm, AttachShm, InitSemaphore,
       InitRecordControl, CloseSemaphore, DetachShm, Goto
  <2>2. CASE UiOpenSemaphore \/ UiAttach \/ KillUi
    BY <1>2, <1>3, <2>2 DEF UiOpenSemaphore, UiAttach, KillUi
  <2>3. CASE UNCHANGED rec
    BY <1>2, <1>3, <2>3
  <2> QED
    BY <2>1, <2>2, <2>3, HandleFrame
<1>4. CASE Play \/ Flush \/ Camera \/ Encode
  <2>1. UNCHANGED <<stream, map>>
    BY <1>4 DEF Play, Flush, Camera, Encode, copying
  <2> QED
    BY <1>3, <2>1
<1>5. CASE OnNewSample \/ SemWait
  BY <1>5 DEF OnNewSample, NewSample, CopyFirst, SemPost, SemWait
<1> QED
  BY <1>3, <1>4, <1>5, StreamFrame DEF copying

(* Whoever is killed while it copies leaves the semaphore taken that       *)
(* everybody uses who reads the segment.                                   *)
LEMMA KilledGuards ==
  ASSUME TypeOK, MainInv, PairInv, ~cut, stream = "copyRest", KillProcess,
         NEW m, m = rec.sem, NEW s, s = rec.seg
  PROVE  m \in lost' /\ Guards(m, s)'
<1>1. key = s /\ name = m /\ ~Removing
  BY CopierFinds
<1>2. m \in DOMAIN semaphore /\ s # None
  <2>1. rec.sem \in 1..Len(semaphore) /\ rec.seg \in 1..Len(segment)
    BY CopierHas
  <2>2. DOMAIN semaphore = 1..Len(semaphore) /\ Len(segment) \in Nat
    BY DEF TypeOK
  <2> QED
    BY <2>1, <2>2 DEF None
<1>3. RecHolds(m)
  BY DEF RecHolds
<1>4. m \in lost'
  BY <1>2, <1>3 DEF KillProcess
<1>5. UNCHANGED <<key, name, ui>>
  BY DEF KillProcess, kernel, reader
<1>6. ui.seg = s /\ ui.sem # None => ui.sem = m
  BY <1>1, <1>2 DEF PairInv
<1>7. /\ key' = s => name' = m
      /\ ui'.seg = s => IF ui'.sem = None THEN name' = m ELSE ui'.sem = m
  BY <1>1, <1>5, <1>6
<1> QED
  BY <1>4, <1>7 DEF Guards
LEMMA LostStays == [Next]_vars => lost \subseteq lost'
<1> SUFFICES ASSUME [Next]_vars PROVE lost \subseteq lost'
  OBVIOUS
<1>1. CASE KillProcess
  BY <1>1 DEF KillProcess
<1>2. CASE KillUi
  BY <1>2 DEF KillUi
<1>3. CASE \/ StartProcess \/ CreateShm \/ AttachShm \/ InitSemaphore
           \/ InitRecordControl \/ CloseSemaphore \/ DetachShm
           \/ UiOpenSemaphore \/ UiAttach
  BY <1>3 DEF StartProcess, CreateShm, AttachShm, InitSemaphore, InitRecordControl,
     CloseSemaphore, DetachShm, UiOpenSemaphore, UiAttach, history
<1>4. CASE UNCHANGED <<rec, ui, had, lost>>
  BY <1>4
<1> QED
  BY <1>1, <1>2, <1>3, <1>4, HandleFrame

(* What a step leaves torn was torn before, or the copier has made it so.  *)
LEMMA TornBefore ==
  ASSUME TypeOK, MainInv, HalfInv, [Next]_vars,
         NEW s \in 1..Len(segment'), segment'[s][1] # segment'[s][2]
  PROVE  \/ CopyFirst /\ s = rec.seg
         \/ s \in 1..Len(segment) /\ Torn(s) /\ ~(CopyRest /\ s = rec.seg)
<1>1. Len(segment) \in Nat
  BY SegmentTypes
<1>2. CASE UNCHANGED segment /\ ~CopyRest
  BY <1>2 DEF Torn
<1>3. CASE MadeBlank /\ (CreateShm \/ UiAttach)
  <2>1. s \in 1..Len(segment) \/ s = Len(segment) + 1
    BY <1>1, <1>3 DEF MadeBlank
  <2>2. s # Len(segment) + 1
    BY <1>3 DEF MadeBlank
  <2>3. ~CopyRest \/ s # rec.seg
    <3>1. ASSUME CopyRest PROVE FALSE
      <4>1. stream = "copyRest" /\ stream' = "post"
        BY <3>1 DEF CopyRest
      <4> QED
        BY <1>3, <4>1 DEF CreateShm, UiAttach, copying
    <3> QED
      BY <3>1
  <2> QED
    BY <1>3, <2>1, <2>2, <2>3 DEF MadeBlank, Torn
<1>4. CASE CopyFirst /\ Half(1)
  <2>1. s \in 1..Len(segment)
    BY <1>4 DEF Half
  <2>2. ~CopyRest
    BY <1>4 DEF CopyFirst, CopyRest
  <2>3. s # rec.seg => segment'[s] = segment[s]
    BY <1>4, <2>1 DEF Half
  <2> QED
    BY <1>4, <2>1, <2>2, <2>3 DEF Torn
<1>5. CASE CopyRest /\ Half(2)
  <2>1. s \in 1..Len(segment)
    BY <1>5 DEF Half
  <2>2. segment'[rec.seg] = <<segment[rec.seg][1], map>>
    BY <1>5 DEF Half
  <2>3. segment[rec.seg][1] = map
    BY <1>5 DEF HalfInv, CopyRest
  <2>4. s # rec.seg
    BY <2>2, <2>3
  <2>5. segment'[s] = segment[s]
    BY <1>5, <2>1, <2>4 DEF Half
  <2> QED
    BY <2>1, <2>4, <2>5 DEF Torn
<1>6. CopyRest => Half(2)
  BY CopiesHalf
<1> QED
  BY <1>2, <1>3, <1>4, <1>5, <1>6, SegmentFrame

LEMMA TornStep ==
  ASSUME TypeOK, MainInv, PairInv, TornInv, HalfInv, [Next]_vars
  PROVE  TornInv'
<1> SUFFICES ASSUME ~cut', NEW s \in 1..Len(segment'),
                    segment'[s][1] # segment'[s][2]
             PROVE  \/ stream' = "copyRest" /\ rec'.seg = s
                    \/ \E m \in lost' : Guards(m, s)'
  BY DEF TornInv, Torn
<1>1. ~cut
  BY CutStays
<1>2. CASE CopyFirst /\ s = rec.seg
  BY <1>2 DEF CopyFirst
<1>3. CASE s \in 1..Len(segment) /\ Torn(s) /\ ~(CopyRest /\ s = rec.seg)
  <2>1. \/ stream = "copyRest" /\ rec.seg = s
        \/ \E m \in lost : Guards(m, s)
    BY <1>1, <1>3 DEF TornInv
  <2>2. CASE stream = "copyRest" /\ rec.seg = s
    <3>1. KillProcess \/ UNCHANGED <<stream, rec>>
      BY <1>3, <2>2, CopyGoesOn
    <3>2. CASE KillProcess
      BY <1>1, <2>2, <3>2, KilledGuards
    <3>3. CASE UNCHANGED <<stream, rec>>
      BY <2>2, <3>3
    <3> QED
      BY <3>1, <3>2, <3>3
  <2>3. CASE \E m \in lost : Guards(m, s)
    <3>1. PICK m \in lost : Guards(m, s)
      BY <2>3
    <3>2. Guards(m, s)'
      BY <1>3, <3>1, GuardStays
    <3>3. m \in lost'
      BY <3>1, LostStays
    <3> QED
      BY <3>2, <3>3
  <2> QED
    BY <2>1, <2>2, <2>3
<1> QED
  BY <1>2, <1>3, TornBefore

(* A step of the user interface while it reads, or none of it.             *)
LEMMA ReadGoesOn ==
  ASSUME [Next]_vars, display \in {"readRest", "post"}
  PROVE  \/ UiReadRest \/ UiPost \/ KillUi
         \/ UNCHANGED <<display, shown, ui>> /\ ~UiAttach
<1>1. ~StartUi /\ ~UiOpenSemaphore /\ ~UiAttach /\ ~UiWait /\ ~UiReadFirst
  BY DEF StartUi, UiOpenSemaphore, UiAttach, UiWait, UiReadFirst
<1>2. CASE Unlink \/ DestroyShm \/ KillProcess
  BY <1>1, <1>2 DEF Unlink, DestroyShm, KillProcess, reader
<1>3. CASE UNCHANGED <<display, shown>>
  <2>1. CASE \/ StartProcess \/ CreateShm \/ AttachShm \/ InitSemaphore
             \/ InitRecordControl \/ CloseSemaphore \/ DetachShm \/ KillProcess
    BY <1>1, <1>3, <2>1 DEF StartProcess, CreateShm, AttachShm, InitSemaphore,
       InitRecordControl, CloseSemaphore, DetachShm, KillProcess, reader
  <2>2. CASE UNCHANGED ui
    BY <1>1, <1>3, <2>2
  <2> QED
    BY <1>1, <2>1, <2>2, HandleFrame
<1> QED
  BY <1>1, <1>2, <1>3, ReaderFrame DEF UiReading

LEMMA CopyKept ==
  ASSUME VideoInv, HalfInv, [Next]_vars, stream' = "copyRest"
  PROVE  segment'[rec'.seg][1] = map'
<1>1. TypeOK /\ MainInv
  BY DEF VideoInv
<1>2. CASE CopyFirst
  <2>1. UNCHANGED <<rec, map>> /\ Half(1)
    BY <1>1, <1>2, CopiesHalf DEF CopyFirst
  <2>2. segment'[rec.seg] = <<map, segment[rec.seg][2]>>
    BY <2>1 DEF Half
  <2> QED
    BY <2>1, <2>2
<1>3. CASE stream = "copyRest"
  <2>1. UNCHANGED <<map, rec>> /\ ~CopyFirst /\ ~CopyRest
    BY <1>1, <1>3, CopyGoesOn DEF CopyRest, KillProcess
  <2>2. UNCHANGED segment \/ MadeBlank
    BY <1>1, <2>1, SegmentFrame
  <2>3. rec.seg \in 1..Len(segment)
    BY <1>1, <1>3, CopierHas
  <2>4. segment'[rec.seg] = segment[rec.seg]
    BY <2>2, <2>3 DEF MadeBlank
  <2> QED
    BY <1>3, <2>1, <2>4 DEF HalfInv
<1>4. CASE stream # "copyRest" /\ ~CopyFirst
  BY <1>4, StreamFrame
  DEF Play, Flush, KillProcess, Camera, Encode, OnNewSample, NewSample, CopyRest,
      SemPost, SemWait, copying
<1> QED
  BY <1>2, <1>3, <1>4

LEMMA HalfStep ==
  ASSUME VideoInv, FrameInv, [Next]_vars
  PROVE  HalfInv'
<1>0. TypeOK /\ MainInv /\ UiInv /\ PairInv /\ TornInv /\ HalfInv
  BY DEF VideoInv, FrameInv
<1>1. ASSUME stream' = "copyRest" PROVE segment'[rec'.seg][1] = map'
  BY <1>0, <1>1, CopyKept
<1>2. ASSUME ~cut', display' = "readRest"
      PROVE  shown'[1] = segment'[ui'.seg][1]
  <2>1. ~cut
    BY <1>2, CutStays
  <2>2. CASE UiReadFirst
    BY <2>2 DEF UiReadFirst, kernel
  <2>3. CASE display = "readRest"
    <3>1. UNCHANGED <<display, shown, ui>> /\ ~UiAttach
      BY <1>2, <2>3, ReadGoesOn DEF UiReadRest, UiPost, KillUi
    <3>2. ui.seg \in 1..Len(segment)
      BY <1>0, <2>3, ReaderHas
    <3>3. shown[1] = segment[ui.seg][1]
      BY <1>0, <2>1, <2>3 DEF HalfInv
    <3>4. segment'[ui.seg][1] = segment[ui.seg][1]
      <4>1. CASE UNCHANGED segment
        BY <4>1
      <4>2. CASE MadeBlank
        BY <3>2, <4>2 DEF MadeBlank
      <4>3. CASE CopyFirst /\ Half(1)
        <5>1. rec.seg # ui.seg
          BY <2>1, <2>3, <4>3, <1>0, ReaderAlone DEF CopyFirst
        <5> QED
          BY <3>2, <4>3, <5>1 DEF Half
      <4>4. CASE CopyRest /\ Half(2)
        <5>1. rec.seg # ui.seg
          BY <2>1, <2>3, <4>4, <1>0, ReaderAlone DEF CopyRest
        <5> QED
          BY <3>2, <4>4, <5>1 DEF Half
      <4> QED
        BY <1>0, <4>1, <4>2, <4>3, <4>4, SegmentFrame
    <3> QED
      BY <3>1, <3>3, <3>4
  <2>4. CASE display # "readRest" /\ ~UiReadFirst
    BY <1>2, <2>4, ReaderFrame
    DEF Unlink, DestroyShm, KillProcess, StartUi, UiOpenSemaphore, UiAttach, UiWait,
        UiReading, UiReadRest, UiPost, KillUi, reader
  <2> QED
    BY <2>2, <2>3, <2>4
<1>3. ASSUME ~cut', display' = "post"
      PROVE  shown'[1] = shown'[2]
  <2>1. ~cut
    BY <1>3, CutStays
  <2>2. CASE UiReadRest
    <3>1. display = "readRest" /\ shown' = [shown EXCEPT ![2] = segment[ui.seg][2]]
      BY <2>2 DEF UiReadRest
    <3>2. shown[1] = segment[ui.seg][1]
      BY <1>0, <2>1, <3>1 DEF HalfInv
    <3>3. segment[ui.seg][1] = segment[ui.seg][2]
      BY <2>1, <3>1, <1>0, ReaderAlone DEF Torn
    <3>4. shown'[1] = shown[1] /\ shown'[2] = segment[ui.seg][2]
      <4>1. shown \in (Frames \cup {Blank}) \X (Frames \cup {Blank})
        BY <1>0 DEF TypeOK
      <4>2. [shown EXCEPT ![2] = segment[ui.seg][2]] = <<shown[1], segment[ui.seg][2]>>
        BY <4>1
      <4> QED
        BY <3>1, <4>2
    <3> QED
      BY <3>2, <3>3, <3>4
  <2>3. CASE display = "post"
    <3>1. UNCHANGED shown
      BY <1>3, <2>3, ReadGoesOn DEF UiReadRest, UiPost, KillUi
    <3> QED
      BY <1>0, <2>1, <2>3, <3>1 DEF HalfInv
  <2>4. CASE display # "post" /\ ~UiReadRest
    BY <1>3, <2>4, ReaderFrame
    DEF Unlink, DestroyShm, KillProcess, StartUi, UiOpenSemaphore, UiAttach, UiWait,
        UiReading, UiReadFirst, UiPost, KillUi, reader
  <2> QED
    BY <2>2, <2>3, <2>4
<1> QED
  BY <1>1, <1>2, <1>3 DEF HalfInv

LEMMA FramesStay == Spec => [](VideoInv /\ FrameInv)
<1>1. Init => FrameInv
  <2> SUFFICES ASSUME Init PROVE FrameInv
    OBVIOUS
  <2>1. PairInv /\ HalfInv
    BY DEF Init, PairInv, HalfInv, NoObjects
  <2>2. segment = <<>> /\ Len(<<>>) = 0
    BY DEF Init
  <2>3. \A s \in 1..0 : FALSE
    OBVIOUS
  <2>4. TornInv
    BY <2>2, <2>3 DEF TornInv
  <2> QED
    BY <2>1, <2>4 DEF FrameInv
<1>2. VideoInv /\ FrameInv /\ [Next]_vars => FrameInv'
  <2> SUFFICES ASSUME VideoInv, FrameInv, [Next]_vars PROVE FrameInv'
    OBVIOUS
  <2>1. TypeOK /\ MainInv /\ PairInv /\ TornInv /\ HalfInv
    BY DEF VideoInv, FrameInv
  <2>2. PairInv' /\ TornInv'
    BY <2>1, PairStep, TornStep
  <2>3. HalfInv'
    BY HalfStep
  <2> QED
    BY <2>2, <2>3 DEF FrameInv
<1> QED
  BY <1>1, <1>2, VideoStays, PTL DEF Spec

(* What the user interface shows is one frame of the camera, never parts   *)
(* of two: on_new_sample and the reader use one semaphore for a segment,   *)
(* and one that is killed while it copies takes the semaphore with it.     *)
THEOREM FramesWhole == Spec => []WholeFrames
<1>1. FrameInv => WholeFrames
  BY DEF FrameInv, HalfInv, WholeFrames
<1> QED
  BY <1>1, FramesStay, PTL
=============================================================================
