--------------------------- MODULE GnssCollector ---------------------------
(***************************************************************************)
(* The data files of the GNSS collector: gnss_reading_thread of            *)
(* GNSS/src/gnss_reader.c.  The thread keeps a JSON array in a file named  *)
(* after the second of its creation.  It appends a record every            *)
(* RECORD_INTERVAL seconds while collection runs, ends the array when      *)
(* collection stops and begins the file of the next one.                   *)
(*                                                                         *)
(* A file is the sequence of its brackets, commas and records.  What is    *)
(* printed between fopen and fclose fits the stream's buffer and reaches   *)
(* the file at once, when it is closed; fopen for writing empties the file *)
(* before that.  Any fopen may fail (StorageMayFail), the device may be    *)
(* missing, and the collector may be killed and started again.             *)
(***************************************************************************)
EXTENDS Integers, Sequences

CONSTANTS
  RECORD_INTERVAL,  \* seconds between two records
  BACKDATE,         \* 15: makes the first record of a collection due at once
  StorageMayFail,
  MaxTime,          \* bound of the model: the clock stops there
  MaxStarts,        \* bound of the model: start commands
  MaxRestarts       \* bound of the model: restarts of the collector

ASSUME GnssAssumption ==
  /\ RECORD_INTERVAL \in Nat \ {0}
  /\ BACKDATE \in Nat /\ BACKDATE >= RECORD_INTERVAL
  /\ StorageMayFail \in BOOLEAN
  /\ MaxTime \in Nat /\ MaxTime >= RECORD_INTERVAL
  /\ MaxStarts \in Nat /\ MaxRestarts \in Nat

VARIABLES
  now,              \* time(NULL), in seconds
  running,          \* control->running
  device,           \* can SERIAL_PORT be opened?
  files,            \* what is in each file; <<>> if it is empty or missing
  json_filename,
  is_first_entry,
  last_record_time,
  pc                \* step of gnss_reading_thread

(* History of the run, read by the properties only.                        *)
VARIABLES
  failed,   \* has any fopen failed?
  reused,   \* files with the name just computed that were there already
  starts,
  restarts

thread  == <<json_filename, is_first_entry, last_record_time>>
history == <<failed, reused, starts, restarts>>
vars    == <<now, running, device, files, thread, pc, history>>

Statuses == {"initial", "no_device", "active"}
Tokens   == [kind : Statuses \cup {"[", ",", "]"}, at : Int]
Names    == [dir : {"/mnt/sdcard", "/tmp"}, second : Int]
PC       == {"name", "create", "fallback", "initial", "idle", "open", "loop",
             "read", "finish", "rename", "renew"}

Sign(s)           == [kind |-> s, at |-> 0]
Record(status, t) == [kind |-> status, at |-> t]

(* The clock of a device that is on never shows the first seconds of 1970. *)
Boot == RECORD_INTERVAL
Seconds   == Boot .. MaxTime
FileNames == [dir : {"/mnt/sdcard", "/tmp"}, second : Seconds]

Card(second) == [dir |-> "/mnt/sdcard", second |-> second]
Tmp(name)    == [name EXCEPT !.dir = "/tmp"]

FopenMayFail == StorageMayFail /\ failed' = TRUE
FopenWorks   == UNCHANGED failed

Started ==
  /\ running' = FALSE
  /\ is_first_entry' = TRUE
  /\ last_record_time' = 0
  /\ pc' = "name"

Init ==
  /\ now = Boot
  /\ running = FALSE /\ device \in BOOLEAN
  /\ files = [n \in FileNames |-> <<>>]
  /\ json_filename = Card(Boot)
  /\ is_first_entry = TRUE /\ last_record_time = 0
  /\ pc = "name"
  /\ failed = FALSE /\ reused = {} /\ starts = 0 /\ restarts = 0
-----------------------------------------------------------------------------
(* The first file is made on the card or, failing that, in /tmp; the later *)
(* ones only on the card.                                                  *)
OldName == json_filename
NewName == Card(now)

(* Naming a file: at the start and after each collection.                  *)
NameFile ==
  /\ \/ pc = "name"   /\ pc' = "create"
     \/ pc = "rename" /\ pc' = "renew"
  /\ json_filename' = NewName
  /\ reused' = {n \in {Card(now), Tmp(Card(now))} : files[n] # <<>>}
  /\ UNCHANGED <<now, running, device, files, is_first_entry, last_record_time,
                 failed, starts, restarts>>

(* fopen(json_filename, "w"), in each of its three places.                 *)
FopenPC == {"create", "fallback", "renew"}

EmptyFile ==
  /\ \/ pc \in {"create", "renew"}
        /\ json_filename' = json_filename
     \/ pc = "fallback"
        /\ json_filename' = Tmp(json_filename)
  /\ \/ /\ FopenWorks
        /\ files' = [files EXCEPT ![json_filename'] = <<>>]
        /\ pc' = "initial"
     \/ /\ FopenMayFail
        /\ pc' = IF pc = "create" THEN "fallback" ELSE "idle"
        /\ UNCHANGED files
  /\ reused' = IF pc' = "fallback" THEN reused ELSE {}
  /\ UNCHANGED <<now, running, device, is_first_entry, last_record_time, starts,
                 restarts>>

(* The opening bracket and an initial record, whose time, that of the last *)
(* sentence, nothing depends on.                                           *)
FirstIsStillDue == is_first_entry
FirstIsWritten  == FALSE

WriteInitial ==
  /\ pc = "initial"
  /\ files' = [files EXCEPT ![json_filename] =
                 @ \o <<Sign("["), Record("initial", 0)>>]
  /\ is_first_entry' = FirstIsWritten
  /\ pc' = "idle"
  /\ UNCHANGED <<now, running, device, json_filename, last_record_time, history>>
-----------------------------------------------------------------------------
(* fopen(json_filename, "a"), fprintf, fclose.                             *)
OpenedToOverwrite(tokens) ==
  files' = [files EXCEPT ![json_filename] = tokens]

AppendToFile(tokens) ==
  files' = [files EXCEPT ![json_filename] = @ \o tokens]

DueAlways == TRUE
Due == now - last_record_time >= RECORD_INTERVAL

BeginCollection ==
  /\ pc = "idle" /\ running
  /\ pc' = "open"
  /\ UNCHANGED <<now, running, device, files, thread, history>>

(* The serial port is open, and a record is due at once.                   *)
Postdated == now + BACKDATE
Backdated == now - BACKDATE

OpenSerial ==
  /\ pc = "open" /\ device
  /\ last_record_time' = Backdated
  /\ pc' = "loop"
  /\ UNCHANGED <<now, running, device, files, json_filename, is_first_entry,
                 history>>

(* Without it a record says so, always after a comma; the thread sleeps    *)
(* and looks again whether collection runs.                                *)
NoDevice ==
  /\ pc = "open" /\ ~device
  /\ pc' = "idle"
  /\ \/ /\ Due /\ FopenWorks
        /\ AppendToFile(<<Sign(","), Record("no_device", now)>>)
        /\ last_record_time' = now
     \/ /\ Due /\ FopenMayFail
        /\ UNCHANGED <<files, last_record_time>>
     \/ /\ ~Due
        /\ UNCHANGED <<files, last_record_time, failed>>
  /\ UNCHANGED <<now, running, device, json_filename, is_first_entry, reused,
                 starts, restarts>>

LoopTest ==
  /\ pc = "loop"
  /\ pc' = IF running THEN "read" ELSE "finish"
  /\ UNCHANGED <<now, running, device, files, thread, history>>

(* A read that fails, or brings no GGA sentence, changes nothing.          *)
ReadNothing ==
  /\ pc = "read"
  /\ pc' = "loop"
  /\ UNCHANGED <<now, running, device, files, thread, history>>

(* A GGA sentence is recorded if a record is due.                          *)
Separator == IF is_first_entry THEN <<>> ELSE <<Sign(",")>>

ReadSentence ==
  /\ pc = "read"
  /\ pc' = "loop"
  /\ \/ /\ Due /\ FopenWorks
        /\ AppendToFile(Separator \o <<Record("active", now)>>)
        /\ is_first_entry' = FALSE
        /\ last_record_time' = now
     \/ /\ Due /\ FopenMayFail
        /\ UNCHANGED <<files, is_first_entry, last_record_time>>
     \/ /\ ~Due
        /\ UNCHANGED <<files, is_first_entry, last_record_time, failed>>
  /\ UNCHANGED <<now, running, device, json_filename, reused, starts,
                 restarts>>

(* Collection has been stopped: the array is ended.  If that cannot be     *)
(* done the file stays in use.                                             *)
EndForgotten == <<>>
End == <<Sign("]")>>

FinishFile ==
  /\ pc = "finish"
  /\ \/ /\ FopenWorks
        /\ AppendToFile(End)
        /\ is_first_entry' = TRUE
        /\ pc' = "rename"
     \/ /\ FopenMayFail
        /\ pc' = "idle"
        /\ UNCHANGED <<files, is_first_entry>>
  /\ UNCHANGED <<now, running, device, json_filename, last_record_time, reused,
                 starts, restarts>>

ReadStep == ReadNothing \/ ReadSentence
ThreadStep ==
  NameFile \/ EmptyFile \/ WriteInitial \/ BeginCollection \/ OpenSerial
    \/ NoDevice \/ LoopTest \/ FinishFile
-----------------------------------------------------------------------------
(* start_gnss_collection and stop_gnss_collection, called by the command   *)
(* listener.                                                               *)
Start ==
  /\ ~running /\ starts < MaxStarts
  /\ running' = TRUE
  /\ starts' = starts + 1
  /\ UNCHANGED <<now, device, files, thread, pc, failed, reused, restarts>>

Stop ==
  /\ running
  /\ running' = FALSE
  /\ UNCHANGED <<now, device, files, thread, pc, history>>

Tick ==
  /\ now < MaxTime
  /\ now' = now + 1
  /\ UNCHANGED <<running, device, files, thread, pc, history>>

PlugOrUnplug ==
  /\ device' = ~device
  /\ UNCHANGED <<now, running, files, thread, pc, history>>

(* Killed, or ended by signal_handler, and started again.                  *)
Restart ==
  /\ restarts < MaxRestarts
  /\ restarts' = restarts + 1
  /\ Started
  /\ reused' = {}
  /\ UNCHANGED <<now, device, files, json_filename, failed, starts>>

Next ==
  ThreadStep \/ ReadStep \/ Start \/ Stop \/ Tick \/ PlugOrUnplug \/ Restart

Spec == Init /\ [][Next]_vars

(* The thread is scheduled, and its blocking read returns sooner or later: *)
(* the receiver sends sentences all the time, an unplugged one fails.      *)
FairSpec == Spec /\ WF_vars(ThreadStep) /\ WF_vars(ReadStep)
-----------------------------------------------------------------------------
(* Types of all variables; the last record is never in the future, where   *)
(* it would put off the next.                                              *)
TypeOK ==
  /\ now \in Seconds
  /\ running \in BOOLEAN /\ device \in BOOLEAN
  /\ files \in [FileNames -> Seq(Tokens)]
  /\ json_filename \in FileNames
  /\ is_first_entry \in BOOLEAN
  /\ last_record_time \in Int /\ last_record_time <= now
  /\ pc \in PC
  /\ failed \in BOOLEAN
  /\ reused \subseteq FileNames
  /\ starts \in Nat /\ restarts \in Nat

(* A sequence of tokens that is a JSON array, or the beginning of one.     *)
Array(c) ==
  \A i \in 1 .. Len(c) :
    \/ i = 1 /\ c[i].kind = "["
    \/ i % 2 = 0 /\ c[i].kind \in Statuses
    \/ i > 1 /\ i % 2 = 1 /\ c[i].kind = ","
    \/ i > 1 /\ i % 2 = 1 /\ c[i].kind = "]" /\ i = Len(c)

Ended(c) == c # <<>> /\ c[Len(c)].kind = "]"

(* As long as every fopen worked, every file holds a JSON array or the     *)
(* beginning of one: the flag is_first_entry and the file agree about the  *)
(* comma, and nothing is appended to an array that was ended, whatever     *)
(* commands, missing devices and restarts came between.                    *)
FilesAreArrays == ~failed => \A n \in FileNames : Array(files[n])

(* Then, too, two records of the same kind in a file are at least          *)
(* RECORD_INTERVAL seconds apart, across stops, starts and lost devices.   *)
RecordsSpaced ==
  ~failed =>
    \A n \in FileNames : \A i, j \in 1 .. Len(files[n]) :
      /\ i < j
      /\ files[n][i].kind = files[n][j].kind
      /\ files[n][i].kind \in {"no_device", "active"}
      => files[n][j].at >= files[n][i].at + RECORD_INTERVAL

Begins(c, d) == Len(c) <= Len(d) /\ \A i \in 1 .. Len(c) : d[i] = c[i]

(* The name was in use when it was computed, and its file is opened for    *)
(* writing: two names in one second are the same.                          *)
EmptiedAgain(n) ==
  pc \in FopenPC /\ n = json_filename' /\ n \in reused /\ files'[n] = <<>>

(* What was written stays, token by token, in every file and over every    *)
(* failure, stop and restart: a step may only add to the end of a file.    *)
(* The one exception is a file whose name is computed again within its     *)
(* second.                                                                 *)
RecordsKept ==
  [][\A n \in FileNames : Begins(files[n], files'[n]) \/ EmptiedAgain(n)]_vars

(* A stop while the serial port is open ends the array of the file in use, *)
(* even if the thread is in its blocking read, unless that file cannot be  *)
(* opened, collection is started again or the process ends.  A stop while  *)
(* the port could not be opened ends nothing: the array stays open until a *)
(* later collection is stopped.                                            *)
StopEndsArray ==
  \A n \in FileNames :
    pc \in {"loop", "read"} /\ ~running /\ json_filename = n
      ~> \/ Ended(files[n]) \/ running \/ pc = "name"
         \/ failed /\ pc = "idle" /\ json_filename = n

(* What the comment in front of the code that ends the array says: the     *)
(* JSON file is completed correctly.                                       *)
EndedFilesAreArrays ==
  \A n \in FileNames : Ended(files[n]) => Array(files[n])
=============================================================================
