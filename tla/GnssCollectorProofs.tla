------------------------ MODULE GnssCollectorProofs ------------------------
(***************************************************************************)
(* Theorems about GnssCollector, for any interval, any number of starts,   *)
(* stops and restarts and any failures of the storage: types, the files    *)
(* are JSON arrays, records are spaced, and what was written is kept.      *)
(***************************************************************************)
EXTENDS GnssCollector, SequenceTheorems, TLAPS

content == files[json_filename]

(* Steps at which the file in use has its opening bracket and the initial  *)
(* record, and no end.                                                     *)
InFile == {"idle", "open", "loop", "read", "finish"}

(* An array that has been begun, and ends in a record.                     *)
Begun(c) == Array(c) /\ Len(c) >= 2 /\ Len(c) % 2 = 0

(* While every fopen works the thread's step says what the file in use     *)
(* contains, and is_first_entry is of no consequence.                      *)
ArrayInv ==
  ~failed =>
    /\ \A n \in FileNames : Array(files[n])
    /\ pc # "fallback"
    /\ pc = "initial" => content = <<>>
    /\ pc \in InFile => Begun(content) /\ ~is_first_entry

(* The records of the file in use are not later than last_record_time,     *)
(* although that is set back when the serial port is opened: before it is  *)
(* opened the file holds no record of a sentence, and afterwards the       *)
(* records of a missing device are of no consequence.                      *)
NotAfter(c, kind, t) ==
  \A i \in 1 .. Len(c) : c[i].kind = kind => c[i].at <= t

Lacks(c, kind) == \A i \in 1 .. Len(c) : c[i].kind # kind

SpaceInv ==
  ~failed =>
    /\ pc \in {"idle", "open"} =>
         /\ Lacks(content, "active")
         /\ NotAfter(content, "no_device", last_record_time)
    /\ pc \in {"loop", "read", "finish"} =>
         NotAfter(content, "active", last_record_time)

(* A file that is about to be opened for writing was found in use when its *)
(* name was computed, if it holds anything.                                *)
ReuseInv ==
  pc \in FopenPC =>
    /\ content # <<>> => json_filename \in reused
    /\ files[Tmp(json_filename)] # <<>> => Tmp(json_filename) \in reused

CollectorInv == TypeOK /\ ArrayInv /\ RecordsSpaced /\ SpaceInv /\ ReuseInv
-----------------------------------------------------------------------------
(* Names of files.                                                         *)
LEMMA NamesExist ==
  ASSUME TypeOK
  PROVE  /\ Card(now) \in FileNames
         /\ Card(now).dir = "/mnt/sdcard" /\ Card(now).second = now
         /\ \A n \in FileNames : Tmp(n) \in FileNames /\ Tmp(n).second = n.second
BY DEF TypeOK, Card, Tmp, FileNames

(* Tokens.                                                                 *)
LEMMA TokenTypes ==
  /\ \A s \in {"[", ",", "]"} : Sign(s) \in Tokens /\ Sign(s).kind = s
  /\ \A k \in Statuses, t \in Int :
       Record(k, t) \in Tokens /\ Record(k, t).kind = k /\ Record(k, t).at = t
<1>0. 0 \in Int
  OBVIOUS
<1>1. ASSUME NEW s \in {"[", ",", "]"}
      PROVE  Sign(s) \in Tokens /\ Sign(s).kind = s
  <2>1. s \in Statuses \cup {"[", ",", "]"}
    BY Zenon
  <2>2. [kind |-> s, at |-> 0] \in [kind : Statuses \cup {"[", ",", "]"}, at : Int]
    BY <1>0, <2>1, Zenon
  <2> QED
    BY <2>2 DEF Sign, Tokens
<1>2. ASSUME NEW k \in Statuses, NEW t \in Int
      PROVE  Record(k, t) \in Tokens /\ Record(k, t).kind = k /\ Record(k, t).at = t
  <2>1. k \in Statuses \cup {"[", ",", "]"}
    OBVIOUS
  <2> QED
    BY <2>1 DEF Record, Tokens
<1> QED
  BY <1>1, <1>2

LEMMA InFileTypes ==
  ASSUME NEW c \in Seq(Tokens), NEW i \in 1 .. Len(c)
  PROVE  c[i] \in Tokens /\ c[i].at \in Int
<1>1. c[i] \in Tokens
  BY ElementOfSeq
<1> QED
  BY <1>1 DEF Tokens

LEMMA Two ==
  ASSUME NEW a \in Tokens, NEW b \in Tokens
  PROVE  /\ <<a, b>> \in Seq(Tokens) /\ Len(<<a, b>>) = 2
         /\ <<a, b>>[1] = a /\ <<a, b>>[2] = b
         /\ <<a>> \in Seq(Tokens) /\ Len(<<a>>) = 1 /\ <<a>>[1] = a
OBVIOUS

LEMMA Parity ==
  \A n \in Nat : n % 2 = 0 => (n + 1) % 2 = 1 /\ (n + 2) % 2 = 0
OBVIOUS

Comma       == Sign(",")
IsComma(a)  == a.kind = ","
IsRecord(b) == b.kind \in Statuses

LEMMA CommaParts ==
  /\ Comma \in Tokens /\ IsComma(Comma)
  /\ \A k \in Statuses : Comma.kind # k
<1>1. Sign(",") \in Tokens /\ Sign(",").kind = ","
  BY TokenTypes
<1> QED
  BY <1>1 DEF Comma, IsComma, Statuses

(* d is c and two tokens more, or one.                                     *)
PlusTwo(d, c, a, b) ==
  /\ d \in Seq(Tokens)
  /\ Len(d) = Len(c) + 2
  /\ \A i \in 1 .. Len(c) : d[i] = c[i]
  /\ d[Len(c) + 1] = a
  /\ d[Len(c) + 2] = b

PlusOne(d, c, a) ==
  /\ d \in Seq(Tokens)
  /\ Len(d) = Len(c) + 1
  /\ \A i \in 1 .. Len(c) : d[i] = c[i]
  /\ d[Len(c) + 1] = a

LEMMA AppendTwo ==
  ASSUME NEW c \in Seq(Tokens), NEW a \in Tokens, NEW b \in Tokens
  PROVE  PlusTwo(c \o <<a, b>>, c, a, b)
<1>1. <<a, b>> \in Seq(Tokens) /\ Len(<<a, b>>) = 2 /\ <<a, b>>[1] = a /\ <<a, b>>[2] = b
  BY Two
<1>2. /\ c \o <<a, b>> \in Seq(Tokens)
      /\ Len(c \o <<a, b>>) = Len(c) + 2
      /\ \A i \in 1 .. Len(c) + 2 :
           (c \o <<a, b>>)[i] = IF i <= Len(c) THEN c[i] ELSE <<a, b>>[i - Len(c)]
  BY <1>1, ConcatProperties
<1>3. Len(c) \in Nat
  OBVIOUS
<1>4. (Len(c) + 1) - Len(c) = 1 /\ (Len(c) + 2) - Len(c) = 2
  BY <1>3
<1>5. /\ (c \o <<a, b>>)[Len(c) + 1] = <<a, b>>[1]
      /\ (c \o <<a, b>>)[Len(c) + 2] = <<a, b>>[2]
  BY <1>2, <1>3, <1>4
<1> QED
  BY <1>1, <1>2, <1>3, <1>5 DEF PlusTwo

LEMMA AppendOne ==
  ASSUME NEW c \in Seq(Tokens), NEW a \in Tokens
  PROVE  PlusOne(c \o <<a>>, c, a)
<1>1. <<a>> \in Seq(Tokens) /\ Len(<<a>>) = 1 /\ <<a>>[1] = a
  BY Two
<1>2. /\ c \o <<a>> \in Seq(Tokens)
      /\ Len(c \o <<a>>) = Len(c) + 1
      /\ \A i \in 1 .. Len(c) + 1 :
           (c \o <<a>>)[i] = IF i <= Len(c) THEN c[i] ELSE <<a>>[i - Len(c)]
  BY <1>1, ConcatProperties
<1>3. Len(c) \in Nat
  OBVIOUS
<1>4. (Len(c) + 1) - Len(c) = 1
  BY <1>3
<1>5. (c \o <<a>>)[Len(c) + 1] = <<a>>[1]
  BY <1>2, <1>3, <1>4
<1> QED
  BY <1>1, <1>2, <1>3, <1>5 DEF PlusOne
-----------------------------------------------------------------------------
(* The empty file, its beginning, a record more, and the end.              *)
TokenFits(c, i) ==
  \/ i = 1 /\ c[i].kind = "["
  \/ i % 2 = 0 /\ c[i].kind \in Statuses
  \/ i > 1 /\ i % 2 = 1 /\ c[i].kind = ","
  \/ i > 1 /\ i % 2 = 1 /\ c[i].kind = "]" /\ i = Len(c)

LEMMA ArrayFits == \A c : Array(c) <=> \A i \in 1 .. Len(c) : TokenFits(c, i)
BY DEF Array, TokenFits

LEMMA EmptyArray == Array(<<>>)
<1>1. Len(<<>>) = 0
  OBVIOUS
<1>2. \A i \in 1 .. 0 : FALSE
  OBVIOUS
<1> QED
  BY <1>1, <1>2 DEF Array

LEMMA BeginsArray ==
  ASSUME NEW c, c = <<>>, NEW d, NEW a, NEW b, PlusTwo(d, c, a, b),
         a.kind = "[", b.kind = "initial"
  PROVE  Begun(d) /\ Len(d) = 2
<1>1. Len(c) = 0
  OBVIOUS
<1>2. Len(d) = 2 /\ d[1] = a /\ d[2] = b
  BY <1>1 DEF PlusTwo
<1>3. TokenFits(d, 1)
  BY <1>2 DEF TokenFits
<1>4. TokenFits(d, 2)
  <2>1. 2 % 2 = 0
    OBVIOUS
  <2> QED
    BY <1>2, <2>1 DEF TokenFits, Statuses
<1>5. \A i \in 1 .. 2 : i = 1 \/ i = 2
  OBVIOUS
<1>6. Array(d)
  BY <1>2, <1>3, <1>4, <1>5, ArrayFits
<1> QED
  BY <1>2, <1>6 DEF Begun

LEMMA OldTokensFit ==
  ASSUME NEW c \in Seq(Tokens), Begun(c), NEW d, Len(d) > Len(c),
         \A i \in 1 .. Len(c) : d[i] = c[i]
  PROVE  \A i \in 1 .. Len(c) : TokenFits(d, i)
<1> TAKE i \in 1 .. Len(c)
<1>1. TokenFits(c, i)
  BY ArrayFits DEF Begun
<1>2. ~(i % 2 = 1 /\ i = Len(c))
  BY DEF Begun
<1>3. d[i] = c[i]
  OBVIOUS
<1> QED
  BY <1>1, <1>2, <1>3 DEF TokenFits

LEMMA BegunParts ==
  ASSUME NEW c \in Seq(Tokens), Begun(c)
  PROVE  /\ Array(c) /\ Len(c) \in Nat
         /\ Len(c) + 1 > 1 /\ Len(c) + 2 > Len(c) /\ Len(c) + 2 >= 2
         /\ (Len(c) + 1) % 2 = 1 /\ (Len(c) + 2) % 2 = 0
         /\ \A i \in 1 .. Len(c) + 2 :
              i \in 1 .. Len(c) \/ i = Len(c) + 1 \/ i = Len(c) + 2
<1>1. Array(c) /\ Len(c) \in Nat /\ Len(c) >= 2 /\ Len(c) % 2 = 0
  BY DEF Begun
<1>2. (Len(c) + 1) % 2 = 1 /\ (Len(c) + 2) % 2 = 0
  BY <1>1, Parity
<1> QED
  BY <1>1, <1>2

LEMMA RecordsArray ==
  ASSUME NEW c \in Seq(Tokens), Begun(c), NEW d, NEW a, NEW b,
         PlusTwo(d, c, a, b), IsComma(a), IsRecord(b)
  PROVE  Begun(d)
<1>1. /\ Array(c) /\ Len(c) \in Nat
      /\ Len(c) + 1 > 1 /\ Len(c) + 2 > Len(c) /\ Len(c) + 2 >= 2
      /\ (Len(c) + 1) % 2 = 1 /\ (Len(c) + 2) % 2 = 0
      /\ \A i \in 1 .. Len(c) + 2 :
           i \in 1 .. Len(c) \/ i = Len(c) + 1 \/ i = Len(c) + 2
  BY BegunParts
<1>2. /\ Len(d) = Len(c) + 2
      /\ \A i \in 1 .. Len(c) : d[i] = c[i]
      /\ d[Len(c) + 1] = a /\ d[Len(c) + 2] = b
  BY DEF PlusTwo
<1>3. Len(d) > Len(c)
  BY <1>1, <1>2, Zenon
<1>4. \A i \in 1 .. Len(c) : TokenFits(d, i)
  BY <1>2, <1>3, OldTokensFit
<1>5. TokenFits(d, Len(c) + 1)
  BY <1>1, <1>2 DEF TokenFits, IsComma
<1>6. TokenFits(d, Len(c) + 2)
  BY <1>1, <1>2 DEF TokenFits, IsRecord
<1>7. Array(d)
  BY <1>1, <1>2, <1>4, <1>5, <1>6, ArrayFits, Zenon
<1>8. Len(d) >= 2 /\ Len(d) % 2 = 0
  BY <1>1, <1>2, Zenon
<1> QED
  BY <1>7, <1>8 DEF Begun

LEMMA EndsArray ==
  ASSUME NEW c \in Seq(Tokens), Begun(c), NEW d, NEW a, PlusOne(d, c, a),
         a.kind = "]"
  PROVE  Array(d)
<1>1. Array(c) /\ Len(c) \in Nat /\ Len(c) >= 2 /\ Len(c) % 2 = 0
  BY DEF Begun
<1>2. (Len(c) + 1) % 2 = 1
  BY <1>1, Parity
<1>3. /\ Len(d) = Len(c) + 1
      /\ \A i \in 1 .. Len(c) : d[i] = c[i]
      /\ d[Len(c) + 1] = a
  BY DEF PlusOne
<1>4. Len(d) > Len(c)
  BY <1>1, <1>3
<1>5. \A i \in 1 .. Len(c) : TokenFits(d, i)
  BY <1>3, <1>4, OldTokensFit
<1>6. TokenFits(d, Len(c) + 1)
  <2>1. Len(c) + 1 > 1
    BY <1>1
  <2> QED
    BY <1>2, <1>3, <2>1 DEF TokenFits
<1>7. \A i \in 1 .. Len(c) + 1 : i \in 1 .. Len(c) \/ i = Len(c) + 1
  BY <1>1
<1> QED
  BY <1>3, <1>5, <1>6, <1>7, ArrayFits
-----------------------------------------------------------------------------
(* RecordsSpaced, file by file.                                            *)
Apart(c, i, j) ==
  /\ i < j
  /\ c[i].kind = c[j].kind
  /\ c[i].kind \in {"no_device", "active"}
  => c[j].at >= c[i].at + RECORD_INTERVAL

Spaced(c) == \A i, j \in 1 .. Len(c) : Apart(c, i, j)

LEMMA SpacedFiles ==
  RecordsSpaced <=> (~failed => \A n \in FileNames : Spaced(files[n]))
BY DEF RecordsSpaced, Spaced, Apart

LEMMA EmptySpaced == Spaced(<<>>)
<1>1. Len(<<>>) = 0
  OBVIOUS
<1>2. \A i \in 1 .. 0 : FALSE
  OBVIOUS
<1> QED
  BY <1>1, <1>2 DEF Spaced

(* Tokens that are no such record do no harm, nor does a record that is    *)
(* RECORD_INTERVAL later than those of its kind.                           *)
LEMMA OldRecordsApart ==
  ASSUME NEW c, Spaced(c), NEW d, \A i \in 1 .. Len(c) : d[i] = c[i],
         NEW i \in 1 .. Len(c), NEW j \in 1 .. Len(c)
  PROVE  Apart(d, i, j)
<1>1. d[i] = c[i] /\ d[j] = c[j] /\ Apart(c, i, j)
  BY DEF Spaced
<1> QED
  BY <1>1 DEF Apart

LEMMA RecordsSpacedOut ==
  ASSUME NEW c \in Seq(Tokens), Spaced(c), NEW d, NEW a, NEW b,
         PlusTwo(d, c, a, b),
         a.kind \notin {"no_device", "active"}, b.kind # a.kind, b.at \in Int,
         \A i \in 1 .. Len(c) : c[i].kind = b.kind =>
           b.at >= c[i].at + RECORD_INTERVAL
  PROVE  Spaced(d)
<1>1. /\ Len(d) = Len(c) + 2 /\ Len(c) \in Nat
      /\ \A i \in 1 .. Len(c) : d[i] = c[i]
      /\ d[Len(c) + 1] = a /\ d[Len(c) + 2] = b
  BY DEF PlusTwo
<1>2. SUFFICES ASSUME NEW i \in 1 .. Len(c) + 2, NEW j \in 1 .. Len(c) + 2
               PROVE  Apart(d, i, j)
  BY <1>1 DEF Spaced
<1>3. /\ i \in 1 .. Len(c) \/ i = Len(c) + 1 \/ i = Len(c) + 2
      /\ j \in 1 .. Len(c) \/ j = Len(c) + 1 \/ j = Len(c) + 2
  BY <1>1
<1>4. CASE i \in 1 .. Len(c) /\ j \in 1 .. Len(c)
  BY <1>1, <1>4, OldRecordsApart
<1>5. CASE i = Len(c) + 1
  BY <1>1, <1>5 DEF Apart
<1>6. CASE j = Len(c) + 1
  BY <1>1, <1>6 DEF Apart
<1>7. CASE i = Len(c) + 2
  <2>1. i >= j
    BY <1>1, <1>7
  <2> QED
    BY <1>1, <2>1 DEF Apart
<1>8. CASE i \in 1 .. Len(c) /\ j = Len(c) + 2
  BY <1>1, <1>8 DEF Apart
<1> QED
  BY <1>3, <1>4, <1>5, <1>6, <1>7, <1>8

LEMMA SignSpaced ==
  ASSUME NEW c \in Seq(Tokens), Spaced(c), NEW d, NEW a, PlusOne(d, c, a),
         a.kind \notin {"no_device", "active"}
  PROVE  Spaced(d)
<1>1. /\ Len(d) = Len(c) + 1 /\ Len(c) \in Nat
      /\ \A i \in 1 .. Len(c) : d[i] = c[i]
      /\ d[Len(c) + 1] = a
  BY DEF PlusOne
<1>2. SUFFICES ASSUME NEW i \in 1 .. Len(c) + 1, NEW j \in 1 .. Len(c) + 1
               PROVE  Apart(d, i, j)
  BY <1>1 DEF Spaced
<1>3. /\ i \in 1 .. Len(c) \/ i = Len(c) + 1
      /\ j \in 1 .. Len(c) \/ j = Len(c) + 1
  BY <1>1
<1>4. CASE i \in 1 .. Len(c) /\ j \in 1 .. Len(c)
  BY <1>1, <1>4, OldRecordsApart
<1>5. CASE i = Len(c) + 1
  BY <1>1, <1>5 DEF Apart
<1>6. CASE j = Len(c) + 1
  BY <1>1, <1>6 DEF Apart
<1> QED
  BY <1>3, <1>4, <1>5, <1>6
-----------------------------------------------------------------------------
(* What the steps do to the file in use.                                   *)
OthersKept ==
  /\ files' \in [FileNames -> Seq(Tokens)]
  /\ \A n \in FileNames : n # json_filename => files'[n] = files[n]

Grows(k) ==
  OthersKept /\ PlusTwo(files'[json_filename], content, Comma, Record(k, now))

LEMMA ContentTypes ==
  ASSUME TypeOK
  PROVE  /\ content \in Seq(Tokens) /\ json_filename \in FileNames
         /\ \A n \in FileNames : files[n] \in Seq(Tokens)
BY DEF TypeOK, content

LEMMA Written ==
  ASSUME TypeOK, NEW t, AppendToFile(t), content \o t \in Seq(Tokens)
  PROVE  OthersKept /\ files'[json_filename] = content \o t
BY DEF TypeOK, AppendToFile, OthersKept, content

LEMMA TwoWritten ==
  ASSUME TypeOK, NEW a \in Tokens, NEW b \in Tokens, AppendToFile(<<a, b>>)
  PROVE  OthersKept /\ PlusTwo(files'[json_filename], content, a, b)
<1>1. PlusTwo(content \o <<a, b>>, content, a, b)
  BY ContentTypes, AppendTwo
<1>2. content \o <<a, b>> \in Seq(Tokens)
  BY <1>1 DEF PlusTwo
<1>3. OthersKept /\ files'[json_filename] = content \o <<a, b>>
  BY <1>2, Written
<1> QED
  BY <1>1, <1>3

LEMMA OneWritten ==
  ASSUME TypeOK, NEW a \in Tokens, AppendToFile(<<a>>)
  PROVE  OthersKept /\ PlusOne(files'[json_filename], content, a)
<1>1. PlusOne(content \o <<a>>, content, a)
  BY ContentTypes, AppendOne
<1>2. content \o <<a>> \in Seq(Tokens)
  BY <1>1 DEF PlusOne
<1>3. OthersKept /\ files'[json_filename] = content \o <<a>>
  BY <1>2, Written
<1> QED
  BY <1>1, <1>3

LEMMA RecordNow ==
  ASSUME TypeOK, NEW k \in Statuses
  PROVE  /\ Record(k, now) \in Tokens
         /\ Record(k, now).kind = k /\ Record(k, now).at = now /\ now \in Int
<1>1. now \in Int
  BY GnssAssumption DEF TypeOK, Seconds, Boot
<1> QED
  BY <1>1, TokenTypes

LEMMA InitialWritten ==
  ASSUME TypeOK, WriteInitial
  PROVE  /\ pc = "initial" /\ pc' = "idle" /\ is_first_entry' = FALSE
         /\ UNCHANGED <<json_filename, last_record_time, failed, reused>>
         /\ OthersKept
         /\ PlusTwo(files'[json_filename], content, Sign("["), Record("initial", 0))
<1>1. /\ Sign("[") \in Tokens
      /\ Record("initial", 0) \in Tokens
  <2>1. 0 \in Int /\ "initial" \in Statuses
    BY DEF Statuses
  <2> QED
    BY <2>1, TokenTypes
<1>2. AppendToFile(<<Sign("["), Record("initial", 0)>>)
  BY DEF WriteInitial, AppendToFile
<1> QED
  BY <1>1, <1>2, TwoWritten DEF WriteInitial, history, FirstIsWritten

LEMMA NoDeviceWritten ==
  ASSUME TypeOK, NoDevice
  PROVE  /\ pc = "open" /\ pc' = "idle"
         /\ UNCHANGED <<json_filename, is_first_entry, reused>>
         /\ \/ Due /\ failed' = failed /\ last_record_time' = now /\ Grows("no_device")
            \/ UNCHANGED <<files, last_record_time>> /\ (failed' = failed \/ failed')
<1>1. Record("no_device", now) \in Tokens /\ Comma \in Tokens
  BY RecordNow, CommaParts DEF Statuses
<1>2. AppendToFile(<<Comma, Record("no_device", now)>>) => Grows("no_device")
  BY <1>1, TwoWritten DEF Grows
<1> QED
  BY <1>2, Zenon DEF NoDevice, Comma, FopenWorks, FopenMayFail

LEMMA JoinOnes ==
  ASSUME NEW a \in Tokens, NEW b \in Tokens
  PROVE  <<a>> \o <<b>> = <<a, b>>
<1> DEFINE s == <<a>> \o <<b>>
           t == <<a, b>>
<1>1. /\ <<a>> \in Seq(Tokens) /\ Len(<<a>>) = 1 /\ <<a>>[1] = a
      /\ <<b>> \in Seq(Tokens) /\ Len(<<b>>) = 1 /\ <<b>>[1] = b
      /\ t \in Seq(Tokens) /\ Len(t) = 2 /\ t[1] = a /\ t[2] = b
  BY Two
<1>2. PlusOne(s, <<a>>, b)
  BY <1>1, AppendOne
<1>3. s \in Seq(Tokens) /\ Len(s) = 2 /\ s[1] = a /\ s[2] = b
  BY <1>1, <1>2 DEF PlusOne
<1> HIDE DEF s, t
<1>4. \A i \in 1 .. 2 : i = 1 \/ i = 2
  OBVIOUS
<1>5. s = t
  BY <1>1, <1>3, <1>4, SeqEqual
<1> QED
  BY <1>5 DEF s, t

LEMMA SentenceWritten ==
  ASSUME TypeOK, ReadSentence
  PROVE  /\ pc = "read" /\ pc' = "loop"
         /\ UNCHANGED <<json_filename, reused>>
         /\ \/ /\ Due /\ failed' = failed /\ last_record_time' = now
               /\ is_first_entry' = FALSE
               /\ IF is_first_entry
                  THEN /\ OthersKept
                       /\ PlusOne(files'[json_filename], content,
                                  Record("active", now))
                  ELSE Grows("active")
            \/ /\ UNCHANGED <<files, last_record_time, is_first_entry>>
               /\ failed' = failed \/ failed'
<1>1. Record("active", now) \in Tokens /\ Comma \in Tokens
  BY RecordNow, CommaParts DEF Statuses
<1>2. AppendToFile(<<Comma, Record("active", now)>>) => Grows("active")
  BY <1>1, TwoWritten DEF Grows
<1>3. AppendToFile(<<Record("active", now)>>) =>
        /\ OthersKept
        /\ PlusOne(files'[json_filename], content, Record("active", now))
  BY <1>1, OneWritten
<1>4. /\ is_first_entry => Separator \o <<Record("active", now)>> = <<Record("active", now)>>
      /\ ~is_first_entry => Separator \o <<Record("active", now)>> = <<Comma, Record("active", now)>>
  <2>1. <<>> \o <<Record("active", now)>> = <<Record("active", now)>>
    OBVIOUS
  <2>2. <<Comma>> \o <<Record("active", now)>> = <<Comma, Record("active", now)>>
    BY <1>1, JoinOnes
  <2> QED
    BY <2>1, <2>2, Zenon DEF Separator, Comma
<1>5. CASE is_first_entry
  BY <1>3, <1>4, <1>5, Zenon DEF ReadSentence, FopenWorks, FopenMayFail
<1>6. CASE ~is_first_entry
  BY <1>2, <1>4, <1>6, Zenon DEF ReadSentence, FopenWorks, FopenMayFail
<1> QED
  BY <1>5, <1>6

LEMMA EndWritten ==
  ASSUME TypeOK, FinishFile
  PROVE  /\ pc = "finish"
         /\ UNCHANGED <<json_filename, last_record_time, reused>>
         /\ \/ /\ failed' = failed /\ pc' = "rename" /\ is_first_entry' = TRUE
               /\ OthersKept
               /\ PlusOne(files'[json_filename], content, Sign("]"))
            \/ failed' /\ pc' = "idle" /\ UNCHANGED <<files, is_first_entry>>
<1>1. Sign("]") \in Tokens
  BY TokenTypes
<1>2. AppendToFile(End) =>
        OthersKept /\ PlusOne(files'[json_filename], content, Sign("]"))
  BY <1>1, OneWritten DEF End
<1> QED
  BY <1>2, Zenon DEF FinishFile, FopenWorks, FopenMayFail

LEMMA Emptied ==
  ASSUME TypeOK, EmptyFile
  PROVE  /\ pc \in {"create", "fallback", "renew"}
         /\ json_filename' = IF pc = "fallback" THEN Tmp(json_filename)
                             ELSE json_filename
         /\ json_filename' \in FileNames
         /\ UNCHANGED <<is_first_entry, last_record_time>>
         /\ pc' = "fallback" => reused' = reused
         /\ \/ /\ pc' = "initial" /\ failed' = failed
               /\ files' \in [FileNames -> Seq(Tokens)]
               /\ files'[json_filename'] = <<>>
               /\ \A n \in FileNames : n # json_filename' => files'[n] = files[n]
            \/ /\ failed' /\ UNCHANGED files
               /\ \/ pc = "create" /\ pc' = "fallback"
                  \/ pc' = "idle"
<1>1. /\ pc \in {"create", "fallback", "renew"}
      /\ json_filename' = IF pc = "fallback" THEN Tmp(json_filename)
                          ELSE json_filename
      /\ UNCHANGED <<is_first_entry, last_record_time>>
      /\ pc' = "fallback" => reused' = reused
  BY DEF EmptyFile
<1>2. json_filename' \in FileNames
  BY <1>1, NamesExist, ContentTypes
<1>3. CASE /\ FopenWorks
           /\ files' = [files EXCEPT ![json_filename'] = <<>>]
           /\ pc' = "initial"
  <2>1. <<>> \in Seq(Tokens)
    OBVIOUS
  <2>2. files \in [FileNames -> Seq(Tokens)]
    BY DEF TypeOK
  <2>3. /\ files' \in [FileNames -> Seq(Tokens)]
        /\ files'[json_filename'] = <<>>
        /\ \A n \in FileNames : n # json_filename' => files'[n] = files[n]
    BY <1>2, <1>3, <2>1, <2>2, Zenon
  <2> QED
    BY <1>1, <1>2, <1>3, <2>3 DEF FopenWorks
<1>4. CASE /\ FopenMayFail
           /\ pc' = IF pc = "create" THEN "fallback" ELSE "idle"
           /\ UNCHANGED files
  BY <1>1, <1>2, <1>4 DEF FopenMayFail
<1> QED
  BY <1>3, <1>4 DEF EmptyFile

LEMMA Named ==
  ASSUME TypeOK, NameFile
  PROVE  /\ pc' \in {"create", "renew"}
         /\ json_filename' = Card(now) /\ json_filename' \in FileNames
         /\ UNCHANGED <<files, is_first_entry, last_record_time, failed>>
         /\ \A n \in {Card(now), Tmp(Card(now))} : files[n] # <<>> => n \in reused'
<1>1. /\ pc' \in {"create", "renew"}
      /\ json_filename' = Card(now)
      /\ UNCHANGED <<files, is_first_entry, last_record_time, failed>>
      /\ reused' = {n \in {Card(now), Tmp(Card(now))} : files[n] # <<>>}
  BY DEF NameFile, NewName
<1> QED
  BY <1>1, NamesExist

(* The other steps leave the files, and their names, as they are.          *)
Quiet ==
  /\ UNCHANGED <<files, json_filename, failed>>
  /\ reused' = reused \/ pc' = "name"
  /\ \/ UNCHANGED <<pc, is_first_entry, last_record_time>>
     \/ pc = "idle" /\ pc' = "open" /\ UNCHANGED <<is_first_entry, last_record_time>>
     \/ pc = "open" /\ pc' = "loop" /\ UNCHANGED is_first_entry
     \/ /\ pc \in {"loop", "read"} /\ pc' \in {"loop", "read", "finish"}
        /\ UNCHANGED <<is_first_entry, last_record_time>>
     \/ pc' = "name"

LEMMA StepKinds ==
  ASSUME [Next]_vars
  PROVE  \/ NameFile \/ EmptyFile \/ WriteInitial \/ NoDevice \/ ReadSentence
         \/ FinishFile \/ Quiet
<1>1. CASE BeginCollection
  BY <1>1 DEF BeginCollection, Quiet, thread, history
<1>2. CASE OpenSerial
  BY <1>2 DEF OpenSerial, Quiet, history
<1>3. CASE LoopTest
  BY <1>3 DEF LoopTest, Quiet, thread, history
<1>4. CASE ReadNothing
  BY <1>4 DEF ReadNothing, Quiet, thread, history
<1>5. CASE Start
  BY <1>5 DEF Start, Quiet, thread
<1>6. CASE Stop \/ Tick \/ PlugOrUnplug
  BY <1>6 DEF Stop, Tick, PlugOrUnplug, Quiet, thread, history
<1>7. CASE Restart
  BY <1>7 DEF Restart, Started, Quiet
<1>8. CASE UNCHANGED vars
  BY <1>8 DEF vars, Quiet, thread, history
<1> QED
  BY <1>1, <1>2, <1>3, <1>4, <1>5, <1>6, <1>7, <1>8
  DEF Next, ThreadStep, ReadStep
-----------------------------------------------------------------------------
(* The types.                                                              *)
LEMMA ClockGoesOn ==
  ASSUME TypeOK, [Next]_vars
  PROVE  /\ now' \in Seconds /\ now' >= now
         /\ now \in Int /\ now' \in Int
<1>1. RECORD_INTERVAL \in Nat /\ MaxTime \in Nat
  BY GnssAssumption
<1>2. now \in RECORD_INTERVAL .. MaxTime
  BY DEF TypeOK, Seconds, Boot
<1>3. CASE Tick
  BY <1>1, <1>2, <1>3 DEF Tick, Seconds, Boot
<1>4. CASE now' = now
  BY <1>1, <1>2, <1>4 DEF Seconds, Boot
<1>5. now' = now \/ Tick
  BY Zenon
  DEF Next, vars, ThreadStep, ReadStep, NameFile, EmptyFile, WriteInitial,
      BeginCollection, OpenSerial, NoDevice, LoopTest, ReadNothing, ReadSentence,
      FinishFile, Start, Stop, PlugOrUnplug, Restart
<1> QED
  BY <1>3, <1>4, <1>5

LEMMA FilesStay ==
  ASSUME TypeOK, [Next]_vars
  PROVE  files' \in [FileNames -> Seq(Tokens)] /\ json_filename' \in FileNames
<1>1. files \in [FileNames -> Seq(Tokens)] /\ json_filename \in FileNames
  BY DEF TypeOK
<1>2. CASE NameFile
  BY <1>1, <1>2, Named
<1>3. CASE EmptyFile
  BY <1>1, <1>3, Emptied
<1>4. CASE WriteInitial
  BY <1>1, <1>4, InitialWritten DEF OthersKept
<1>5. CASE NoDevice
  BY <1>1, <1>5, NoDeviceWritten DEF OthersKept, Grows
<1>6. CASE ReadSentence
  BY <1>1, <1>6, SentenceWritten DEF OthersKept, Grows
<1>7. CASE FinishFile
  BY <1>1, <1>7, EndWritten DEF OthersKept
<1>8. CASE Quiet
  BY <1>1, <1>8 DEF Quiet
<1> QED
  BY <1>2, <1>3, <1>4, <1>5, <1>6, <1>7, <1>8, StepKinds

LEMMA LastRecordStays ==
  ASSUME TypeOK, [Next]_vars
  PROVE  last_record_time' \in Int /\ last_record_time' <= now'
<1>1. now' >= now /\ now \in Int /\ now' \in Int
  BY ClockGoesOn
<1>2. last_record_time \in Int /\ last_record_time <= now
  BY DEF TypeOK
<1>3. CASE last_record_time' = last_record_time
  BY <1>1, <1>2, <1>3
<1>4. CASE last_record_time' = now
  BY <1>1, <1>4
<1>5. CASE last_record_time' = now - BACKDATE
  <2>1. BACKDATE \in Nat
    BY GnssAssumption
  <2> QED
    BY <1>1, <1>5, <2>1
<1>6. CASE last_record_time' = 0
  <2>1. RECORD_INTERVAL \in Nat /\ MaxTime \in Nat
    BY GnssAssumption
  <2>2. now \in RECORD_INTERVAL .. MaxTime
    BY DEF TypeOK, Seconds, Boot
  <2> QED
    BY <1>1, <1>6, <2>1, <2>2
<1>7. \/ last_record_time' = last_record_time
      \/ last_record_time' = now
      \/ last_record_time' = now - BACKDATE
      \/ last_record_time' = 0
  BY Zenon
  DEF Next, vars, ThreadStep, ReadStep, NameFile, EmptyFile, WriteInitial,
      BeginCollection, OpenSerial, NoDevice, LoopTest, ReadNothing, ReadSentence,
      FinishFile, Start, Stop, Tick, PlugOrUnplug, Restart, Started, Backdated,
      thread
<1> QED
  BY <1>3, <1>4, <1>5, <1>6, <1>7

LEMMA FlagsStay ==
  ASSUME TypeOK, [Next]_vars
  PROVE  /\ running' \in BOOLEAN /\ device' \in BOOLEAN
         /\ is_first_entry' \in BOOLEAN /\ failed' \in BOOLEAN
         /\ reused' \subseteq FileNames
<1> USE DEF thread, history
<1>1. /\ running \in BOOLEAN /\ device \in BOOLEAN
      /\ is_first_entry \in BOOLEAN /\ failed \in BOOLEAN
      /\ reused \subseteq FileNames
  BY DEF TypeOK
<1>2. CASE NameFile
  <2>1. {Card(now), Tmp(Card(now))} \subseteq FileNames
    BY NamesExist
  <2> QED
    BY <1>1, <1>2, <2>1 DEF NameFile
<1>3. CASE EmptyFile \/ WriteInitial
  <2>1. reused' = reused \/ reused' = {}
    BY <1>3 DEF EmptyFile, WriteInitial
  <2> QED
    BY <1>1, <1>3, <2>1
    DEF EmptyFile, WriteInitial, FopenWorks, FopenMayFail, FirstIsWritten
<1>4. CASE BeginCollection \/ OpenSerial \/ LoopTest \/ ReadNothing
  BY <1>1, <1>4 DEF BeginCollection, OpenSerial, LoopTest, ReadNothing
<1>5. CASE NoDevice
  BY <1>1, <1>5 DEF NoDevice, FopenWorks, FopenMayFail
<1>6. CASE ReadSentence
  BY <1>1, <1>6 DEF ReadSentence, FopenWorks, FopenMayFail
<1>7. CASE FinishFile
  BY <1>1, <1>7 DEF FinishFile, FopenWorks, FopenMayFail
<1>8. CASE Start \/ Stop \/ Tick \/ PlugOrUnplug \/ Restart
  BY <1>1, <1>8 DEF Start, Stop, Tick, PlugOrUnplug, Restart, Started
<1>9. CASE UNCHANGED vars
  BY <1>1, <1>9 DEF vars
<1> QED
  BY <1>2, <1>3, <1>4, <1>5, <1>6, <1>7, <1>8, <1>9 DEF Next, ThreadStep, ReadStep

LEMMA CountsStay ==
  ASSUME TypeOK, [Next]_vars
  PROVE  pc' \in PC /\ starts' \in Nat /\ restarts' \in Nat
<1>1. pc \in PC /\ starts \in Nat /\ restarts \in Nat
  BY DEF TypeOK
<1>2. pc' \in PC
  <2>1. pc' = pc \/ pc' \in PC
    BY Zenon
    DEF Next, vars, ThreadStep, ReadStep, NameFile, EmptyFile, WriteInitial,
        BeginCollection, OpenSerial, NoDevice, LoopTest, ReadNothing, ReadSentence,
        FinishFile, Start, Stop, Tick, PlugOrUnplug, Restart, Started, PC
  <2> QED
    BY <1>1, <2>1
<1>3. starts' = starts \/ starts' = starts + 1
  BY Zenon
  DEF Next, vars, ThreadStep, ReadStep, NameFile, EmptyFile, WriteInitial,
      BeginCollection, OpenSerial, NoDevice, LoopTest, ReadNothing, ReadSentence,
      FinishFile, Start, Stop, Tick, PlugOrUnplug, Restart, history
<1>4. restarts' = restarts \/ restarts' = restarts + 1
  BY Zenon
  DEF Next, vars, ThreadStep, ReadStep, NameFile, EmptyFile, WriteInitial,
      BeginCollection, OpenSerial, NoDevice, LoopTest, ReadNothing, ReadSentence,
      FinishFile, Start, Stop, Tick, PlugOrUnplug, Restart, history
<1>5. starts + 1 \in Nat /\ restarts + 1 \in Nat
  BY <1>1
<1> QED
  BY <1>1, <1>2, <1>3, <1>4, <1>5

LEMMA TypeStep ==
  ASSUME TypeOK, [Next]_vars
  PROVE  TypeOK'
<1>1. now' \in Seconds
  BY ClockGoesOn
<1>2. files' \in [FileNames -> Seq(Tokens)] /\ json_filename' \in FileNames
  BY FilesStay
<1>3. last_record_time' \in Int /\ last_record_time' <= now'
  BY LastRecordStays
<1>4. /\ running' \in BOOLEAN /\ device' \in BOOLEAN
      /\ is_first_entry' \in BOOLEAN /\ failed' \in BOOLEAN
      /\ reused' \subseteq FileNames
  BY FlagsStay
<1>5. pc' \in PC /\ starts' \in Nat /\ restarts' \in Nat
  BY CountsStay
<1> QED
  BY <1>1, <1>2, <1>3, <1>4, <1>5 DEF TypeOK
-----------------------------------------------------------------------------
(* The files are arrays.                                                   *)
LEMMA ArrayStep ==
  ASSUME TypeOK, ArrayInv, [Next]_vars
  PROVE  ArrayInv'
<1> SUFFICES ASSUME ~failed'
             PROVE  /\ \A n \in FileNames : Array(files'[n])
                    /\ pc' # "fallback"
                    /\ pc' = "initial" => content' = <<>>
                    /\ pc' \in InFile => Begun(content') /\ is_first_entry' = FALSE
  <2>1. is_first_entry' \in BOOLEAN
    BY FlagsStay
  <2> QED
    BY <2>1 DEF ArrayInv
<1>0. failed' = failed => ~failed
  BY DEF TypeOK
<1>1. ASSUME ~failed
      PROVE  /\ \A n \in FileNames : Array(files[n])
             /\ pc # "fallback"
             /\ pc = "initial" => content = <<>>
             /\ pc \in InFile => Begun(content) /\ is_first_entry = FALSE
  BY <1>1 DEF ArrayInv, TypeOK
<1>2. content' = files'[json_filename'] /\ content = files[json_filename]
  BY DEF content
<1>3. json_filename \in FileNames /\ content \in Seq(Tokens)
  BY ContentTypes
<1>4. \A n \in FileNames : n = json_filename \/ n # json_filename
  OBVIOUS
<1>5. CASE NameFile
  BY <1>1, <1>5, Named DEF InFile
<1>6. CASE EmptyFile
  <2>1. /\ pc' = "initial" /\ failed' = failed
        /\ files'[json_filename'] = <<>>
        /\ \A n \in FileNames : n # json_filename' => files'[n] = files[n]
    BY <1>6, Emptied
  <2>2. \A n \in FileNames : Array(files'[n])
    BY <1>1, <2>1, EmptyArray
  <2> QED
    BY <1>2, <2>1, <2>2 DEF InFile
<1>7. CASE WriteInitial
  <2>1. /\ pc = "initial" /\ pc' = "idle" /\ is_first_entry' = FALSE
        /\ UNCHANGED <<json_filename, failed>>
        /\ OthersKept
        /\ PlusTwo(files'[json_filename], content, Sign("["), Record("initial", 0))
    BY <1>7, InitialWritten
  <2>2. Sign("[").kind = "[" /\ Record("initial", 0).kind = "initial"
    <3>1. 0 \in Int /\ "initial" \in Statuses
      BY DEF Statuses
    <3> QED
      BY <3>1, TokenTypes
  <2>3. Begun(files'[json_filename])
    BY <1>1, <2>1, <2>2, BeginsArray
  <2>4. \A n \in FileNames : Array(files'[n])
    BY <1>1, <1>4, <2>1, <2>3 DEF OthersKept, Begun
  <2> QED
    BY <1>2, <2>1, <2>3, <2>4
<1>8. CASE NoDevice
  <2>1. /\ pc = "open" /\ pc' = "idle" /\ ~failed
        /\ UNCHANGED <<json_filename, is_first_entry>>
        /\ Grows("no_device") \/ UNCHANGED files
    BY <1>8, NoDeviceWritten
  <2>2. Begun(content) /\ is_first_entry = FALSE
    BY <1>1, <2>1 DEF InFile
  <2>3. CASE Grows("no_device")
    <3>1. /\ OthersKept
          /\ PlusTwo(files'[json_filename], content, Comma, Record("no_device", now))
      BY <2>3 DEF Grows
    <3>2. IsComma(Comma) /\ IsRecord(Record("no_device", now))
      BY CommaParts, RecordNow DEF IsRecord, Statuses
    <3>3. Begun(files'[json_filename])
      BY <1>3, <2>2, <3>1, <3>2, RecordsArray
    <3>4. \A n \in FileNames : Array(files'[n])
      BY <1>1, <1>4, <2>1, <3>1, <3>3 DEF OthersKept, Begun
    <3> QED
      BY <1>2, <2>1, <2>2, <3>3, <3>4
  <2>4. CASE UNCHANGED files
    BY <1>1, <1>2, <2>1, <2>2, <2>4
  <2> QED
    BY <2>1, <2>3, <2>4
<1>9. CASE ReadSentence
  <2>1. pc = "read" /\ pc' = "loop" /\ ~failed /\ json_filename' = json_filename
    BY <1>0, <1>9, SentenceWritten, Zenon
  <2>2. Begun(content) /\ is_first_entry = FALSE
    BY <1>1, <2>1 DEF InFile
  <2>3. /\ is_first_entry' = FALSE
        /\ Grows("active") \/ UNCHANGED files
    BY <1>9, <2>2, SentenceWritten
  <2>4. CASE Grows("active")
    <3>1. /\ OthersKept
          /\ PlusTwo(files'[json_filename], content, Comma, Record("active", now))
      BY <2>4 DEF Grows
    <3>2. IsComma(Comma) /\ IsRecord(Record("active", now))
      BY CommaParts, RecordNow DEF IsRecord, Statuses
    <3>3. Begun(files'[json_filename])
      BY <1>3, <2>2, <3>1, <3>2, RecordsArray
    <3>4. \A n \in FileNames : Array(files'[n])
      BY <1>1, <1>4, <2>1, <3>1, <3>3 DEF OthersKept, Begun
    <3> QED
      BY <1>2, <2>1, <2>3, <3>3, <3>4
  <2>5. CASE UNCHANGED files
    BY <1>1, <1>2, <2>1, <2>2, <2>3, <2>5
  <2> QED
    BY <2>3, <2>4, <2>5
<1>10. CASE FinishFile
  <2>1. /\ pc = "finish" /\ pc' = "rename" /\ ~failed
        /\ UNCHANGED json_filename
        /\ OthersKept
        /\ PlusOne(files'[json_filename], content, Sign("]"))
    BY <1>0, <1>10, EndWritten, Zenon
  <2>2. Begun(content) /\ Sign("]").kind = "]"
    BY <1>1, <2>1, TokenTypes DEF InFile
  <2>3. Array(files'[json_filename])
    BY <1>3, <2>1, <2>2, EndsArray
  <2>4. \A n \in FileNames : Array(files'[n])
    BY <1>1, <1>4, <2>1, <2>3 DEF OthersKept
  <2> QED
    BY <2>1, <2>4 DEF InFile
<1>11. CASE Quiet
  <2>1. UNCHANGED <<files, json_filename, failed, content>>
    BY <1>2, <1>11 DEF Quiet
  <2>2. \/ UNCHANGED <<pc, is_first_entry>>
        \/ pc \in InFile /\ pc' \in InFile /\ UNCHANGED is_first_entry
        \/ pc' = "name"
    BY <1>11 DEF Quiet, InFile
  <2> QED
    BY <1>1, <2>1, <2>2 DEF InFile
<1> QED
  BY <1>5, <1>6, <1>7, <1>8, <1>9, <1>10, <1>11, StepKinds
-----------------------------------------------------------------------------
(* The records are spaced.                                                 *)
LEMMA DueIsLater ==
  ASSUME TypeOK, NEW k, NotAfter(content, k, last_record_time), Due
  PROVE  \A i \in 1 .. Len(content) :
           content[i].kind = k => now >= content[i].at + RECORD_INTERVAL
<1>1. now \in Int /\ last_record_time \in Int /\ RECORD_INTERVAL \in Nat
  BY GnssAssumption DEF TypeOK, Seconds, Boot
<1>2. now - last_record_time >= RECORD_INTERVAL
  BY DEF Due
<1> SUFFICES ASSUME NEW i \in 1 .. Len(content), content[i].kind = k
             PROVE  now >= content[i].at + RECORD_INTERVAL
  OBVIOUS
<1>3. content[i].at \in Int
  BY ContentTypes, InFileTypes
<1>4. content[i].at <= last_record_time
  BY DEF NotAfter
<1> QED
  BY <1>1, <1>2, <1>3, <1>4

LEMMA GrownSpaced ==
  ASSUME TypeOK, NEW k \in {"no_device", "active"}, Grows(k),
         Spaced(content), NotAfter(content, k, last_record_time), Due
  PROVE  Spaced(files'[json_filename])
<1>1. PlusTwo(files'[json_filename], content, Comma, Record(k, now))
  BY DEF Grows
<1>2. k \in Statuses
  BY DEF Statuses
<1>3. Record(k, now).kind = k /\ Record(k, now).at = now /\ now \in Int
  BY <1>2, RecordNow
<1>4. Comma.kind \notin {"no_device", "active"} /\ Record(k, now).kind # Comma.kind
  BY <1>2, <1>3, CommaParts DEF Statuses
<1>5. \A i \in 1 .. Len(content) : content[i].kind = k =>
        now >= content[i].at + RECORD_INTERVAL
  BY DueIsLater
<1> QED
  BY <1>1, <1>3, <1>4, <1>5, ContentTypes, RecordsSpacedOut

LEMMA SpacedStep ==
  ASSUME TypeOK, ArrayInv, RecordsSpaced, SpaceInv, [Next]_vars
  PROVE  RecordsSpaced'
<1> SUFFICES ASSUME ~failed'
             PROVE  \A n \in FileNames : Spaced(files'[n])
  BY DEF RecordsSpaced, Spaced, Apart
<1>0. failed' = failed => ~failed
  BY DEF TypeOK
<1>1. ~failed => \A n \in FileNames : Spaced(files[n])
  BY SpacedFiles
<1>2. json_filename \in FileNames /\ content \in Seq(Tokens)
  BY ContentTypes
<1>3. content = files[json_filename]
  BY DEF content
<1>4. \A n \in FileNames : n = json_filename \/ n # json_filename
  OBVIOUS
<1>5. CASE NameFile
  BY <1>0, <1>1, <1>5, Named
<1>6. CASE EmptyFile
  <2>1. /\ failed' = failed
        /\ files'[json_filename'] = <<>>
        /\ \A n \in FileNames : n # json_filename' => files'[n] = files[n]
    BY <1>6, Emptied
  <2> QED
    BY <1>0, <1>1, <2>1, EmptySpaced
<1>7. CASE WriteInitial
  <2>1. /\ pc = "initial" /\ failed' = failed /\ OthersKept
        /\ PlusTwo(files'[json_filename], content, Sign("["), Record("initial", 0))
    BY <1>7, InitialWritten
  <2>2. /\ Sign("[").kind = "["
        /\ Record("initial", 0).kind = "initial" /\ Record("initial", 0).at = 0
        /\ 0 \in Int
    <3>1. 0 \in Int /\ "initial" \in Statuses
      BY DEF Statuses
    <3> QED
      BY <3>1, TokenTypes
  <2>3. content = <<>>
    BY <1>0, <2>1 DEF ArrayInv
  <2>4. \A i \in 1 .. Len(content) : FALSE
    <3>1. Len(<<>>) = 0
      OBVIOUS
    <3>2. \A i \in 1 .. 0 : FALSE
      OBVIOUS
    <3> QED
      BY <2>3, <3>1, <3>2
  <2>5. Spaced(content)
    BY <2>3, EmptySpaced
  <2>6. Spaced(files'[json_filename])
    BY <1>2, <2>1, <2>2, <2>4, <2>5, RecordsSpacedOut
  <2> QED
    BY <1>0, <1>1, <1>4, <2>1, <2>6 DEF OthersKept
<1>8. CASE NoDevice
  <2>1. /\ pc = "open" /\ ~failed
        /\ (Grows("no_device") /\ Due) \/ UNCHANGED files
    BY <1>0, <1>8, NoDeviceWritten, Zenon
  <2>2. CASE Grows("no_device") /\ Due
    <3>1. NotAfter(content, "no_device", last_record_time)
      BY <2>1 DEF SpaceInv
    <3>2. Spaced(content)
      BY <1>1, <1>2, <1>3, <2>1
    <3>3. Spaced(files'[json_filename])
      BY <2>2, <3>1, <3>2, GrownSpaced
    <3> QED
      BY <1>1, <1>4, <2>1, <2>2, <3>3 DEF Grows, OthersKept
  <2> QED
    BY <1>1, <2>1, <2>2
<1>9. CASE ReadSentence
  <2>1. pc = "read" /\ ~failed
    BY <1>0, <1>9, SentenceWritten, Zenon
  <2>2. ~is_first_entry
    BY <2>1 DEF ArrayInv, InFile
  <2>3. (Grows("active") /\ Due) \/ UNCHANGED files
    BY <1>9, <2>2, SentenceWritten, Zenon
  <2>4. CASE Grows("active") /\ Due
    <3>1. NotAfter(content, "active", last_record_time)
      BY <2>1 DEF SpaceInv
    <3>2. Spaced(content)
      BY <1>1, <1>2, <1>3, <2>1
    <3>3. Spaced(files'[json_filename])
      BY <2>4, <3>1, <3>2, GrownSpaced
    <3> QED
      BY <1>1, <1>4, <2>1, <2>4, <3>3 DEF Grows, OthersKept
  <2> QED
    BY <1>1, <2>1, <2>3, <2>4
<1>10. CASE FinishFile
  <2>1. /\ failed' = failed /\ OthersKept
        /\ PlusOne(files'[json_filename], content, Sign("]"))
    BY <1>0, <1>10, EndWritten, Zenon
  <2>2. Sign("]").kind \notin {"no_device", "active"}
    BY TokenTypes
  <2>3. Spaced(content)
    BY <1>0, <1>1, <1>2, <1>3, <2>1
  <2>4. Spaced(files'[json_filename])
    BY <1>2, <2>1, <2>2, <2>3, SignSpaced
  <2> QED
    BY <1>0, <1>1, <1>4, <2>1, <2>4 DEF OthersKept
<1>11. CASE Quiet
  BY <1>0, <1>1, <1>11 DEF Quiet
<1> QED
  BY <1>5, <1>6, <1>7, <1>8, <1>9, <1>10, <1>11, StepKinds

(* last_record_time stays behind no record that is compared with it.       *)
LEMMA LackingIsNotAfter ==
  ASSUME NEW c, NEW k, NEW t, Lacks(c, k)
  PROVE  NotAfter(c, k, t)
BY DEF Lacks, NotAfter

LEMMA GrownNotAfter ==
  ASSUME TypeOK, NEW k \in {"no_device", "active"}, Grows(k),
         NotAfter(content, k, last_record_time)
  PROVE  NotAfter(files'[json_filename], k, now)
<1> DEFINE d == files'[json_filename]
<1>1. PlusTwo(d, content, Comma, Record(k, now))
  BY DEF Grows
<1> HIDE DEF d
<1>2. k \in Statuses
  BY DEF Statuses
<1>3. Record(k, now).at = now /\ now \in Int
  BY <1>2, RecordNow
<1>4. Comma.kind # k
  BY <1>2, CommaParts
<1>5. /\ Len(content) \in Nat /\ last_record_time \in Int /\ last_record_time <= now
  BY ContentTypes DEF TypeOK
<1> SUFFICES ASSUME NEW i \in 1 .. Len(d), d[i].kind = k
             PROVE  d[i].at <= now
  BY DEF NotAfter, d
<1>6. Len(d) = Len(content) + 2
  BY <1>1 DEF PlusTwo
<1>7. i \in 1 .. Len(content) \/ i = Len(content) + 1 \/ i = Len(content) + 2
  BY <1>5, <1>6
<1>8. CASE i \in 1 .. Len(content)
  <2>1. d[i] = content[i]
    BY <1>1, <1>8 DEF PlusTwo
  <2>2. content[i].at \in Int
    BY <1>8, ContentTypes, InFileTypes
  <2>3. content[i].at <= last_record_time
    BY <1>8, <2>1 DEF NotAfter
  <2> QED
    BY <1>3, <1>5, <2>1, <2>2, <2>3
<1>9. CASE i = Len(content) + 1
  BY <1>1, <1>4, <1>9 DEF PlusTwo
<1>10. CASE i = Len(content) + 2
  <2>1. d[i].at = now
    BY <1>1, <1>3, <1>10 DEF PlusTwo
  <2> QED
    BY <1>3, <2>1
<1> QED
  BY <1>7, <1>8, <1>9, <1>10

LEMMA GrownLacks ==
  ASSUME TypeOK, Grows("no_device"), Lacks(content, "active")
  PROVE  Lacks(files'[json_filename], "active")
<1> DEFINE d == files'[json_filename]
<1>1. PlusTwo(d, content, Comma, Record("no_device", now))
  BY DEF Grows
<1>2. "no_device" \in Statuses /\ "active" \in Statuses
  BY DEF Statuses
<1>3. Record("no_device", now).kind = "no_device" /\ Comma.kind # "active"
  BY <1>2, RecordNow, CommaParts
<1> HIDE DEF d
<1>4. Len(content) \in Nat /\ Len(d) = Len(content) + 2
  BY <1>1, ContentTypes DEF PlusTwo
<1>5. \A i \in 1 .. Len(d) :
        i \in 1 .. Len(content) \/ i = Len(content) + 1 \/ i = Len(content) + 2
  BY <1>4
<1>6. \A i \in 1 .. Len(d) : d[i].kind # "active"
  BY <1>1, <1>3, <1>5 DEF PlusTwo, Lacks
<1> QED
  BY <1>6 DEF Lacks, d
LEMMA SpaceStep ==
  ASSUME TypeOK, ArrayInv, SpaceInv, [Next]_vars
  PROVE  SpaceInv'
<1> SUFFICES ASSUME ~failed'
             PROVE  /\ pc' \in {"idle", "open"} =>
                         /\ Lacks(content', "active")
                         /\ NotAfter(content', "no_device", last_record_time')
                    /\ pc' \in {"loop", "read", "finish"} =>
                         NotAfter(content', "active", last_record_time')
  BY DEF SpaceInv, Lacks, NotAfter
<1>0. failed' = failed => ~failed
  BY DEF TypeOK
<1>1. ~failed =>
        /\ pc \in {"idle", "open"} =>
             /\ Lacks(content, "active")
             /\ NotAfter(content, "no_device", last_record_time)
        /\ pc \in {"loop", "read", "finish"} =>
             NotAfter(content, "active", last_record_time)
  BY DEF SpaceInv
<1>2. content = files[json_filename] /\ content' = files'[json_filename']
  BY DEF content
<1>3. CASE NameFile
  BY <1>3, Named
<1>4. CASE EmptyFile
  <2>1. pc' = "initial"
    BY <1>4, Emptied
  <2> QED
    BY <2>1
<1>5. CASE WriteInitial
  <2>1. /\ pc = "initial" /\ pc' = "idle"
        /\ UNCHANGED <<json_filename, failed>>
        /\ PlusTwo(files'[json_filename], content, Sign("["), Record("initial", 0))
    BY <1>5, InitialWritten
  <2>2. Sign("[").kind = "[" /\ Record("initial", 0).kind = "initial"
    <3>1. 0 \in Int /\ "initial" \in Statuses
      BY DEF Statuses
    <3> QED
      BY <3>1, TokenTypes
  <2>3. content = <<>>
    BY <1>0, <2>1 DEF ArrayInv
  <2>4. Len(content) = 0
    <3>1. Len(<<>>) = 0
      OBVIOUS
    <3> QED
      BY <2>3, <3>1
  <2>5. /\ Len(content') = 2
        /\ content'[1].kind = "[" /\ content'[2].kind = "initial"
    BY <1>2, <2>1, <2>2, <2>4 DEF PlusTwo
  <2>6. \A i \in 1 .. 2 : i = 1 \/ i = 2
    OBVIOUS
  <2>7. /\ \A i \in 1 .. Len(content') : content'[i].kind # "active"
        /\ \A i \in 1 .. Len(content') : content'[i].kind # "no_device"
    BY <2>5, <2>6
  <2>8. Lacks(content', "active") /\ NotAfter(content', "no_device", last_record_time')
    BY <2>7 DEF Lacks, NotAfter
  <2> QED
    BY <2>1, <2>8
<1>6. CASE NoDevice
  <2>1. /\ pc = "open" /\ pc' = "idle" /\ ~failed /\ json_filename' = json_filename
        /\ \/ Grows("no_device") /\ last_record_time' = now
           \/ UNCHANGED <<files, last_record_time>>
    BY <1>0, <1>6, NoDeviceWritten, Zenon
  <2>2. Lacks(content, "active") /\ NotAfter(content, "no_device", last_record_time)
    BY <1>1, <2>1
  <2>3. CASE Grows("no_device") /\ last_record_time' = now
    <3>1. /\ Lacks(files'[json_filename], "active")
          /\ NotAfter(files'[json_filename], "no_device", now)
      BY <2>2, <2>3, GrownLacks, GrownNotAfter
    <3> QED
      BY <1>2, <2>1, <2>3, <3>1
  <2>4. CASE UNCHANGED <<files, last_record_time>>
    BY <1>2, <2>1, <2>2, <2>4
  <2> QED
    BY <2>1, <2>3, <2>4
<1>7. CASE ReadSentence
  <2>1. /\ pc = "read" /\ pc' = "loop" /\ ~failed
        /\ json_filename' = json_filename
    BY <1>0, <1>7, SentenceWritten, Zenon
  <2>2. ~is_first_entry
    BY <2>1 DEF ArrayInv, InFile
  <2>3. \/ Grows("active") /\ last_record_time' = now
        \/ UNCHANGED <<files, last_record_time>>
    BY <1>7, <2>2, SentenceWritten, Zenon
  <2>4. NotAfter(content, "active", last_record_time)
    BY <1>1, <2>1
  <2>5. CASE Grows("active") /\ last_record_time' = now
    <3>1. NotAfter(files'[json_filename], "active", now)
      BY <2>4, <2>5, GrownNotAfter
    <3> QED
      BY <1>2, <2>1, <2>5, <3>1
  <2>6. CASE UNCHANGED <<files, last_record_time>>
    BY <1>2, <2>1, <2>4, <2>6
  <2> QED
    BY <2>3, <2>5, <2>6
<1>8. CASE FinishFile
  <2>1. pc' = "rename"
    BY <1>8, EndWritten, Zenon
  <2> QED
    BY <2>1
<1>9. CASE Quiet
  <2>1. ~failed /\ content' = content
    BY <1>0, <1>2, <1>9 DEF Quiet
  <2>2. CASE UNCHANGED <<pc, last_record_time>>
    BY <1>1, <2>1, <2>2
  <2>3. CASE pc = "idle" /\ pc' = "open" /\ UNCHANGED last_record_time
    BY <1>1, <2>1, <2>3
  <2>4. CASE pc = "open" /\ pc' = "loop"
    BY <1>1, <2>1, <2>4, LackingIsNotAfter
  <2>5. CASE /\ pc \in {"loop", "read"} /\ pc' \in {"loop", "read", "finish"}
             /\ UNCHANGED last_record_time
    BY <1>1, <2>1, <2>5
  <2>6. CASE pc' = "name"
    BY <2>6
  <2> QED
    BY <1>9, <2>2, <2>3, <2>4, <2>5, <2>6 DEF Quiet
<1> QED
  BY <1>3, <1>4, <1>5, <1>6, <1>7, <1>8, <1>9, StepKinds
-----------------------------------------------------------------------------
(* What was written is kept.                                               *)
LEMMA ReuseStep ==
  ASSUME TypeOK, ReuseInv, [Next]_vars
  PROVE  ReuseInv'
<1> SUFFICES ASSUME pc' \in {"create", "fallback", "renew"}
             PROVE  /\ content' # <<>> => json_filename' \in reused'
                    /\ files'[Tmp(json_filename')] # <<>> =>
                         Tmp(json_filename') \in reused'
  BY DEF ReuseInv, FopenPC, Tmp
<1>1. content = files[json_filename] /\ content' = files'[json_filename']
  BY DEF content
<1>2. CASE NameFile
  BY <1>1, <1>2, Named
<1>3. CASE EmptyFile
  <2>1. /\ pc = "create" /\ json_filename' = json_filename
        /\ UNCHANGED <<files, reused>>
    BY <1>3, Emptied, Zenon
  <2> QED
    BY <1>1, <2>1 DEF ReuseInv, FopenPC
<1>4. CASE WriteInitial
  BY <1>4 DEF WriteInitial
<1>5. CASE NoDevice
  BY <1>5 DEF NoDevice
<1>6. CASE ReadSentence
  BY <1>6 DEF ReadSentence
<1>7. CASE FinishFile
  BY <1>7 DEF FinishFile
<1>8. CASE Quiet
  <2>1. UNCHANGED <<files, json_filename, pc, reused>>
    BY <1>8 DEF Quiet
  <2> QED
    BY <1>1, <2>1 DEF ReuseInv, FopenPC
<1> QED
  BY <1>2, <1>3, <1>4, <1>5, <1>6, <1>7, <1>8, StepKinds

(* A file begins as it was if it is as it was, or longer.                  *)
LEMMA Longer ==
  /\ \A c \in Seq(Tokens) : Begins(c, c)
  /\ \A c \in Seq(Tokens) : \A d, a, b : PlusTwo(d, c, a, b) => Begins(c, d)
  /\ \A c \in Seq(Tokens) : \A d, a : PlusOne(d, c, a) => Begins(c, d)
<1>1. \A c \in Seq(Tokens) :
        /\ Len(c) \in Nat
        /\ Len(c) <= Len(c) /\ Len(c) <= Len(c) + 1 /\ Len(c) <= Len(c) + 2
  OBVIOUS
<1> QED
  BY <1>1, Zenon DEF PlusTwo, PlusOne, Begins

Kept ==
  \A n \in FileNames : Begins(files[n], files'[n]) \/ EmptiedAgain(n)

(* A step that leaves the other files alone, and the one in use beginning  *)
(* as it was.                                                              *)
LEMMA KeptIfLonger ==
  ASSUME TypeOK, OthersKept, Begins(content, files'[json_filename])
  PROVE  Kept
<1>1. \A n \in FileNames : n = json_filename \/ files'[n] = files[n]
  BY DEF OthersKept
<1>2. \A n \in FileNames : Begins(files[n], files[n])
  BY ContentTypes, Longer
<1> QED
  BY <1>1, <1>2 DEF Kept, content

LEMMA KeptIfSame == TypeOK /\ UNCHANGED files => Kept
BY ContentTypes, Longer DEF Kept

LEMMA StepKeeps ==
  ASSUME TypeOK, ReuseInv, [Next]_vars
  PROVE  Kept
<1>1. content \in Seq(Tokens)
  BY ContentTypes
<1>2. \A n \in FileNames : Begins(files[n], files[n])
  BY ContentTypes, Longer
<1>3. CASE NameFile
  BY <1>3, Named, KeptIfSame
<1>4. CASE EmptyFile
  <2>1. CASE UNCHANGED files
    BY <2>1, KeptIfSame
  <2>2. CASE files'[json_filename'] = <<>>
    <3>1. /\ pc \in FopenPC
          /\ json_filename' = Tmp(json_filename) \/ json_filename' = json_filename
          /\ files' # files =>
               \A n \in FileNames : n # json_filename' => files'[n] = files[n]
      BY <1>4, Emptied DEF FopenPC
    <3>2. files[json_filename'] # <<>> => json_filename' \in reused
      BY <3>1 DEF ReuseInv, content
    <3>3. ASSUME NEW n \in FileNames
          PROVE  Begins(files[n], files'[n]) \/ EmptiedAgain(n)
      <4>1. CASE files'[n] = files[n]
        BY <1>2, <4>1
      <4>2. CASE files'[n] # files[n]
        <5>1. n = json_filename' /\ files[n] # <<>>
          BY <2>2, <3>1, <4>2
        <5> QED
          BY <2>2, <3>1, <3>2, <5>1 DEF EmptiedAgain
      <4> QED
        BY <4>1, <4>2
    <3> QED
      BY <3>3 DEF Kept
  <2> QED
    BY <1>4, <2>1, <2>2, Emptied
<1>5. CASE WriteInitial
  BY <1>1, <1>5, InitialWritten, Longer, KeptIfLonger
<1>6. CASE NoDevice
  <2>1. Grows("no_device") \/ UNCHANGED files
    BY <1>6, NoDeviceWritten, Zenon
  <2> QED
    BY <1>1, <2>1, Longer, KeptIfLonger, KeptIfSame DEF Grows
<1>7. CASE ReadSentence
  <2>1. \/ OthersKept /\ PlusOne(files'[json_filename], content, Record("active", now))
        \/ Grows("active")
        \/ UNCHANGED files
    BY <1>7, SentenceWritten, Zenon
  <2> QED
    BY <1>1, <2>1, Longer, KeptIfLonger, KeptIfSame DEF Grows
<1>8. CASE FinishFile
  <2>1. \/ OthersKept /\ PlusOne(files'[json_filename], content, Sign("]"))
        \/ UNCHANGED files
    BY <1>8, EndWritten, Zenon
  <2> QED
    BY <1>1, <2>1, Longer, KeptIfLonger, KeptIfSame
<1>9. CASE Quiet
  BY <1>9, KeptIfSame DEF Quiet
<1> QED
  BY <1>3, <1>4, <1>5, <1>6, <1>7, <1>8, <1>9, StepKinds
-----------------------------------------------------------------------------
(* The invariant holds at the start and is kept by every step.             *)
LEMMA CollectorStart ==
  ASSUME Init
  PROVE  CollectorInv
<1>1. RECORD_INTERVAL \in Nat /\ MaxTime \in Nat /\ MaxTime >= RECORD_INTERVAL
  BY GnssAssumption
<1>2. /\ \A n \in FileNames : files[n] = <<>>
      /\ pc = "name" /\ failed = FALSE
  BY DEF Init
<1>3. TypeOK
  <2>1. now \in Seconds /\ last_record_time \in Int /\ last_record_time <= now
    BY <1>1 DEF Init, Seconds, Boot
  <2>2. json_filename \in FileNames
    BY <2>1 DEF Init, FileNames, Card
  <2>3. files \in [FileNames -> Seq(Tokens)]
    <3>1. <<>> \in Seq(Tokens)
      OBVIOUS
    <3> QED
      BY <3>1 DEF Init
  <2> QED
    BY <2>1, <2>2, <2>3 DEF Init, TypeOK, PC
<1>4. ArrayInv
  BY <1>2, EmptyArray DEF ArrayInv, InFile
<1>5. RecordsSpaced
  BY <1>2, EmptySpaced, SpacedFiles
<1>6. SpaceInv /\ ReuseInv
  BY <1>2 DEF SpaceInv, ReuseInv, FopenPC
<1> QED
  BY <1>3, <1>4, <1>5, <1>6 DEF CollectorInv

LEMMA CollectorStays ==
  ASSUME CollectorInv, [Next]_vars
  PROVE  CollectorInv'
<1>1. TypeOK /\ ArrayInv /\ RecordsSpaced /\ SpaceInv /\ ReuseInv
  BY DEF CollectorInv
<1>2. TypeOK'
  BY <1>1, TypeStep
<1>3. ArrayInv'
  BY <1>1, ArrayStep
<1>4. RecordsSpaced'
  BY <1>1, SpacedStep
<1>5. SpaceInv'
  BY <1>1, SpaceStep
<1>6. ReuseInv'
  BY <1>1, ReuseStep
<1> QED
  BY <1>2, <1>3, <1>4, <1>5, <1>6 DEF CollectorInv

LEMMA CollectorInvariant == Spec => []CollectorInv
<1>1. Init => CollectorInv
  BY CollectorStart
<1>2. CollectorInv /\ [Next]_vars => CollectorInv'
  BY CollectorStays
<1> QED
  BY <1>1, <1>2, PTL DEF Spec

(* Every variable keeps its type, and the last record is never in the      *)
(* future, where it would put off the next: gnss_reading_thread sets it to *)
(* the time, or back.                                                      *)
THEOREM CollectorTypes == Spec => []TypeOK
<1>1. CollectorInv => TypeOK
  BY DEF CollectorInv
<1> QED
  BY <1>1, CollectorInvariant, PTL

(* As long as every fopen worked, every file gnss_reading_thread wrote is  *)
(* a JSON array or the beginning of one, however often collection was      *)
(* started and stopped, the device lost and the process restarted.         *)
THEOREM ArraysWritten == Spec => []FilesAreArrays
<1>1. CollectorInv => FilesAreArrays
  BY DEF CollectorInv, ArrayInv, FilesAreArrays
<1> QED
  BY <1>1, CollectorInvariant, PTL

(* Then, too, two records of one kind in a file are at least               *)
(* RECORD_INTERVAL apart, although opening the serial port sets            *)
(* last_record_time back.                                                  *)
THEOREM RecordsFarApart == Spec => []RecordsSpaced
<1>1. CollectorInv => RecordsSpaced
  BY DEF CollectorInv
<1> QED
  BY <1>1, CollectorInvariant, PTL

(* Every step leaves what every file holds where it is and adds at its end *)
(* at most, whatever fails and however often collection is stopped and the *)
(* process restarted: gnss_reading_thread appends, and opens for writing   *)
(* only names it has just computed.  Excepted is a file whose name was in  *)
(* use when it was computed, which is emptied.                             *)
THEOREM WrittenStays == Spec => RecordsKept
<1>1. CollectorInv /\ [Next]_vars =>
        [\A n \in FileNames :
           Begins(files[n], files'[n]) \/ EmptiedAgain(n)]_vars
  BY StepKeeps DEF CollectorInv, Kept
<1> QED
  BY <1>1, CollectorInvariant, PTL DEF Spec, RecordsKept
=============================================================================
