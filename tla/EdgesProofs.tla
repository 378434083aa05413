----------------------------- MODULE EdgesProofs -----------------------------
(***************************************************************************)
(* Theorems about MCEdges, the four components at the edges of the system, *)
(* and about the two of them that have no module of proofs of their own:   *)
(* the parser of the receiver's sentences (NmeaParser), for reads cut off  *)
(* after any of their fields, and what the GNSS process sends to the       *)
(* display (GnssProcess), for pipes of any size and any number of starts,  *)
(* commands and openings.  The sensors are in ImuSensorsProofs, the page   *)
(* in WebViewerProofs.                                                     *)
(***************************************************************************)
EXTENDS MCEdges, ImuSensorsProofs, WebViewerProofs, FiniteSetTheorems, SequenceTheorems

-----------------------------------------------------------------------------
(* The fields of a sentence have names of their own.                       *)
LEMMA FieldsDiffer ==
  /\ DOMAIN Gga = 1..14
  /\ \A i, j \in DOMAIN Gga : Gga[i] = Gga[j] => i = j
BY DEF Gga

(* A sentence that is cut off, or whole, has its tokens where its fields   *)
(* are: nothing moves up.                                                  *)
LEMMA PrefixInPlace ==
  ASSUME NEW k \in DOMAIN Gga, NEW n \in Nat
  PROVE  Tokens({Gga[i] : i \in 1..k}, n) \subseteq {Gga[n]}
<1> DEFINE sentence == {Gga[i] : i \in 1..k}
<1> SUFFICES ASSUME NEW m \in DOMAIN Gga, Gga[m] \in sentence,
                    Number(sentence, m) = n
             PROVE  m = n
  BY DEF Tokens
<1>1. m \in 1..k /\ k \in 1..14
  <2>1. PICK i \in 1..k : Gga[i] = Gga[m]
    OBVIOUS
  <2> QED
    BY <2>1, FieldsDiffer
<1>2. {j \in 1..m : Gga[j] \in sentence} = 1..m
  BY <1>1
<1>3. Cardinality(1..m) = m
  BY <1>1, FS_Interval
<1> QED
  BY <1>2, <1>3 DEF Number

(* A sentence the receiver may send either has nothing missing in front of *)
(* a datum, or is known to have.                                           *)
LEMMA SentenceKinds ==
  ASSUME NEW sentence \in Sentences
  PROVE  \/ HasGap(sentence)
         \/ \E k \in DOMAIN Gga : sentence = {Gga[i] : i \in 1..k}
<1>1. CASE sentence = Fields
  <2>1. sentence = {Gga[i] : i \in 1..14} /\ 14 \in DOMAIN Gga
    BY <1>1, FieldsDiffer DEF Fields
  <2> QED
    BY <2>1
<1>2. CASE sentence \in {{Gga[i] : i \in 1..k} : k \in Cuts}
  BY <1>2, ParserAssumption
<1>3. CASE sentence \in {{"id", "time", "quality", "sats", "hdop", "checksum"},
                         {"id", "quality", "sats", "hdop", "checksum"}}
  <2>1. Gga[3] = "lat" /\ Gga[7] = "quality" /\ Position["altitude"] = 10
    BY DEF Gga, Position
  <2>2. Gga[3] \notin sentence /\ Gga[7] \in sentence
    BY <1>3, <2>1
  <2> QED
    BY <2>1, <2>2, FieldsDiffer DEF HasGap
<1> QED
  BY <1>1, <1>2, <1>3 DEF Sentences

(* The position parse_nmea takes a datum from is that of its own field.    *)
LEMMA OwnPositions ==
  \A f \in DOMAIN Position : Position[f] \in 1..14 /\ Gga[Position[f]] = OwnField[f]
BY DEF Position, Gga, OwnField

-----------------------------------------------------------------------------
(* One read leaves every datum as it was or takes it from a field of the   *)
(* sentence; from its own, if no field is missing before it.               *)
LEMMA DatumTaken ==
  ASSUME NEW sentence \in Sentences, NEW data, NEW f \in DOMAIN Position
  PROVE  /\ ParseNmea(sentence, data)[f] \in {data[f]} \cup Fields
         /\ HasGap(sentence)
              \/ ParseNmea(sentence, data)[f] \in {data[f], OwnField[f]}
<1> DEFINE found == Tokens(sentence, Position[f])
           datum == ParseNmea(sentence, data)[f]
<1>1. datum = data[f] \/ datum \in found
  BY DEF ParseNmea
<1>2. found \subseteq Fields
  BY DEF Tokens, Fields
<1>3. ASSUME ~HasGap(sentence) PROVE found \subseteq {OwnField[f]}
  <2>1. PICK k \in DOMAIN Gga : sentence = {Gga[i] : i \in 1..k}
    BY <1>3, SentenceKinds
  <2>2. Position[f] \in Nat /\ Gga[Position[f]] = OwnField[f]
    BY OwnPositions
  <2> QED
    BY <2>1, <2>2, PrefixInPlace
<1> HIDE DEF found, datum
<1> QED
  BY <1>1, <1>2, <1>3 DEF datum

ParserInv == ParserTypeOK /\ DataFromOwnField

LEMMA ParserStart == ParserInit => ParserInv
BY DEF ParserInit, ParserInv, ParserTypeOK, DataFromOwnField

LEMMA ParserStep == ParserInv /\ [ParserNext]_parserVars => ParserInv'
<1> SUFFICES ASSUME ParserInv, [ParserNext]_parserVars PROVE ParserInv'
  OBVIOUS
<1> USE DEF ParserInv, ParserTypeOK, DataFromOwnField
<1>1. ASSUME NEW sentence \in Sentences, ReadSentence(sentence)
      PROVE  ParserInv'
  <2>1. /\ gnss_data' = ParseNmea(sentence, gnss_data)
        /\ gaps' = (gaps \/ HasGap(sentence))
    BY <1>1 DEF ReadSentence
  <2>2. \A f \in DOMAIN Position : gnss_data'[f] \in Fields \cup {"none"}
    BY <2>1, DatumTaken
  <2>3. gnss_data' \in [DOMAIN Position -> Fields \cup {"none"}]
    BY <2>1, <2>2 DEF ParseNmea
  <2>4. gaps' \in BOOLEAN
    BY <2>1 DEF HasGap
  <2>5. ASSUME ~gaps', NEW f \in DOMAIN Position
        PROVE  gnss_data'[f] \in {"none", OwnField[f]}
    <3>1. ~gaps /\ ~HasGap(sentence)
      BY <2>1, <2>5
    <3>2. gnss_data'[f] \in {gnss_data[f], OwnField[f]}
      BY <2>1, <3>1, DatumTaken
    <3> QED
      BY <3>1, <3>2
  <2> QED
    BY <2>3, <2>4, <2>5
<1>2. CASE UNCHANGED parserVars
  BY <1>2 DEF parserVars
<1> QED
  BY <1>1, <1>2 DEF ParserNext

(* Every datum comes from its own field of this or of an earlier sentence, *)
(* after whichever field the reads were cut off, unless a sentence had an  *)
(* empty field in front of others.                                         *)
THEOREM DataStayInPlace == ParserSpec => []DataFromOwnField
<1>1. ParserInv => DataFromOwnField
  BY DEF ParserInv
<1> QED
  BY <1>1, ParserStart, ParserStep, PTL DEF ParserSpec

-----------------------------------------------------------------------------
(* In any sentence, whatever fields it lacks, the number of a field is at  *)
(* most its place, and later fields that are there have higher numbers.    *)
LEMMA NumbersGrow ==
  ASSUME NEW sentence, NEW j \in DOMAIN Gga
  PROVE  /\ Number(sentence, j) \in Nat /\ Number(sentence, j) <= j
         /\ \A i \in DOMAIN Gga :
              i < j /\ Gga[j] \in sentence => Number(sentence, i) < Number(sentence, j)
<1> DEFINE Present(i) == {m \in 1..i : Gga[m] \in sentence}
<1>1. j \in 1..14
  BY FieldsDiffer
<1>2. IsFiniteSet(1..j) /\ Cardinality(1..j) = j
  BY <1>1, FS_Interval
<1>3. /\ IsFiniteSet(Present(j))
      /\ Cardinality(Present(j)) \in Nat /\ Cardinality(Present(j)) <= j
  <2>1. Present(j) \subseteq 1..j
    OBVIOUS
  <2> QED
    BY <1>2, <2>1, FS_Subset, FS_CardinalityType
<1>4. ASSUME NEW i \in DOMAIN Gga, i < j, Gga[j] \in sentence
      PROVE  Cardinality(Present(i)) < Cardinality(Present(j))
  <2>1. i \in 1..14
    BY FieldsDiffer
  <2>2. Present(i) \subseteq Present(j)
    BY <1>1, <1>4, <2>1
  <2>3. j \in Present(j) /\ j \notin Present(i)
    BY <1>1, <1>4, <2>1
  <2>4. Cardinality(Present(i)) \in Nat
    BY <1>3, <2>2, FS_Subset, FS_CardinalityType
  <2>5. /\ Cardinality(Present(i)) <= Cardinality(Present(j))
        /\ Cardinality(Present(i)) # Cardinality(Present(j))
    <3> HIDE DEF Present
    <3> QED
      BY <1>3, <2>2, <2>3, FS_Subset
  <2> HIDE DEF Present
  <2> QED
    BY <1>3, <2>4, <2>5
<1> QED
  BY <1>3, <1>4 DEF Number

(* A sentence has one n-th token at most, so that the parser's choice is   *)
(* none, and it is the field at the n-th place or a later one.             *)
LEMMA TokenIsOne ==
  ASSUME NEW sentence, NEW n \in 1..14
  PROVE  /\ \A a, b \in Tokens(sentence, n) : a = b
         /\ Tokens(sentence, n) \subseteq {Gga[i] : i \in n..14}
<1>1. ASSUME NEW i \in DOMAIN Gga, NEW j \in DOMAIN Gga,
             Gga[i] \in sentence, Gga[j] \in sentence,
             Number(sentence, i) = n, Number(sentence, j) = n
      PROVE  i = j
  <2>1. i \in 1..14 /\ j \in 1..14
    BY FieldsDiffer
  <2>2. ~(i < j) /\ ~(j < i)
    BY <1>1, NumbersGrow
  <2> QED
    BY <2>1, <2>2
<1>2. ASSUME NEW i \in DOMAIN Gga, Number(sentence, i) = n
      PROVE  i \in n..14
  BY <1>2, NumbersGrow, FieldsDiffer
<1> QED
  BY <1>1, <1>2 DEF Tokens

(* An empty field moves later ones up and never earlier ones down: every   *)
(* datum is from its own field or from one behind it in a sentence of the  *)
(* receiver, with and without a fix, whole or cut off, over any reads.     *)
NotFromEarlier ==
  \A f \in DOMAIN Position :
    gnss_data[f] \in {"none"} \cup {Gga[i] : i \in Position[f]..14}

THEOREM DataMoveUpOnly == ParserSpec => []NotFromEarlier
<1>1. ParserInit => NotFromEarlier
  BY DEF ParserInit, NotFromEarlier
<1>2. NotFromEarlier /\ [ParserNext]_parserVars => NotFromEarlier'
  <2> SUFFICES ASSUME NotFromEarlier, [ParserNext]_parserVars
               PROVE  NotFromEarlier'
    OBVIOUS
  <2>1. ASSUME NEW sentence \in Sentences, ReadSentence(sentence),
               NEW f \in DOMAIN Position
        PROVE  gnss_data'[f] \in {"none"} \cup {Gga[i] : i \in Position[f]..14}
    <3> DEFINE found == Tokens(sentence, Position[f])
    <3>1. gnss_data'[f] = gnss_data[f] \/ gnss_data'[f] \in found
      BY <2>1 DEF ReadSentence, ParseNmea
    <3>2. found \subseteq {Gga[i] : i \in Position[f]..14}
      BY OwnPositions, TokenIsOne
    <3> HIDE DEF found
    <3> QED
      BY <3>1, <3>2 DEF NotFromEarlier
  <2>2. CASE UNCHANGED parserVars
    BY <2>2 DEF NotFromEarlier, parserVars
  <2> QED
    BY <2>1, <2>2 DEF NotFromEarlier, ParserNext
<1> QED
  BY <1>1, <1>2, PTL DEF ParserSpec
-----------------------------------------------------------------------------
(* A thread about to write has a pipe open, and there are no threads       *)
(* without the process.                                                    *)
WriterHasPipe == \A t \in Senders : step[t] = "write" => fifo_fd[t] # 0
NoThreadWithout == ~alive => \A t \in Senders : step[t] = "none"

GnssInv == GnssTypeOK /\ WriterHasPipe /\ NoThreadWithout

Steps == {"none", "idle", "send", "write", "unlink", "make", "ended"}

LEMMA GnssStart == GnssInit => GnssInv
<1> SUFFICES ASSUME GnssInit PROVE GnssInv
  OBVIOUS
<1>1. pipe = <<>> /\ pipe \in Seq(0..PIPE_BUF) /\ Len(pipe) = 0
  BY DEF GnssInit
<1>2. RECORD_INTERVAL \in 0..RECORD_INTERVAL
  BY GnssProcessAssumption
<1>3. {alive, running, serial_fd, overtaken} \subseteq BOOLEAN
  BY DEF GnssInit
<1>4. /\ fifo_fd \in [Senders -> 0..Len(pipe)] /\ awake \in [Senders -> BOOLEAN]
      /\ step \in [Senders -> Steps]
  BY <1>1 DEF GnssInit, Steps
<1>5. \A t \in Senders : step[t] = "none"
  BY DEF GnssInit
<1>6. /\ {path, reader} \subseteq 0..Len(pipe)
      /\ {sinceRecord, sinceUpdate} \subseteq 0..RECORD_INTERVAL
      /\ {processStarts, switches, displayOpens} \subseteq Nat
  BY <1>1, <1>2 DEF GnssInit
<1> QED
  BY <1>1, <1>3, <1>4, <1>5, <1>6 DEF GnssInv, GnssTypeOK, WriterHasPipe,
     NoThreadWithout, Steps

(* A function on the indices of a sequence is a sequence of that length.   *)
LEMMA FunctionSeq ==
  ASSUME NEW S, NEW seq \in Seq(S), NEW f \in [DOMAIN seq -> S]
  PROVE  f \in Seq(S) /\ Len(f) = Len(seq)
<1>1. Len(seq) \in Nat /\ DOMAIN seq = 1..Len(seq)
  OBVIOUS
<1> QED
  BY <1>1

(* What is lost leaves as many pipes, which hold no more than before.      *)
LEMMA LostLeavesPipes ==
  ASSUME NEW openFor, pipe \in Seq(0..PIPE_BUF)
  PROVE  LostWith(openFor) \in Seq(0..PIPE_BUF) /\ Len(LostWith(openFor)) = Len(pipe)
<1> DEFINE Numbers == 0..PIPE_BUF
<1>1. 0 \in Numbers /\ pipe \in Seq(Numbers)
  BY GnssProcessAssumption
<1> HIDE DEF Numbers
<1>2. \A id \in DOMAIN pipe : pipe[id] \in Numbers
  BY <1>1
<1>3. LostWith(openFor) \in [DOMAIN pipe -> Numbers]
  BY <1>1, <1>2 DEF LostWith
<1>4. LostWith(openFor) \in Seq(Numbers) /\ Len(LostWith(openFor)) = Len(pipe)
  BY <1>1, <1>3, FunctionSeq
<1> QED
  BY <1>4 DEF Numbers

(* A new pipe is empty, and the others are as they were.                   *)
LEMMA NewPipe ==
  ASSUME pipe \in Seq(0..PIPE_BUF)
  PROVE  /\ Append(pipe, 0) \in Seq(0..PIPE_BUF)
         /\ Len(Append(pipe, 0)) = Len(pipe) + 1
BY GnssProcessAssumption

(* A pipe that is written or read has its place still.                     *)
LEMMA PipeChanged ==
  ASSUME pipe \in Seq(0..PIPE_BUF), NEW id \in DOMAIN pipe, NEW n \in 0..PIPE_BUF
  PROVE  /\ [pipe EXCEPT ![id] = n] \in Seq(0..PIPE_BUF)
         /\ Len([pipe EXCEPT ![id] = n]) = Len(pipe)
OBVIOUS

(* The process starts, or ends: by a signal, a kill, or a write that finds *)
(* no reader.                                                              *)
LEMMA DieKeeps == GnssInv /\ Die => GnssInv'
<1> SUFFICES ASSUME GnssInv, Die PROVE GnssInv'
  OBVIOUS
<1>1. pipe' \in Seq(0..PIPE_BUF) /\ Len(pipe') = Len(pipe) /\ Len(pipe) \in Nat
  BY LostLeavesPipes DEF Die, GnssInv, GnssTypeOK
<1>2. {alive, running, serial_fd, overtaken}' \subseteq BOOLEAN
  BY DEF Die, gnssHistory, GnssInv, GnssTypeOK
<1>3. /\ (fifo_fd \in [Senders -> 0..Len(pipe)])'
      /\ (awake \in [Senders -> BOOLEAN])'
      /\ (step \in [Senders -> Steps])'
  BY <1>1 DEF Die, Steps
<1>4. \A t \in Senders : step'[t] = "none"
  BY DEF Die
<1>5. /\ {path, reader}' \subseteq 0..Len(pipe')
      /\ {sinceRecord, sinceUpdate}' \subseteq 0..RECORD_INTERVAL
      /\ {processStarts, switches, displayOpens}' \subseteq Nat
  BY <1>1 DEF Die, timers, gnssHistory, GnssInv, GnssTypeOK
<1> QED
  BY <1>1, <1>2, <1>3, <1>4, <1>5 DEF GnssInv, GnssTypeOK, WriterHasPipe,
     NoThreadWithout, Steps

LEMMA StartKeeps == GnssInv /\ StartGnss => GnssInv'
<1> SUFFICES ASSUME GnssInv, StartGnss PROVE GnssInv'
  OBVIOUS
<1>1. RECORD_INTERVAL \in 0..RECORD_INTERVAL
  BY GnssProcessAssumption
<1>2. UNCHANGED <<pipe, path, reader, switches, displayOpens>>
  BY DEF StartGnss, fifo
<1>3. /\ {alive, running, serial_fd, overtaken}' \subseteq BOOLEAN
      /\ (fifo_fd \in [Senders -> 0..Len(pipe)])'
  <2>1. Len(pipe) \in Nat /\ Len(pipe') = Len(pipe)
    BY <1>2 DEF GnssInv, GnssTypeOK
  <2>2. (fifo_fd \in [Senders -> 0..Len(pipe)])'
    BY <2>1 DEF StartGnss
  <2>3. {alive, running, serial_fd, overtaken}' \subseteq BOOLEAN
    BY DEF StartGnss, GnssInv, GnssTypeOK
  <2> QED
    BY <2>2, <2>3
<1>4. /\ (step \in [Senders -> Steps])' /\ (awake \in [Senders -> BOOLEAN])'
      /\ WriterHasPipe' /\ NoThreadWithout'
  <2>1. CASE UNCHANGED <<alive, step, awake>>
    BY <2>1 DEF StartGnss, GnssInv, GnssTypeOK, WriterHasPipe, NoThreadWithout,
       Steps
  <2>2. CASE /\ alive' = TRUE
             /\ step' = [reading |-> "idle", update |-> "unlink"]
             /\ awake' = [t \in Senders |-> TRUE]
    <3>1. /\ step' \in [Senders -> Steps]
          /\ \A t \in Senders : step'[t] # "write"
      BY <2>2 DEF Senders, Steps
    <3> QED
      BY <2>2, <3>1 DEF WriterHasPipe, NoThreadWithout
  <2> QED
    BY <2>1, <2>2 DEF StartGnss
<1>5. /\ {path, reader}' \subseteq 0..Len(pipe')
      /\ {sinceRecord, sinceUpdate}' \subseteq 0..RECORD_INTERVAL
      /\ {processStarts, switches, displayOpens}' \subseteq Nat
  BY <1>1, <1>2 DEF StartGnss, GnssInv, GnssTypeOK
<1> QED
  BY <1>2, <1>3, <1>4, <1>5 DEF GnssInv, GnssTypeOK, Steps

(* A thread goes on to a step, and the other stays where it is.            *)
LEMMA ThreadGoes ==
  ASSUME NEW t \in Senders, NEW s \in Steps, GnssInv, Goto(t, s) \/ Rest(t, s)
  PROVE  /\ (step \in [Senders -> Steps])' /\ (awake \in [Senders -> BOOLEAN])'
         /\ step'[t] = s
         /\ \A u \in Senders : u # t => step'[u] = step[u]
<1>1. step \in [Senders -> Steps] /\ awake \in [Senders -> BOOLEAN]
  BY DEF GnssInv, GnssTypeOK, Steps
<1>2. step' = [step EXCEPT ![t] = s]
  BY DEF Goto, Rest
<1>3. awake' = awake \/ awake' = [awake EXCEPT ![t] = FALSE]
  BY DEF Goto, Rest
<1> QED
  BY <1>1, <1>2, <1>3

(* A thread at a step of its own has its process.                          *)
LEMMA ThreadAlive ==
  ASSUME NEW t \in Senders, NEW s \in Steps \ {"none"}, GnssInv, At(t, s)
  PROVE  alive
BY DEF GnssInv, NoThreadWithout, At

(* A step of one thread that leaves the pipes alone, or makes one and      *)
(* changes its name, and leaves the thread short of writing.               *)
LEMMA QuietStep ==
  ASSUME NEW t \in Senders, NEW s \in Steps \ {"write"}, GnssInv, alive,
         Goto(t, s) \/ Rest(t, s) \/ UNCHANGED <<step, awake>>,
         (pipe \in Seq(0..PIPE_BUF))', Len(pipe') >= Len(pipe),
         (path \in 0..Len(pipe))',
         serial_fd' \in BOOLEAN,
         ({sinceRecord, sinceUpdate} \subseteq 0..RECORD_INTERVAL)',
         UNCHANGED <<process, reader, fifo_fd, gnssHistory>>
  PROVE  GnssInv'
<1>1. Len(pipe) \in Nat /\ Len(pipe') \in Nat
  BY DEF GnssInv, GnssTypeOK
<1>2. (fifo_fd \in [Senders -> 0..Len(pipe)])' /\ (reader \in 0..Len(pipe))'
  BY <1>1 DEF GnssInv, GnssTypeOK
<1>3. /\ {alive, running, serial_fd, overtaken}' \subseteq BOOLEAN
      /\ {processStarts, switches, displayOpens}' \subseteq Nat
      /\ alive'
  BY DEF process, gnssHistory, GnssInv, GnssTypeOK
<1>4. /\ (step \in [Senders -> Steps])' /\ (awake \in [Senders -> BOOLEAN])'
      /\ \A u \in Senders : step'[u] = "write" => step[u] = "write"
  <2>1. CASE Goto(t, s) \/ Rest(t, s)
    BY <2>1, ThreadGoes
  <2>2. CASE UNCHANGED <<step, awake>>
    BY <2>2 DEF GnssInv, GnssTypeOK, Steps
  <2> QED
    BY <2>1, <2>2
<1>5. WriterHasPipe'
  BY <1>4 DEF GnssInv, WriterHasPipe
<1> QED
  BY <1>2, <1>3, <1>4, <1>5 DEF GnssInv, GnssTypeOK, NoThreadWithout, Steps

-----------------------------------------------------------------------------
(* A send leaves the pipe it has written to with no more than it holds.    *)
LEMMA SendKeeps ==
  ASSUME NEW t \in Senders, GnssInv, Send(t)
  PROVE  GnssInv'
<1>0. /\ pipe \in Seq(0..PIPE_BUF) /\ Len(pipe) \in Nat
      /\ fifo_fd \in [Senders -> 0..Len(pipe)]
      /\ path \in 0..Len(pipe) /\ reader \in 0..Len(pipe)
      /\ {sinceRecord, sinceUpdate} \subseteq 0..RECORD_INTERVAL
      /\ {alive, running, serial_fd, overtaken} \subseteq BOOLEAN
      /\ {processStarts, switches, displayOpens} \subseteq Nat
      /\ WriterHasPipe
  BY DEF GnssInv, GnssTypeOK
<1>1. CASE OpenFifo(t)
  <2>0. UNCHANGED <<process, fifo, reader, serial_fd, timers, gnssHistory>>
    BY <1>1 DEF OpenFifo
  <2>1. alive
    BY <1>1, ThreadAlive DEF OpenFifo, Steps
  <2>2. CASE /\ path # 0
             /\ fifo_fd' = [fifo_fd EXCEPT ![t] = path]
             /\ Goto(t, "write")
    <3>1. /\ (step \in [Senders -> Steps])' /\ (awake \in [Senders -> BOOLEAN])'
          /\ \A u \in Senders : u # t => step'[u] = step[u]
      BY <2>2, ThreadGoes DEF Steps
    <3>2. /\ (fifo_fd \in [Senders -> 0..Len(pipe)])'
          /\ fifo_fd'[t] # 0
          /\ \A u \in Senders : u # t => fifo_fd'[u] = fifo_fd[u]
      BY <1>0, <2>0, <2>2 DEF fifo
    <3>3. WriterHasPipe'
      BY <1>0, <3>1, <3>2 DEF WriterHasPipe
    <3>4. /\ {alive, running, serial_fd, overtaken}' \subseteq BOOLEAN /\ alive'
          /\ {processStarts, switches, displayOpens}' \subseteq Nat
          /\ {sinceRecord, sinceUpdate}' \subseteq 0..RECORD_INTERVAL
          /\ pipe' \in Seq(0..PIPE_BUF) /\ {path, reader}' \subseteq 0..Len(pipe')
      BY <1>0, <2>0, <2>1 DEF process, fifo, timers, gnssHistory
    <3> QED
      BY <3>1, <3>2, <3>3, <3>4 DEF GnssInv, GnssTypeOK, NoThreadWithout, Steps
  <2>3. CASE Rest(t, "idle") /\ UNCHANGED fifo_fd
    BY <1>0, <2>0, <2>1, <2>3, QuietStep DEF fifo, timers, Steps
  <2> QED
    BY <1>1, <2>2, <2>3 DEF OpenFifo
<1>2. CASE WriteFifo(t)
  <2>0. UNCHANGED <<process, path, reader, serial_fd, sinceRecord, gnssHistory>>
    BY <1>2 DEF WriteFifo
  <2>1. alive /\ reader \in 1..Len(pipe)
    BY <1>0, <1>2, ThreadAlive DEF WriteFifo, At, WriterHasPipe, Steps
  <2>2. pipe' \in Seq(0..PIPE_BUF) /\ Len(pipe') = Len(pipe)
    <3>1. reader \in DOMAIN pipe /\ pipe[reader] \in 0..PIPE_BUF /\ PIPE_BUF \in Nat
      BY <1>0, <2>1, GnssProcessAssumption, ElementOfSeq
    <3>2. CASE /\ pipe[reader] < PIPE_BUF
               /\ pipe' = [pipe EXCEPT ![reader] = pipe[reader] + 1]
      <4>1. pipe[reader] + 1 \in 0..PIPE_BUF
        BY <3>1, <3>2
      <4> QED
        BY <1>0, <3>1, <3>2, <4>1, PipeChanged
    <3>3. CASE pipe' = pipe
      BY <1>0, <3>3
    <3> QED
      BY <1>2, <3>2, <3>3 DEF WriteFifo
  <2>3. /\ (step \in [Senders -> Steps])' /\ (awake \in [Senders -> BOOLEAN])'
        /\ step'[t] = "idle" /\ \A u \in Senders : u # t => step'[u] = step[u]
    BY <1>2, ThreadGoes DEF WriteFifo, Steps
  <2>4. /\ (fifo_fd \in [Senders -> 0..Len(pipe)])'
        /\ \A u \in Senders : u # t => fifo_fd'[u] = fifo_fd[u]
    BY <1>0, <1>2, <2>2 DEF WriteFifo
  <2>5. WriterHasPipe'
    BY <1>0, <2>3, <2>4 DEF WriterHasPipe
  <2>6. {sinceRecord, sinceUpdate}' \subseteq 0..RECORD_INTERVAL
    <3>1. sinceUpdate' \in {0, sinceUpdate} /\ 0 \in 0..RECORD_INTERVAL
      BY <1>2, GnssProcessAssumption DEF WriteFifo
    <3> QED
      BY <1>0, <2>0, <3>1
  <2>7. /\ {alive, running, serial_fd, overtaken}' \subseteq BOOLEAN /\ alive'
        /\ {processStarts, switches, displayOpens}' \subseteq Nat
        /\ {path, reader}' \subseteq 0..Len(pipe')
    BY <1>0, <2>0, <2>1, <2>2 DEF process, gnssHistory
  <2> QED
    BY <2>2, <2>3, <2>4, <2>5, <2>6, <2>7
    DEF GnssInv, GnssTypeOK, NoThreadWithout, Steps
<1>3. CASE BrokenPipe(t)
  BY <1>3, DieKeeps DEF BrokenPipe
<1> QED
  BY <1>1, <1>2, <1>3 DEF Send

(* The reading thread's own steps touch no pipe.                           *)
LEMMA ReadingKeeps == GnssInv /\ ReadingStep => GnssInv'
<1> SUFFICES ASSUME GnssInv, ReadingStep PROVE GnssInv'
  OBVIOUS
<1>0. /\ pipe \in Seq(0..PIPE_BUF) /\ Len(pipe) \in Nat
      /\ path \in 0..Len(pipe) /\ serial_fd \in BOOLEAN
      /\ {sinceRecord, sinceUpdate} \subseteq 0..RECORD_INTERVAL
      /\ 0 \in 0..RECORD_INTERVAL /\ RECORD_INTERVAL \in 0..RECORD_INTERVAL
  BY GnssProcessAssumption DEF GnssInv, GnssTypeOK
<1> DEFINE Own == ReadingIdle \/ NoDevice \/ OpenDevice \/ Collect \/ StopCollecting
<1>1. CASE Own
  <2>1. alive
    BY <1>1, ThreadAlive
    DEF ReadingIdle, NoDevice, OpenDevice, Collect, StopCollecting, Steps, Senders
  <2>2. UNCHANGED <<process, fifo, reader, fifo_fd, gnssHistory>>
    BY <1>1 DEF ReadingIdle, NoDevice, OpenDevice, Collect, StopCollecting, handles
  <2>3. serial_fd' \in BOOLEAN
    BY <1>0, <1>1
    DEF ReadingIdle, NoDevice, OpenDevice, Collect, StopCollecting, handles
  <2>4. {sinceRecord, sinceUpdate}' \subseteq 0..RECORD_INTERVAL
    BY <1>0, <1>1
    DEF ReadingIdle, NoDevice, OpenDevice, Collect, StopCollecting, RecordAndSend,
        timers
  <2>5. /\ (pipe \in Seq(0..PIPE_BUF))' /\ Len(pipe') >= Len(pipe)
        /\ (path \in 0..Len(pipe))'
    BY <1>0, <2>2 DEF fifo
  <2>6. \/ Rest("reading", "idle")
        \/ Goto("reading", "send")
        \/ UNCHANGED <<step, awake>>
    BY <1>1
    DEF ReadingIdle, NoDevice, OpenDevice, Collect, StopCollecting, RecordAndSend
  <2>7. PICK s \in Steps \ {"write"} :
          Goto("reading", s) \/ Rest("reading", s) \/ UNCHANGED <<step, awake>>
    BY <2>6 DEF Steps
  <2>8. "reading" \in Senders
    BY DEF Senders
  <2> HIDE DEF Own
  <2> QED
    BY <2>1, <2>2, <2>3, <2>4, <2>5, <2>7, <2>8, QuietStep
<1>2. CASE Send("reading")
  BY <1>2, SendKeeps DEF Senders
<1> QED
  BY <1>1, <1>2 DEF ReadingStep

(* The thread of the display makes a pipe and its name, and sends.         *)
LEMMA UpdateKeeps == GnssInv /\ UpdateStep => GnssInv'
<1> SUFFICES ASSUME GnssInv, UpdateStep PROVE GnssInv'
  OBVIOUS
<1>0. /\ pipe \in Seq(0..PIPE_BUF) /\ Len(pipe) \in Nat
      /\ path \in 0..Len(pipe) /\ serial_fd \in BOOLEAN
      /\ {sinceRecord, sinceUpdate} \subseteq 0..RECORD_INTERVAL
  BY DEF GnssInv, GnssTypeOK
<1> DEFINE Own == UnlinkFifo \/ MakeFifo \/ UpdateIdle \/ UpdateEnded
<1>1. CASE Own
  <2>1. alive
    BY <1>1, ThreadAlive
    DEF UnlinkFifo, MakeFifo, UpdateIdle, UpdateEnded, Steps, Senders
  <2>2. UNCHANGED <<process, reader, handles, timers, gnssHistory>>
    BY <1>1 DEF UnlinkFifo, MakeFifo, UpdateIdle, UpdateEnded
  <2>3. \/ UNCHANGED fifo
        \/ path' = 0 /\ UNCHANGED pipe
        \/ pipe' = Append(pipe, 0) /\ path' = Len(pipe) + 1
    BY <1>1 DEF UnlinkFifo, UnlinkPipe, MakeFifo, UpdateIdle, UpdateEnded
  <2>4. /\ (pipe \in Seq(0..PIPE_BUF))' /\ Len(pipe') >= Len(pipe)
        /\ (path \in 0..Len(pipe))'
    <3>1. CASE UNCHANGED pipe /\ path' \in {0, path}
      BY <1>0, <3>1
    <3>2. CASE pipe' = Append(pipe, 0) /\ path' = Len(pipe) + 1
      BY <1>0, <3>2, NewPipe
    <3> QED
      BY <2>3, <3>1, <3>2 DEF fifo
  <2>5. /\ serial_fd' \in BOOLEAN
        /\ {sinceRecord, sinceUpdate}' \subseteq 0..RECORD_INTERVAL
        /\ UNCHANGED fifo_fd
    BY <1>0, <2>2 DEF handles, timers
  <2>6. \/ Goto("update", "make") \/ Goto("update", "idle") \/ Goto("update", "send")
        \/ Rest("update", "idle") \/ Rest("update", "ended")
    BY <1>1 DEF UnlinkFifo, MakeFifo, UpdateIdle, UpdateEnded
  <2>7. PICK s \in Steps \ {"write"} : Goto("update", s) \/ Rest("update", s)
    BY <2>6 DEF Steps
  <2>8. "update" \in Senders
    BY DEF Senders
  <2> HIDE DEF Own
  <2> QED
    BY <2>1, <2>2, <2>4, <2>5, <2>7, <2>8, QuietStep
<1>2. CASE Send("update")
  BY <1>2, SendKeeps DEF Senders
<1> QED
  BY <1>1, <1>2 DEF UpdateStep

(* The display makes a pipe, empties one, or lets what is in it go.        *)
LEMMA DisplayKeeps ==
  GnssInv /\ (DisplayOpen \/ DisplayRead \/ DisplayClose) => GnssInv'
<1> SUFFICES ASSUME GnssInv, DisplayOpen \/ DisplayRead \/ DisplayClose
             PROVE  GnssInv'
  OBVIOUS
<1>0. /\ pipe \in Seq(0..PIPE_BUF) /\ Len(pipe) \in Nat
      /\ fifo_fd \in [Senders -> 0..Len(pipe)]
      /\ path \in 0..Len(pipe) /\ reader \in 0..Len(pipe)
  BY DEF GnssInv, GnssTypeOK
<1>1. UNCHANGED <<process, senders, timers, processStarts, switches>>
  BY DEF DisplayOpen, DisplayRead, DisplayClose, gnssHistory
<1>2. overtaken' \in BOOLEAN /\ displayOpens' \in Nat
  <2>1. overtaken \in BOOLEAN /\ displayOpens \in Nat
    BY DEF GnssInv, GnssTypeOK
  <2>2. displayOpens' \in {displayOpens, displayOpens + 1}
    BY DEF DisplayOpen, DisplayRead, DisplayClose, gnssHistory
  <2>3. \/ UNCHANGED overtaken
        \/ overtaken' = (overtaken \/ step["update"] = "make")
    BY DEF DisplayOpen, DisplayRead, DisplayClose, gnssHistory
  <2>4. overtaken' \in BOOLEAN
    BY <2>1, <2>3
  <2> QED
    BY <2>1, <2>2, <2>4
<1>3. /\ pipe' \in Seq(0..PIPE_BUF) /\ Len(pipe') >= Len(pipe) /\ Len(pipe') \in Nat
      /\ path' \in 0..Len(pipe') /\ reader' \in 0..Len(pipe')
  <2>1. CASE DisplayOpen
    <3>1. CASE reader' = path /\ UNCHANGED fifo
      BY <1>0, <3>1 DEF fifo
    <3>2. CASE /\ pipe' = Append(pipe, 0) /\ path' = Len(pipe) + 1
               /\ reader' = Len(pipe) + 1
      BY <1>0, <3>2, NewPipe
    <3> QED
      BY <2>1, <3>1, <3>2 DEF DisplayOpen
  <2>2. CASE DisplayRead
    <3>1. reader \in DOMAIN pipe /\ 0 \in 0..PIPE_BUF
      BY <1>0, <2>2, GnssProcessAssumption DEF DisplayRead
    <3> QED
      BY <1>0, <2>2, <3>1, PipeChanged DEF DisplayRead
  <2>3. CASE DisplayClose
    BY <1>0, <2>3, LostLeavesPipes DEF DisplayClose
  <2> QED
    BY <2>1, <2>2, <2>3
<1>4. fifo_fd' \in [Senders -> 0..Len(pipe')]
  BY <1>0, <1>1, <1>3 DEF senders, handles
<1>5. /\ (step \in [Senders -> Steps])' /\ (awake \in [Senders -> BOOLEAN])'
      /\ WriterHasPipe' /\ NoThreadWithout'
      /\ {sinceRecord, sinceUpdate}' \subseteq 0..RECORD_INTERVAL
  BY <1>1 DEF process, senders, handles, timers, GnssInv, GnssTypeOK, WriterHasPipe,
     NoThreadWithout, Steps
<1>6. {alive, running, serial_fd}' \subseteq BOOLEAN
      /\ {processStarts, switches}' \subseteq Nat
  BY <1>1 DEF process, senders, handles, GnssInv, GnssTypeOK
<1> QED
  BY <1>2, <1>3, <1>4, <1>5, <1>6 DEF GnssInv, GnssTypeOK, Steps

LEMMA GnssStep == GnssInv /\ [GnssNext]_gnssVars => GnssInv'
<1> SUFFICES ASSUME GnssInv, [GnssNext]_gnssVars PROVE GnssInv'
  OBVIOUS
<1>1. CASE StartGnss
  BY <1>1, StartKeeps
<1>2. CASE KillGnss
  BY <1>2, DieKeeps DEF KillGnss
<1>3. CASE SwitchCollection
  <2>1. /\ UNCHANGED <<alive, fifo, reader, senders, timers, processStarts, overtaken>>
        /\ switches' = switches + 1 /\ UNCHANGED displayOpens
        /\ running' = ~running
    BY <1>3 DEF SwitchCollection
  <2>2. switches \in Nat /\ running \in BOOLEAN
    BY DEF GnssInv, GnssTypeOK
  <2>3. switches' \in Nat
    BY <2>1, <2>2
  <2>4. running' \in BOOLEAN
    BY <2>1, <2>2
  <2> QED
    BY <2>1, <2>3, <2>4 DEF GnssInv, GnssTypeOK, WriterHasPipe, NoThreadWithout, fifo,
       senders, handles, timers
<1>4. CASE Tick
  <2>1. {sinceRecord, sinceUpdate} \subseteq 0..RECORD_INTERVAL /\ RECORD_INTERVAL \in Nat
    BY GnssProcessAssumption DEF GnssInv, GnssTypeOK
  <2>2. {sinceRecord, sinceUpdate}' \subseteq 0..RECORD_INTERVAL
    BY <1>4, <2>1 DEF Tick
  <2>3. (awake \in [Senders -> BOOLEAN])'
    BY <1>4 DEF Tick
  <2>4. UNCHANGED <<process, fifo, reader, handles, step, gnssHistory>>
    BY <1>4 DEF Tick
  <2> QED
    BY <2>2, <2>3, <2>4 DEF GnssInv, GnssTypeOK, WriterHasPipe, NoThreadWithout,
       process, fifo, handles, gnssHistory
<1>5. CASE ReadingStep
  BY <1>5, ReadingKeeps
<1>6. CASE UpdateStep
  BY <1>6, UpdateKeeps
<1>7. CASE DisplayOpen \/ DisplayRead \/ DisplayClose
  BY <1>7, DisplayKeeps
<1>8. CASE UNCHANGED gnssVars
  BY <1>8 DEF GnssInv, GnssTypeOK, WriterHasPipe, NoThreadWithout, gnssVars, process,
     fifo, senders, handles, timers, gnssHistory
<1> QED
  BY <1>1, <1>2, <1>3, <1>4, <1>5, <1>6, <1>7, <1>8 DEF GnssNext

(* A pipe never holds more than it can, and nobody writes to, reads from   *)
(* or finds under its name a pipe that was never made: for pipes of any    *)
(* size and any number of starts, commands and openings.                   *)
THEOREM DisplayTypes == GnssSpec => []GnssTypeOK
<1>1. GnssInv => GnssTypeOK
  BY DEF GnssInv
<1> QED
  BY <1>1, GnssStart, GnssStep, PTL DEF GnssSpec
-----------------------------------------------------------------------------
(* The four components together: a step is one of the component of the     *)
(* behaviour, and leaves the others where they started.                    *)
EdgesInv == SensorInv /\ ParserInv /\ GnssInv /\ ViewerTypeOK /\ MapKnown

LEMMA EdgesStart == Init => EdgesInv
<1> SUFFICES ASSUME Init PROVE EdgesInv
  OBVIOUS
<1>1. SensorInit /\ ParserInit /\ GnssInit /\ ViewerInit
  BY DEF Init
<1> QED
  BY <1>1, SensorStart, ParserStart, GnssStart, ViewerStart DEF EdgesInv

LEMMA EdgesStep == EdgesInv /\ [Next]_edgeVars => EdgesInv'
<1> SUFFICES ASSUME EdgesInv, [Next]_edgeVars PROVE EdgesInv'
  OBVIOUS
<1>1. /\ [SensorNext]_sensorVars /\ [ParserNext]_parserVars
      /\ [GnssNext]_gnssVars /\ [ViewerNext]_viewerVars
  BY DEF Next, edgeVars
<1> QED
  BY <1>1, SensorStep, ParserStep, GnssStep, MapStep DEF EdgesInv

(* Types of the variables of all four components, for all values of the    *)
(* constants of each.                                                      *)
THEOREM EdgesTypes == FairSpec => []TypeOK
<1>1. EdgesInv => TypeOK
  BY DEF EdgesInv, TypeOK, SensorInv, ParserInv, GnssInv
<1> QED
  BY <1>1, EdgesStart, EdgesStep, PTL DEF FairSpec
==============================================================================
