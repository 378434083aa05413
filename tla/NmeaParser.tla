----------------------------- MODULE NmeaParser -----------------------------
(***************************************************************************)
(* The parser of the GNSS collector: parse_nmea of GNSS/src/gnss_reader.c. *)
(* It takes the first GGA sentence out of what a read of the serial port   *)
(* has brought and fills in gnss_data, which the reading thread keeps from *)
(* one read to the next and puts into every record.  A datum is modelled   *)
(* by the field of the sentence it was taken from.                         *)
(***************************************************************************)
EXTENDS Naturals, Sequences, FiniteSets

CONSTANT Cuts  \* numbers of fields after which a read may end in a sentence

VARIABLES
  gnss_data,  \* what parse_nmea has filled in: field a datum was taken from
  gaps        \* history: was a field empty that has others behind it?

parserVars == <<gnss_data, gaps>>
-----------------------------------------------------------------------------
(* A sentence has its fields in this order; checksum stands for the last,  *)
(* with the empty ones before it.                                          *)
Gga == <<"id", "time", "lat", "north", "lon", "east", "quality", "sats", "hdop",
         "alt", "unit", "geoid", "geoidUnit", "checksum">>
Fields == {Gga[i] : i \in DOMAIN Gga}

ASSUME ParserAssumption == Cuts \subseteq DOMAIN Gga

(* The fields that are there: all; some of the first ones, if the read     *)
(* ends in the sentence; with no fix, or not even the time, a few.         *)
Sentences ==
  {Fields} \cup {{Gga[i] : i \in 1..k} : k \in Cuts}
    \cup {{"id", "time", "quality", "sats", "hdop", "checksum"},
          {"id", "quality", "sats", "hdop", "checksum"}}

(* strtok_r takes a run of commas for one, so that empty fields disappear  *)
(* and the later ones move up: the n-th token is the n-th field that is    *)
(* there.  There is none if the sentence has fewer.                        *)
Number(sentence, i) == Cardinality({j \in 1..i : Gga[j] \in sentence})
Tokens(sentence, n) ==
  {field \in sentence :
     \E i \in DOMAIN Gga : Gga[i] = field /\ Number(sentence, i) = n}

(* The tokens that are used, counted from one.                             *)
PositionShifted == [timestamp |-> 2, latitude |-> 3, longitude |-> 4,
                    satellites |-> 8, altitude |-> 10]
Position == [timestamp |-> 2, latitude |-> 3, longitude |-> 5,
             satellites |-> 8, altitude |-> 10]

(* A datum whose token is not there keeps its value.                       *)
ParseNmea(sentence, data) ==
  [f \in DOMAIN Position |->
     LET found == Tokens(sentence, Position[f])
     IN  IF found = {} THEN data[f] ELSE CHOOSE token \in found : TRUE]

HasGap(sentence) ==
  \E i, j \in DOMAIN Gga :
    /\ i < j /\ j <= Position["altitude"]
    /\ Gga[i] \notin sentence /\ Gga[j] \in sentence

ParserInit ==
  /\ gnss_data = [f \in DOMAIN Position |-> "none"]
  /\ gaps = FALSE

(* A read that brings a GGA sentence.                                      *)
ReadSentence(sentence) ==
  /\ gnss_data' = ParseNmea(sentence, gnss_data)
  /\ gaps' = (gaps \/ HasGap(sentence))

ParserNext == \E sentence \in Sentences : ReadSentence(sentence)

ParserSpec == ParserInit /\ [][ParserNext]_parserVars
-----------------------------------------------------------------------------
(* Types of all variables.                                                 *)
ParserTypeOK ==
  /\ gnss_data \in [DOMAIN Position -> Fields \cup {"none"}]
  /\ gaps \in BOOLEAN

OwnField == [timestamp |-> "time", latitude |-> "lat", longitude |-> "lon",
             satellites |-> "sats", altitude |-> "alt"]

(* Every datum comes from its own field of a sentence, whole or cut off,   *)
(* of this or of an earlier read; only a sentence with an empty field      *)
(* before others, as sent without a fix, puts one field's value in the     *)
(* place of another.                                                       *)
DataFromOwnField ==
  ~gaps => \A f \in DOMAIN Position : gnss_data[f] \in {"none", OwnField[f]}
=============================================================================
