------------------------- MODULE CommandFifoProofs -------------------------
(***************************************************************************)
(* Theorems about CommandFifo, for any set of senders, any number of       *)
(* commands and any number of restarts of the collector.                   *)
(***************************************************************************)
EXTENDS CommandFifo, TLAPS

(* The commands of a buffer were written in its order, after the command   *)
(* numbered low and not after the one numbered high.                       *)
Between(q, low, high) ==
  \A i \in 1 .. Len(q) :
    /\ low < q[i].id /\ q[i].id <= high
    /\ \A j \in 1 .. Len(q) : i < j => q[i].id < q[j].id

Unprocessed == listener \in {"close", "act"}

(* What is in the pipe is younger than what the listener has in hand,      *)
(* which is younger than what was carried out.  EachCommandOnce speaks     *)
(* only of what is in hand, and is not inductive without the pipe.         *)
PipeInv ==
  /\ done <= written
  /\ Between(pipe, done, written)
  /\ Unprocessed =>
       /\ Between(cmd, done, written)
       /\ \A i \in 1 .. Len(cmd), j \in 1 .. Len(pipe) : cmd[i].id < pipe[j].id
-----------------------------------------------------------------------------
USE DEF vars, kernel, reader, writers, history

(* What open, write and close leave in the pipe is what was there, or      *)
(* nothing.                                                                *)
LEMMA LeftOver ==
  ASSUME NEW open
  PROVE  Left(open) = pipe \/ Left(open) = << >>
BY DEF Left

LEMMA EmptyIsTyped == << >> \in Seq(Messages)
OBVIOUS

(* Type correctness of the pipe, the listener and the senders.             *)
THEOREM TypeCorrect == Spec => []TypeOK
<1>1. Init => TypeOK
  <2> SUFFICES ASSUME Init
               PROVE  TypeOK
    OBVIOUS
  <2>1. pipe \in Seq(Messages) /\ cmd \in Seq(Messages)
    BY EmptyIsTyped DEF Init
  <2>2. /\ sender \in [Senders -> SenderPC]
        /\ what \in [Senders -> Words]
        /\ stale \in [Senders -> BOOLEAN]
    BY DEF Init, SenderPC, Words
  <2> QED
    BY <2>1, <2>2 DEF Init, TypeOK, ListenerPC
<1>2. TypeOK /\ [Next]_vars => TypeOK'
  <2> SUFFICES ASSUME TypeOK, [Next]_vars
               PROVE  TypeOK'
    OBVIOUS
  <2> USE DEF TypeOK, Words, ListenerPC, SenderPC
  <2>1. CASE Unlink
    BY <2>1 DEF Unlink
  <2>2. CASE MakeFifo
    BY <2>2 DEF MakeFifo
  <2>3. CASE OpenToRead
    <3>1. sender' \in [Senders -> SenderPC]
      BY <2>3 DEF OpenToRead
    <3> QED
      BY <3>1, <2>3 DEF OpenToRead
  <2>4. CASE SenderCame \/ OpenFails \/ TryAgain
    BY <2>4 DEF SenderCame, OpenFails, TryAgain
  <2>5. CASE Read
    <3>1. cmd' \in Seq(Messages) /\ pipe' \in Seq(Messages)
      BY <2>5 DEF Read, Cleared
    <3> QED
      BY <3>1, <2>5 DEF Read
  <2>6. CASE CloseAfterRead
    <3>1. pipe' \in Seq(Messages)
      BY <2>6 DEF CloseAfterRead, Left
    <3> QED
      BY <3>1, <2>6 DEF CloseAfterRead
  <2>7. CASE Act
    <3>1. done' \in Nat /\ alone' \in Senders \cup {NoSender} /\ running' \in BOOLEAN
      <4>1. CASE Understood
        <5>1. 1 \in 1 .. Len(cmd)
          BY <4>1 DEF Understood
        <5>2. cmd[1] \in Messages
          BY <5>1
        <5>3. cmd[1].id \in Nat /\ cmd[1].word \in Words
          BY <5>2 DEF Messages
        <5> QED
          BY <2>7, <4>1, <5>3 DEF Act
      <4>2. CASE ~Understood
        BY <2>7, <4>2 DEF Act
      <4> QED
        BY <4>1, <4>2
    <3> QED
      BY <3>1, <2>7 DEF Act, AfterAct
  <2>8. ASSUME NEW s \in Senders, OpenToWrite(s)
        PROVE  TypeOK'
    <3>1. /\ sender' \in [Senders -> SenderPC]
          /\ what' \in [Senders -> Words]
          /\ stale' \in [Senders -> BOOLEAN]
      BY <2>8 DEF OpenToWrite
    <3> QED
      BY <3>1, <2>8 DEF OpenToWrite
  <2>9. ASSUME NEW s \in Senders, Write(s)
        PROVE  TypeOK'
    <3>1. sender' \in [Senders -> SenderPC] /\ written' \in Nat
      <4>1. /\ written' = written + 1 \/ UNCHANGED written
            /\ \/ sender' = [sender EXCEPT ![s] = "close"]
               \/ sender' = [sender EXCEPT ![s] = "idle"]
        BY <2>9, Zenon DEF Write
      <4> QED
        BY <4>1
    <3>2. [id |-> written + 1, by |-> s, word |-> what[s]] \in Messages
      BY DEF Messages
    <3>3. pipe' \in Seq(Messages)
      <4>1. CASE HasReader /\ ~stale[s]
        <5>1. pipe' = Append(pipe, [id |-> written + 1, by |-> s, word |-> what[s]])
          BY <2>9, <4>1, Zenon DEF Write
        <5> QED
          BY <5>1, <3>2
      <4>2. CASE ~(HasReader /\ ~stale[s])
        <5>1. pipe' = pipe \/ pipe' = << >>
          BY <2>9, <4>2, LeftOver DEF Write
        <5> QED
          BY <5>1, EmptyIsTyped
      <4> QED
        BY <4>1, <4>2
    <3> QED
      BY <3>1, <3>3, <2>9 DEF Write
  <2>10. ASSUME NEW s \in Senders, CloseAfterWrite(s)
         PROVE  TypeOK'
    <3>1. sender' \in [Senders -> SenderPC] /\ pipe' \in Seq(Messages)
      BY <2>10 DEF CloseAfterWrite, Left
    <3> QED
      BY <3>1, <2>10 DEF CloseAfterWrite
  <2>11. CASE Crash
    <3>1. pipe' \in Seq(Messages)
      BY <2>11 DEF Crash, Left
    <3> QED
      BY <3>1, <2>11 DEF Crash
  <2>12. CASE Restart
    <3>1. cmd' \in Seq(Messages) /\ pipe' \in Seq(Messages)
      BY <2>12, EmptyIsTyped DEF Restart
    <3>2. /\ UNCHANGED <<path, sender, what, stale>>
          /\ UNCHANGED <<sent, written, done, alone>>
      BY <2>12 DEF Restart
    <3>3. listener' \in ListenerPC /\ restarts' \in Nat
      BY <2>12 DEF Restart
    <3>4. running' = FALSE /\ called' = FALSE
      BY <2>12 DEF Restart
    <3> QED
      BY <3>1, <3>2, <3>3, <3>4
  <2>13. CASE UNCHANGED vars
    BY <2>13
  <2> QED
    BY <2>1, <2>2, <2>3, <2>4, <2>5, <2>6, <2>7, <2>8, <2>9, <2>10, <2>11, <2>12,
       <2>13 DEF Next, ListenerStep, SenderStep
<1> QED
  BY <1>1, <1>2, PTL DEF Spec

(* Losing what is in the pipe does no harm to the order.                   *)
LEMMA LosingIsSafe ==
  ASSUME PipeInv, UNCHANGED <<cmd, done, written>>,
         pipe' = pipe \/ pipe' = << >>,
         Unprocessed' => Unprocessed
  PROVE  PipeInv'
BY DEF PipeInv, Between

(* The order is kept by every step.                                        *)
LEMMA OrderKept == TypeOK /\ PipeInv /\ [Next]_vars => PipeInv'
<1> SUFFICES ASSUME TypeOK, PipeInv, [Next]_vars
             PROVE  PipeInv'
  OBVIOUS
<1>1. CASE Unlink \/ MakeFifo \/ OpenToRead \/ OpenFails \/ TryAgain \/ SenderCame
  <2>1. UNCHANGED <<cmd, done, written, pipe>> /\ ~Unprocessed'
    BY <1>1 DEF Unlink, MakeFifo, OpenToRead, OpenFails, TryAgain, SenderCame,
       Unprocessed
  <2> QED
    BY <2>1, LosingIsSafe
<1>2. CASE Read
  <2>1. pipe' = << >> /\ UNCHANGED <<done, written>> /\ (cmd' = pipe \/ cmd' = << >>)
    BY <1>2 DEF Read, Cleared
  <2> QED
    BY <2>1 DEF PipeInv, Between
<1>3. CASE CloseAfterRead
  <2>1. UNCHANGED <<cmd, done, written>> /\ Unprocessed
    BY <1>3 DEF CloseAfterRead, Unprocessed
  <2>2. pipe' = pipe \/ pipe' = << >>
    BY <1>3 DEF CloseAfterRead, Left
  <2> QED
    BY <2>1, <2>2, LosingIsSafe
<1>4. CASE Act
  <2>1. Unprocessed /\ ~Unprocessed' /\ UNCHANGED <<pipe, written>>
    BY <1>4 DEF Act, Unprocessed, AfterAct
  <2>2. CASE Understood
    <3>1. done' = cmd[1].id /\ 1 \in 1 .. Len(cmd)
      BY <1>4, <2>2 DEF Act, Understood
    <3>2. done' <= written /\ \A j \in 1 .. Len(pipe) : done' < pipe[j].id
      BY <3>1, <2>1 DEF PipeInv, Between
    <3> QED
      BY <3>2, <2>1 DEF PipeInv, Between
  <2>3. CASE ~Understood
    <3>1. done' = done
      BY <1>4, <2>3 DEF Act
    <3> QED
      BY <3>1, <2>1 DEF PipeInv, Between
  <2> QED
    BY <2>2, <2>3
<1>5. ASSUME NEW s \in Senders, OpenToWrite(s)
      PROVE  PipeInv'
  BY <1>5, LosingIsSafe DEF OpenToWrite, Unprocessed
<1>6. ASSUME NEW s \in Senders, Write(s)
      PROVE  PipeInv'
  <2>1. UNCHANGED <<cmd, done, listener>>
    BY <1>6 DEF Write
  <2>2. CASE HasReader /\ ~stale[s]
    <3> DEFINE m == [id |-> written + 1, by |-> s, word |-> what[s]]
    <3>1. pipe' = Append(pipe, m) /\ written' = written + 1
      BY <1>6, <2>2 DEF Write
    <3>2. m \in Messages /\ m.id = written + 1
      BY DEF Messages, TypeOK
    <3>3. /\ Len(pipe') = Len(pipe) + 1
          /\ \A i \in 1 .. Len(pipe) : pipe'[i] = pipe[i]
          /\ pipe'[Len(pipe) + 1] = m
      BY <3>1, <3>2 DEF TypeOK
    <3> HIDE DEF m
    <3>4. \A i \in 1 .. Len(pipe) : pipe[i].id \in Nat
      <4>1. \A i \in 1 .. Len(pipe) : pipe[i] \in Messages
        BY DEF TypeOK
      <4> QED
        BY <4>1 DEF Messages
    <3>5. \A i \in 1 .. Len(cmd) : cmd[i].id \in Nat
      <4>1. \A i \in 1 .. Len(cmd) : cmd[i] \in Messages
        BY DEF TypeOK
      <4> QED
        BY <4>1 DEF Messages
    <3>6. written \in Nat /\ done \in Nat /\ Len(pipe) \in Nat
      BY DEF TypeOK
    <3>7. ASSUME NEW j \in 1 .. Len(pipe')
          PROVE  j \in 1 .. Len(pipe) \/ j = Len(pipe) + 1
      BY <3>3, <3>6
    <3>8. Between(pipe', done, written')
      <4> SUFFICES ASSUME NEW i \in 1 .. Len(pipe')
                   PROVE  /\ done < pipe'[i].id /\ pipe'[i].id <= written'
                          /\ \A j \in 1 .. Len(pipe') :
                               i < j => pipe'[i].id < pipe'[j].id
        BY DEF Between
      <4>1. CASE i = Len(pipe) + 1
        BY <4>1, <3>1, <3>2, <3>3, <3>6 DEF PipeInv
      <4>2. CASE i \in 1 .. Len(pipe)
        <5>1. /\ pipe'[i] = pipe[i] /\ pipe[i].id \in Nat
              /\ done < pipe[i].id /\ pipe[i].id <= written
          BY <4>2, <3>3, <3>4 DEF PipeInv, Between
        <5>2. ASSUME NEW j \in 1 .. Len(pipe'), i < j
              PROVE  pipe'[i].id < pipe'[j].id
          <6>1. CASE j \in 1 .. Len(pipe)
            BY <6>1, <5>1, <5>2, <4>2, <3>3 DEF PipeInv, Between
          <6>2. CASE j = Len(pipe) + 1
            BY <6>2, <5>1, <3>2, <3>3, <3>6
          <6> QED
            BY <6>1, <6>2, <3>7
        <5> QED
          BY <5>1, <5>2, <3>1, <3>6
      <4> QED
        BY <4>1, <4>2, <3>7
    <3>9. ASSUME Unprocessed
          PROVE  /\ Between(cmd, done, written')
                 /\ \A i \in 1 .. Len(cmd), j \in 1 .. Len(pipe') :
                      cmd[i].id < pipe'[j].id
      <4>1. ASSUME NEW i \in 1 .. Len(cmd)
            PROVE  cmd[i].id \in Nat /\ cmd[i].id <= written /\ done < cmd[i].id
        BY <3>5, <3>9 DEF PipeInv, Between
      <4>2. Between(cmd, done, written')
        BY <4>1, <3>1, <3>6, <3>9 DEF PipeInv, Between
      <4>3. ASSUME NEW i \in 1 .. Len(cmd), NEW j \in 1 .. Len(pipe')
            PROVE  cmd[i].id < pipe'[j].id
        <5>1. CASE j \in 1 .. Len(pipe)
          BY <5>1, <3>3, <3>9 DEF PipeInv
        <5>2. CASE j = Len(pipe) + 1
          BY <5>2, <4>1, <3>2, <3>3, <3>6
        <5> QED
          BY <5>1, <5>2, <3>7
      <4> QED
        BY <4>2, <4>3
    <3> QED
      BY <2>1, <3>1, <3>6, <3>8, <3>9 DEF PipeInv, Between, Unprocessed
  <2>3. CASE ~(HasReader /\ ~stale[s])
    <3>1. written' = written /\ (pipe' = pipe \/ pipe' = << >>)
      BY <1>6, <2>3 DEF Write, Left
    <3> QED
      BY <2>1, <3>1, LosingIsSafe DEF Unprocessed
  <2> QED
    BY <2>2, <2>3
<1>7. ASSUME NEW s \in Senders, CloseAfterWrite(s)
      PROVE  PipeInv'
  BY <1>7, LosingIsSafe DEF CloseAfterWrite, Left, Unprocessed
<1>8. CASE Crash
  BY <1>8, LosingIsSafe DEF Crash, Left, Unprocessed
<1>9. CASE Restart
  BY <1>9 DEF Restart, PipeInv, Between, Unprocessed
<1>10. CASE UNCHANGED vars
  BY <1>10, LosingIsSafe DEF Unprocessed
<1> QED
  BY <1>1, <1>2, <1>3, <1>4, <1>5, <1>6, <1>7, <1>8, <1>9, <1>10
     DEF Next, ListenerStep, SenderStep
-----------------------------------------------------------------------------
(* However senders and listener interleave, whatever is lost with the pipe *)
(* and whenever the collector is restarted, command_listener_thread        *)
(* carries out the commands it gets in the order of their writing, and     *)
(* none twice.                                                             *)
THEOREM NoCommandTwice == Spec => []EachCommandOnce
<1>1. Init => PipeInv
  BY DEF Init, PipeInv, Between, Unprocessed
<1>2. PipeInv => EachCommandOnce
  <2> SUFFICES ASSUME PipeInv, Unprocessed, NEW i \in 1 .. Len(cmd)
               PROVE  done < cmd[i].id /\ (i > 1 => cmd[i].id > cmd[i - 1].id)
    BY DEF EachCommandOnce, Unprocessed
  <2>1. i > 1 => i - 1 \in 1 .. Len(cmd) /\ i - 1 < i
    OBVIOUS
  <2> QED
    BY <2>1 DEF PipeInv, Between
<1> QED
  BY <1>1, <1>2, TypeCorrect, OrderKept, PTL DEF Spec
=============================================================================
