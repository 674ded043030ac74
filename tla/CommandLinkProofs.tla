--------------------------- MODULE CommandLinkProofs ---------------------------
(***************************************************************************)
(* Proofs about CommandLink, for any number of commands, retries and       *)
(* restarts, any timeouts and any room in the link.                        *)
(*                                                                         *)
(* Confirmed follows the OK of a command from the actuator to the          *)
(* controller, on any link.  On a link that keeps the order, InOrder says  *)
(* that the numbers in flight never fall below the one the executor        *)
(* remembers, which is why remembering one number is enough; OnceEach and  *)
(* Actuator build on it.                                                   *)
(***************************************************************************)
EXTENDS CommandLink, SequenceTheorems, TLAPS

Message == Seqs \X Client!AckStatus

TypeInv ==
    /\ toExecutor \in Seq(Seqs) /\ toController \in Seq(Message)
    /\ sent \in 0 .. MaxSeq /\ expected_seq_ \in Seqs
    /\ action \in [Seqs -> Actions \cup {"ACTION_NONE"}]
    /\ status \in [Seqs -> Client!AckStatus]
    /\ running \in Seqs \cup {0}
    /\ executed \in [Seqs -> Nat]
    /\ done \subseteq Seqs /\ refused \subseteq Seqs /\ interrupted \subseteq Seqs
    /\ restarts \in Nat
    /\ valid \in BOOLEAN /\ last_seq \in Seqs

(* Whoever says that a command was carried out is right. *)
Confirmed ==
    /\ \A i \in DOMAIN toController :
          toController[i][2] = "OK" => toController[i][1] \in done
    /\ \A s \in Seqs : status[s] = "OK" => s \in done
    /\ SuccessMeansDone

Rising(s) == \A i, j \in DOMAIN s : i < j => s[i] <= s[j]

(* The numbers on their way to the executor rise, from the one it          *)
(* remembers to the one the controller waits for.                          *)
InOrder ==
    /\ Rising(toExecutor)
    /\ \A i \in DOMAIN toExecutor : toExecutor[i] <= sent
    /\ valid => \A i \in DOMAIN toExecutor : last_seq <= toExecutor[i]
    /\ valid => last_seq <= sent
    /\ state_ = "WAITING" => expected_seq_ = sent

(* A command the executor would take for a fresh one has not been begun    *)
(* since the last restart.                                                 *)
OnceEach ==
    /\ AtMostOnce
    /\ \A s \in Seqs : (valid => s > last_seq) => executed[s] <= restarts

(* The command the actuator works on, and those that were refused or       *)
(* interrupted, are not above the remembered one.                          *)
Actuator ==
    /\ running # 0 => /\ valid /\ running <= last_seq
                      /\ current_state # "STATE_IDLE"
    /\ \A s \in refused \cup interrupted : valid /\ s <= last_seq
    /\ current_state \in Hand!state_t
    /\ \A s \in Seqs : action[s] = "ACTION_STOP" => s <= sent
    /\ RefusalIsFinal /\ OnlyStopInterrupts

-----------------------------------------------------------------------------
(* Taking one message leaves the others, in their order. *)
LEMMA Removed ==
    ASSUME NEW S, NEW s \in Seq(S), NEW i \in DOMAIN s
    PROVE  /\ RemoveAt(s, i) \in Seq(S)
           /\ \A j \in DOMAIN RemoveAt(s, i) :
                 /\ j < i => j \in DOMAIN s /\ RemoveAt(s, i)[j] = s[j]
                 /\ j >= i => j + 1 \in DOMAIN s /\ RemoveAt(s, i)[j] = s[j + 1]
<1> DEFINE front == SubSeq(s, 1, i - 1)
           back == SubSeq(s, i + 1, Len(s))
           all == front \o back
<1>0. i \in Nat /\ 1 <= i /\ i <= Len(s) /\ Len(s) \in Nat /\ DOMAIN s = 1 .. Len(s)
  BY LenProperties
<1>1. /\ front \in Seq(S) /\ Len(front) = i - 1
      /\ \A j \in 1 .. i - 1 : front[j] = s[j]
  <2>1. 1 .. i - 1 \subseteq 1 .. Len(s) /\ i - 1 \in Int /\ 1 \in Int
    BY <1>0
  <2>2. \A j \in 1 .. i - 1 : s[j] \in S
    BY <1>0, ElementOfSeq
  <2>3. QED
    BY <1>0
<1>2. /\ back \in Seq(S) /\ Len(back) = Len(s) - i
      /\ \A j \in 1 .. Len(s) - i : back[j] = s[i + j]
  BY <1>0
<1>3. RemoveAt(s, i) = all
  BY DEF RemoveAt
<1> HIDE DEF front, back
<1>4. /\ all \in Seq(S) /\ Len(all) = Len(s) - 1
      /\ \A j \in 1 .. Len(s) - 1 :
            all[j] = IF j <= i - 1 THEN front[j] ELSE back[j - (i - 1)]
  <2>1. Len(front) + Len(back) = Len(s) - 1
    BY <1>0, <1>1, <1>2
  <2>2. /\ all \in Seq(S) /\ Len(all) = Len(front) + Len(back)
        /\ \A j \in 1 .. Len(front) + Len(back) :
              all[j] = IF j <= Len(front) THEN front[j] ELSE back[j - Len(front)]
    <3>1. front \in Seq(S) /\ back \in Seq(S)
      BY <1>1, <1>2
    <3>2. QED
      BY <3>1, ConcatProperties
  <2> HIDE DEF all
  <2>3. QED
    BY <1>1, <2>1, <2>2
<1> HIDE DEF all
<1>5. DOMAIN all = 1 .. Len(s) - 1
  BY <1>0, <1>4, LenProperties
<1>6. ASSUME NEW j \in 1 .. Len(s) - 1, j < i
      PROVE  j \in DOMAIN s /\ all[j] = s[j]
  BY <1>0, <1>1, <1>4, <1>6
<1>7. ASSUME NEW j \in 1 .. Len(s) - 1, j >= i
      PROVE  j + 1 \in DOMAIN s /\ all[j] = s[j + 1]
  <2>1. j - (i - 1) \in 1 .. Len(s) - i /\ i + (j - (i - 1)) = j + 1
    BY <1>0, <1>7
  <2>2. all[j] = back[j - (i - 1)]
    BY <1>0, <1>4, <1>7
  <2>3. back[j - (i - 1)] = s[i + (j - (i - 1))]
    BY <1>2, <2>1
  <2>4. QED
    BY <1>0, <1>7, <2>1, <2>2, <2>3
<1>8. QED
  BY <1>3, <1>4, <1>5, <1>6, <1>7

(* Sending a message puts it behind the others. *)
LEMMA Appended ==
    ASSUME NEW S, NEW s \in Seq(S), NEW e \in S
    PROVE  /\ Append(s, e) \in Seq(S)
           /\ DOMAIN s = 1 .. Len(s) /\ Len(s) \in Nat
           /\ DOMAIN Append(s, e) = 1 .. Len(s) + 1
           /\ \A j \in DOMAIN s : Append(s, e)[j] = s[j]
           /\ Append(s, e)[Len(s) + 1] = e
  BY AppendProperties, LenProperties

(* What is left in the link, or added to it, is one of its messages. *)
LEMMA RemovedIsThere ==
    ASSUME NEW S, NEW s \in Seq(S), NEW i \in DOMAIN s, NEW j \in DOMAIN RemoveAt(s, i)
    PROVE  \E k \in DOMAIN s : RemoveAt(s, i)[j] = s[k]
<1>1. j \in Nat
  <2>1. RemoveAt(s, i) \in Seq(S)
    BY Removed
  <2>2. QED
    BY <2>1, LenProperties
<1>2. i \in Nat
  BY LenProperties
<1>3. CASE j < i
  <2>1. j \in DOMAIN s /\ RemoveAt(s, i)[j] = s[j]
    BY <1>3, Removed
  <2>2. QED
    BY <2>1
<1>4. CASE j >= i
  <2>1. j + 1 \in DOMAIN s /\ RemoveAt(s, i)[j] = s[j + 1]
    BY <1>4, Removed
  <2>2. QED
    BY <2>1
<1>5. QED
  BY <1>1, <1>2, <1>3, <1>4

LEMMA AppendedIsThere ==
    ASSUME NEW S, NEW s \in Seq(S), NEW e \in S, NEW j \in DOMAIN Append(s, e)
    PROVE  \/ Append(s, e)[j] = e
           \/ j \in DOMAIN s /\ Append(s, e)[j] = s[j]
<1>1. j \in DOMAIN s \/ j = Len(s) + 1
  BY Appended
<1>2. QED
  BY <1>1, Appended

-----------------------------------------------------------------------------
LEMMA InitType == Init => TypeInv
<1> SUFFICES ASSUME Init PROVE TypeInv
  OBVIOUS
<1>1. <<>> \in Seq(Seqs) /\ <<>> \in Seq(Message)
  BY EmptySeq
<1>2. 1 \in Seqs
  BY DEF Init, Hand!Init
<1>3. action \in [Seqs -> Actions \cup {"ACTION_NONE"}]
  BY DEF Init
<1>4. status \in [Seqs -> Client!AckStatus]
  BY DEF Init, Client!AckStatus
<1>5. executed \in [Seqs -> Nat] /\ running \in Seqs \cup {0}
  BY DEF Init
<1>6. valid \in BOOLEAN /\ last_seq \in Seqs
  BY DEF Init, Hand!Init
<1>7. sent \in 0 .. MaxSeq
  BY BoundsAssumption DEF Init, BoundsAssumption
<1>8. toExecutor \in Seq(Seqs) /\ toController \in Seq(Message)
  BY <1>1 DEF Init
<1>9. /\ expected_seq_ \in Seqs /\ done \subseteq Seqs /\ restarts \in Nat
      /\ refused \subseteq Seqs /\ interrupted \subseteq Seqs
  BY <1>2 DEF Init
<1>10. QED
  BY <1>3, <1>4, <1>5, <1>6, <1>7, <1>8, <1>9 DEF TypeInv

LEMMA NextType == TypeInv /\ [Next]_vars => TypeInv'
<1> SUFFICES ASSUME TypeInv, [Next]_vars PROVE TypeInv'
  OBVIOUS
<1> USE DEF TypeInv
<1>0. sent \in Nat /\ 0 \in {0} \cup Seqs
  OBVIOUS
<1>1. ASSUME NEW a \in Actions, Begin(a) PROVE TypeInv'
  <2>1. sent + 1 \in Seqs /\ sent + 1 \in 0 .. MaxSeq
    BY <1>0, <1>1, BoundsAssumption DEF Begin, Seqs, BoundsAssumption
  <2>2. toExecutor' \in Seq(Seqs)
    BY <1>1, <2>1, Appended DEF Begin, Transmit
  <2>3. action' \in [Seqs -> Actions \cup {"ACTION_NONE"}]
    BY <1>1, <2>1 DEF Begin
  <2>4. QED
    BY <1>1, <2>1, <2>2, <2>3 DEF Begin, Client!start, executor
<1>2. CASE Resend
  <2>1. toExecutor' \in Seq(Seqs)
    BY <1>2, Appended DEF Resend, Transmit
  <2>2. QED
    BY <1>2, <2>1 DEF Resend, Client!Retry, executor
<1>3. CASE Poll
  BY <1>3 DEF Poll, Client!NotExpired, Client!GiveUp, Client!policy, executor, link
<1>4. CASE Tick
  BY <1>4 DEF Tick, Client!Tick, Client!policy, executor, link
<1>5. CASE ReceiveAck
  <2>1. PICK i \in Deliverable(toController) :
           /\ Client!on_ack(toController[i][1], toController[i][2])
           /\ toController' = RemoveAt(toController, i)
           /\ UNCHANGED <<executor, toExecutor, sent, action>>
    BY <1>5 DEF ReceiveAck
  <2>2. toController' \in Seq(Message)
    BY <2>1, Removed DEF Deliverable
  <2>3. expected_seq_' = expected_seq_
    BY <2>1 DEF Client!on_ack, Client!AckIgnored, Client!AckInProgress,
                Client!AckFinal, Client!policy
  <2>4. QED
    BY <2>1, <2>2, <2>3 DEF executor
<1>6. CASE ReceiveCommand
  <2>1. PICK i \in Deliverable(toExecutor) :
           /\ \/ AnswerAgain(toExecutor[i]) \/ Execute(toExecutor[i])
              \/ RefuseBusy(toExecutor[i])
           /\ toExecutor' = RemoveAt(toExecutor, i)
           /\ UNCHANGED <<policy, sent, action, done, restarts>>
    BY <1>6 DEF ReceiveCommand
  <2> DEFINE seq == toExecutor[i]
  <2>2. seq \in Seqs /\ toExecutor' \in Seq(Seqs)
    BY <2>1, Removed, ElementOfSeq, LenProperties DEF Deliverable
  <2> HIDE DEF seq
  <2>3. ASSUME NEW st \in Client!AckStatus, Reply(seq, st)
        PROVE  toController' \in Seq(Message)
    <3>1. <<seq, st>> \in Message
      BY <2>2, <2>3 DEF Message
    <3>2. QED
      BY <2>3, <3>1, Appended DEF Reply
  <2>4. CASE AnswerAgain(seq)
    <3>1. toController' \in Seq(Message)
      BY <2>2, <2>3, <2>4 DEF AnswerAgain
    <3>2. QED
      BY <2>1, <2>2, <2>4, <3>1
         DEF AnswerAgain, Hand!Duplicate, Hand!seq_dedup, policy
  <2>5. CASE Execute(seq)
    <3>1. toController' \in Seq(Message)
      BY <2>2, <2>3, <2>5 DEF Execute, Client!AckStatus
    <3>2. valid' \in BOOLEAN /\ last_seq' \in Seqs
      BY <2>2, <2>5 DEF Execute, Hand!Fresh, Hand!Remember
    <3>3. /\ executed' \in [Seqs -> Nat] /\ running' \in Seqs \cup {0}
          /\ refused' \subseteq Seqs /\ interrupted' \subseteq Seqs
      BY <2>2, <2>5 DEF Execute
    <3>4. status' \in [Seqs -> Client!AckStatus]
      BY <2>2, <2>5 DEF Execute, Client!AckStatus
    <3>5. QED
      BY <2>1, <2>2, <3>1, <3>2, <3>3, <3>4 DEF policy
  <2>6. CASE RefuseBusy(seq)
    <3>1. toController' \in Seq(Message)
      BY <2>2, <2>3, <2>6 DEF RefuseBusy, Client!AckStatus
    <3>2. valid' \in BOOLEAN /\ last_seq' \in Seqs
      BY <2>2, <2>6 DEF RefuseBusy, Hand!Fresh, Hand!Remember
    <3>3. status' \in [Seqs -> Client!AckStatus]
      BY <2>2, <2>6 DEF RefuseBusy, Client!AckStatus
    <3>4. refused' \subseteq Seqs /\ interrupted' \subseteq Seqs
      BY <2>2, <2>6 DEF RefuseBusy
    <3>5. QED
      BY <2>1, <2>2, <2>6, <3>1, <3>2, <3>3, <3>4 DEF RefuseBusy, policy
  <2>7. QED
    BY <2>1, <2>4, <2>5, <2>6 DEF seq
<1>7. CASE Finish
  <2>1. running \in Seqs
    BY <1>7 DEF Finish
  <2>2. <<running, "OK">> \in Message
    BY <2>1 DEF Message, Client!AckStatus
  <2>3. toController' \in Seq(Message)
    BY <1>7, <2>2, Appended DEF Finish, Reply
  <2>4. status' \in [Seqs -> Client!AckStatus]
    BY <1>7, <2>1 DEF Finish, Client!AckStatus
  <2>5. QED
    BY <1>7, <2>1, <2>3, <2>4 DEF Finish, policy
<1>8. CASE Restart
  <2>1. status' \in [Seqs -> Client!AckStatus]
    BY <1>8 DEF Restart, Client!AckStatus
  <2>2. valid' \in BOOLEAN /\ last_seq' \in Seqs
    BY <1>8 DEF Restart, Hand!Reset
  <2>3. /\ restarts' \in Nat /\ running' \in Seqs \cup {0}
        /\ refused' \subseteq Seqs /\ interrupted' \subseteq Seqs
    BY <1>8 DEF Restart
  <2>4. UNCHANGED <<toExecutor, toController, sent, expected_seq_, action,
                    executed, done>>
    BY <1>8 DEF Restart, policy, link
  <2> HIDE DEF TypeInv
  <2>5. QED
    BY <2>1, <2>2, <2>3, <2>4 DEF TypeInv
<1>9. CASE Lose
  <2>1. toExecutor' \in Seq(Seqs) /\ toController' \in Seq(Message)
    BY <1>9, Removed DEF Lose
  <2>2. QED
    BY <1>9, <2>1 DEF Lose, policy, executor
<1>10. CASE UNCHANGED vars
  BY <1>10 DEF vars, policy, executor, link
<1>11. QED
  BY <1>1, <1>2, <1>3, <1>4, <1>5, <1>6, <1>7, <1>8, <1>9, <1>10 DEF Next

-----------------------------------------------------------------------------
LEMMA InitConfirmed == Init => Confirmed
  BY DEF Init, Client!Init, Confirmed, SuccessMeansDone

LEMMA NextConfirmed == TypeInv /\ Confirmed /\ [Next]_vars => Confirmed'
<1> SUFFICES ASSUME TypeInv, Confirmed, [Next]_vars PROVE Confirmed'
  OBVIOUS
<1> USE DEF Confirmed, SuccessMeansDone
<1>0. toController \in Seq(Message)
  BY DEF TypeInv
<1>1. ASSUME NEW a \in Actions, Begin(a) PROVE Confirmed'
  BY <1>1 DEF Begin, Client!start, executor
<1>2. CASE Resend
  BY <1>2 DEF Resend, Client!Retry, executor
<1>3. CASE Poll
  BY <1>3 DEF Poll, Client!NotExpired, Client!GiveUp, Client!policy, executor, link
<1>4. CASE Tick
  BY <1>4 DEF Tick, Client!Tick, Client!policy, executor, link
<1>5. CASE ReceiveAck
  <2>1. PICK i \in Deliverable(toController) :
           /\ Client!on_ack(toController[i][1], toController[i][2])
           /\ toController' = RemoveAt(toController, i)
           /\ UNCHANGED <<executor, toExecutor, sent, action>>
    BY <1>5 DEF ReceiveAck
  <2>2. i \in DOMAIN toController
    BY <2>1 DEF Deliverable
  <2>3. \A j \in DOMAIN toController' :
           \E k \in DOMAIN toController : toController'[j] = toController[k]
    BY <1>0, <2>1, <2>2, RemovedIsThere
  <2>4. state_' = "SUCCEEDED" => expected_seq_' \in done
    BY <2>1, <2>2 DEF Client!on_ack, Client!AckIgnored, Client!AckInProgress,
                      Client!AckFinal, Client!Expected, Client!policy
  <2>5. UNCHANGED <<status, done>>
    BY <2>1 DEF executor
  <2>6. QED
    BY <2>3, <2>4, <2>5
<1>6. CASE ReceiveCommand
  <2>1. PICK i \in Deliverable(toExecutor) :
           /\ \/ AnswerAgain(toExecutor[i]) \/ Execute(toExecutor[i])
              \/ RefuseBusy(toExecutor[i])
           /\ UNCHANGED <<policy, done>>
    BY <1>6 DEF ReceiveCommand
  <2> DEFINE seq == toExecutor[i]
  <2>2. seq \in Seqs
    BY <2>1, ElementOfSeq, LenProperties DEF Deliverable, TypeInv
  <2> HIDE DEF seq
  <2>3. ASSUME NEW st \in Client!AckStatus, Reply(seq, st), st = "OK" => seq \in done
        PROVE  \A j \in DOMAIN toController' :
                  toController'[j][2] = "OK" => toController'[j][1] \in done
    <3>1. <<seq, st>> \in Message
      BY <2>2, <2>3 DEF Message
    <3>2. toController' = Append(toController, <<seq, st>>)
      BY <2>3 DEF Reply
    <3>3. ASSUME NEW j \in DOMAIN toController', toController'[j][2] = "OK"
          PROVE  toController'[j][1] \in done
      <4>1. \/ toController'[j] = <<seq, st>>
            \/ j \in DOMAIN toController /\ toController'[j] = toController[j]
        BY <1>0, <3>1, <3>2, AppendedIsThere
      <4>2. QED
        BY <2>3, <3>3, <4>1
    <3>4. QED
      BY <3>3
  <2>4. state_' = state_ /\ expected_seq_' = expected_seq_ /\ done' = done
    BY <2>1 DEF policy
  <2>5. CASE AnswerAgain(seq)
    <3>1. status[seq] \in Client!AckStatus /\ Reply(seq, status[seq])
      BY <2>2, <2>5 DEF AnswerAgain, TypeInv
    <3>2. status' = status
      BY <2>5 DEF AnswerAgain
    <3>3. QED
      BY <2>2, <2>3, <2>4, <3>1, <3>2
  <2>6. CASE Execute(seq)
    <3>1. Reply(seq, "IN_PROGRESS") /\ "IN_PROGRESS" \in Client!AckStatus
      BY <2>6 DEF Execute, Client!AckStatus
    <3>2. \A s \in Seqs : status'[s] = "OK" => status[s] = "OK"
      BY <2>6 DEF Execute
    <3>3. QED
      BY <2>3, <2>4, <3>1, <3>2
  <2>7. CASE RefuseBusy(seq)
    <3>1. Reply(seq, "BUSY") /\ "BUSY" \in Client!AckStatus
      BY <2>7 DEF RefuseBusy, Client!AckStatus
    <3>2. \A s \in Seqs : status'[s] = "OK" => status[s] = "OK"
      BY <2>7 DEF RefuseBusy, TypeInv
    <3>3. QED
      BY <2>3, <2>4, <3>1, <3>2
  <2>8. QED
    BY <2>1, <2>5, <2>6, <2>7 DEF seq
<1>7. CASE Finish
  <2>1. running \in Seqs /\ running \in done' /\ done \subseteq done'
    BY <1>7 DEF Finish, TypeInv
  <2>2. <<running, "OK">> \in Message
    BY <2>1 DEF Message, Client!AckStatus
  <2>3. toController' = Append(toController, <<running, "OK">>)
    BY <1>7 DEF Finish, Reply
  <2>4. ASSUME NEW j \in DOMAIN toController', toController'[j][2] = "OK"
        PROVE  toController'[j][1] \in done'
    <3>1. \/ toController'[j] = <<running, "OK">>
          \/ j \in DOMAIN toController /\ toController'[j] = toController[j]
      BY <1>0, <2>2, <2>3, AppendedIsThere
    <3>2. QED
      BY <2>1, <2>4, <3>1
  <2>5. \A s \in Seqs : status'[s] = "OK" => s \in done'
    BY <1>7, <2>1 DEF Finish, TypeInv
  <2>6. state_' = state_ /\ expected_seq_' = expected_seq_
    BY <1>7 DEF Finish, policy
  <2>7. QED
    BY <2>1, <2>4, <2>5, <2>6
<1>8. CASE Restart
  BY <1>8 DEF Restart, policy, link
<1>9. CASE Lose
  <2>1. \A j \in DOMAIN toController' :
           \E k \in DOMAIN toController : toController'[j] = toController[k]
    BY <1>0, <1>9, RemovedIsThere DEF Lose
  <2>2. UNCHANGED <<state_, expected_seq_, status, done>>
    BY <1>9 DEF Lose, policy, executor
  <2>3. QED
    BY <2>1, <2>2
<1>10. CASE UNCHANGED vars
  BY <1>10 DEF vars, policy, executor, link
<1>11. QED
  BY <1>1, <1>2, <1>3, <1>4, <1>5, <1>6, <1>7, <1>8, <1>9, <1>10 DEF Next

-----------------------------------------------------------------------------
(* On a link that keeps the order the executor takes the oldest command.   *)
LEMMA OldestReceived ==
    ASSUME Ordered, TypeInv, ReceiveCommand
    PROVE  /\ 1 \in DOMAIN toExecutor /\ toExecutor[1] \in Seqs
           /\ \/ AnswerAgain(toExecutor[1]) \/ Execute(toExecutor[1])
              \/ RefuseBusy(toExecutor[1])
           /\ toExecutor' = RemoveAt(toExecutor, 1)
           /\ UNCHANGED <<policy, sent, action, done, restarts>>
<1>1. PICK i \in Deliverable(toExecutor) :
         /\ \/ AnswerAgain(toExecutor[i]) \/ Execute(toExecutor[i])
            \/ RefuseBusy(toExecutor[i])
         /\ toExecutor' = RemoveAt(toExecutor, i)
         /\ UNCHANGED <<policy, sent, action, done, restarts>>
  BY DEF ReceiveCommand
<1>2. i = 1 /\ 1 \in DOMAIN toExecutor
  BY <1>1 DEF Deliverable
<1>3. toExecutor[1] \in Seqs
  BY <1>2, ElementOfSeq, LenProperties DEF TypeInv
<1>4. QED
  BY <1>1, <1>2, <1>3

LEMMA RemovedRises ==
    ASSUME NEW s \in Seq(Seqs), NEW i \in DOMAIN s, Rising(s)
    PROVE  Rising(RemoveAt(s, i))
<1> SUFFICES ASSUME NEW j \in DOMAIN RemoveAt(s, i), NEW k \in DOMAIN RemoveAt(s, i), j < k
             PROVE  RemoveAt(s, i)[j] <= RemoveAt(s, i)[k]
  BY DEF Rising
<1>0. RemoveAt(s, i) \in Seq(Seqs)
  BY Removed
<1>1. i \in Nat /\ j \in Nat /\ k \in Nat
  BY <1>0, LenProperties
<1>2. CASE k < i
  <2>1. /\ j \in DOMAIN s /\ RemoveAt(s, i)[j] = s[j]
        /\ k \in DOMAIN s /\ RemoveAt(s, i)[k] = s[k]
    BY <1>1, <1>2, Removed
  <2>2. QED
    BY <2>1 DEF Rising
<1>3. CASE j < i /\ k >= i
  <2>1. /\ j \in DOMAIN s /\ RemoveAt(s, i)[j] = s[j]
        /\ k + 1 \in DOMAIN s /\ RemoveAt(s, i)[k] = s[k + 1]
    BY <1>3, Removed
  <2>2. QED
    BY <1>1, <2>1 DEF Rising
<1>4. CASE j >= i
  <2>1. j + 1 \in DOMAIN s /\ RemoveAt(s, i)[j] = s[j + 1]
    BY <1>4, Removed
  <2>2. k >= i
    BY <1>1, <1>4
  <2>3. k + 1 \in DOMAIN s /\ RemoveAt(s, i)[k] = s[k + 1]
    BY <2>2, Removed
  <2>4. QED
    BY <1>1, <2>1, <2>3 DEF Rising
<1>5. QED
  BY <1>1, <1>2, <1>3, <1>4

LEMMA AppendedRises ==
    ASSUME NEW s \in Seq(Seqs), NEW e \in Seqs, Rising(s),
           \A i \in DOMAIN s : s[i] <= e
    PROVE  Rising(Append(s, e))
<1> SUFFICES ASSUME NEW j \in DOMAIN Append(s, e), NEW k \in DOMAIN Append(s, e), j < k
             PROVE  Append(s, e)[j] <= Append(s, e)[k]
  BY DEF Rising
<1>1. j \in DOMAIN s /\ Append(s, e)[j] = s[j]
  BY Appended
<1>2. k \in DOMAIN s \/ k = Len(s) + 1
  BY Appended
<1>3. QED
  BY <1>1, <1>2, Appended DEF Rising

LEMMA InitInOrder == Init => InOrder
<1> SUFFICES ASSUME Init PROVE InOrder
  OBVIOUS
<1>1. DOMAIN toExecutor = {}
  BY DEF Init
<1>2. QED
  BY <1>1 DEF Init, Client!Init, Hand!Init, InOrder, Rising

LEMMA NextInOrder ==
    Ordered /\ TypeInv /\ InOrder /\ [Next]_vars => InOrder'
<1> SUFFICES ASSUME Ordered, TypeInv, InOrder, [Next]_vars PROVE InOrder'
  OBVIOUS
<1>0. /\ toExecutor \in Seq(Seqs) /\ sent \in Nat
      /\ last_seq \in Nat /\ expected_seq_ \in Nat
  BY DEF TypeInv, Seqs
<1>s. \A i \in DOMAIN toExecutor : toExecutor[i] \in Nat
  <2>1. \A i \in DOMAIN toExecutor : toExecutor[i] \in Seqs
    BY <1>0, ElementOfSeq, LenProperties
  <2>2. QED
    BY <2>1 DEF Seqs
<1>1. ASSUME NEW a \in Actions, Begin(a) PROVE InOrder'
  <2>1. sent + 1 \in Seqs
    BY <1>0, <1>1, BoundsAssumption DEF Begin, Seqs, BoundsAssumption
  <2>2. toExecutor' = Append(toExecutor, sent + 1) /\ sent' = sent + 1
    BY <1>1 DEF Begin, Transmit
  <2>3. \A i \in DOMAIN toExecutor : toExecutor[i] <= sent + 1
    BY <1>0, <1>s DEF InOrder
  <2>4. Rising(toExecutor')
    BY <1>0, <2>1, <2>2, <2>3, AppendedRises DEF InOrder
  <2>5. \A i \in DOMAIN toExecutor' :
           toExecutor'[i] <= sent' /\ (valid => last_seq <= toExecutor'[i])
    <3> SUFFICES ASSUME NEW i \in DOMAIN toExecutor'
                 PROVE  toExecutor'[i] <= sent' /\ (valid => last_seq <= toExecutor'[i])
      OBVIOUS
    <3>1. \/ toExecutor'[i] = sent + 1
          \/ i \in DOMAIN toExecutor /\ toExecutor'[i] = toExecutor[i]
      BY <1>0, <2>1, <2>2, AppendedIsThere
    <3>2. QED
      BY <1>0, <2>2, <2>3, <3>1 DEF InOrder
  <2>6. expected_seq_' = sent' /\ valid' = valid /\ last_seq' = last_seq
    BY <1>1 DEF Begin, Client!start, executor
  <2>7. valid => last_seq <= sent'
    BY <1>0, <2>2 DEF InOrder
  <2>8. QED
    BY <2>4, <2>5, <2>6, <2>7 DEF InOrder, Rising
<1>2. CASE Resend
  <2>1. /\ toExecutor' = Append(toExecutor, expected_seq_)
        /\ expected_seq_ = sent /\ expected_seq_ \in Seqs
        /\ UNCHANGED <<sent, expected_seq_, valid, last_seq>>
    BY <1>2 DEF Resend, Client!Retry, Transmit, executor, InOrder, TypeInv
  <2>2. Rising(toExecutor')
    BY <1>0, <2>1, AppendedRises DEF InOrder
  <2>3. \A i \in DOMAIN toExecutor' :
           toExecutor'[i] <= sent /\ (valid => last_seq <= toExecutor'[i])
    <3> SUFFICES ASSUME NEW i \in DOMAIN toExecutor'
                 PROVE  toExecutor'[i] <= sent /\ (valid => last_seq <= toExecutor'[i])
      OBVIOUS
    <3>1. \/ toExecutor'[i] = sent
          \/ i \in DOMAIN toExecutor /\ toExecutor'[i] = toExecutor[i]
      BY <1>0, <2>1, AppendedIsThere
    <3>2. QED
      BY <1>0, <3>1 DEF InOrder
  <2>4. QED
    BY <2>1, <2>2, <2>3 DEF InOrder, Rising
<1>3. CASE Poll \/ Tick \/ Finish \/ UNCHANGED vars
  <2>1. /\ UNCHANGED <<toExecutor, sent, expected_seq_, valid, last_seq>>
        /\ state_' = "WAITING" => state_ = "WAITING"
    BY <1>3 DEF Poll, Tick, Finish, Client!NotExpired, Client!GiveUp, Client!Tick,
                Client!policy, policy, executor, link, vars
  <2>2. QED
    BY <2>1 DEF InOrder, Rising
<1>4. CASE ReceiveAck
  <2>1. PICK i \in Deliverable(toController) :
           /\ Client!on_ack(toController[i][1], toController[i][2])
           /\ UNCHANGED <<executor, toExecutor, sent, action>>
    BY <1>4 DEF ReceiveAck
  <2>2. /\ UNCHANGED <<toExecutor, sent, expected_seq_, valid, last_seq>>
        /\ state_' = "WAITING" => state_ = "WAITING"
    BY <2>1 DEF Client!on_ack, Client!AckIgnored, Client!AckInProgress,
                Client!AckFinal, Client!policy, executor
  <2>3. QED
    BY <2>2 DEF InOrder, Rising
<1>5. CASE ReceiveCommand
  <2>1. /\ 1 \in DOMAIN toExecutor /\ toExecutor[1] \in Seqs
        /\ \/ AnswerAgain(toExecutor[1]) \/ Execute(toExecutor[1])
           \/ RefuseBusy(toExecutor[1])
        /\ toExecutor' = RemoveAt(toExecutor, 1)
        /\ UNCHANGED <<policy, sent, action, done, restarts>>
    BY <1>5, OldestReceived
  <2>2. Rising(toExecutor')
    BY <1>0, <2>1, RemovedRises DEF InOrder
  <2>3. ASSUME NEW i \in DOMAIN toExecutor'
        PROVE  /\ i + 1 \in DOMAIN toExecutor
               /\ toExecutor'[i] = toExecutor[i + 1]
               /\ toExecutor[1] <= toExecutor'[i]
    <3>1. toExecutor' \in Seq(Seqs)
      BY <1>0, <2>1, Removed
    <3>2. i \in Nat /\ i >= 1
      BY <3>1, LenProperties
    <3>3. i + 1 \in DOMAIN toExecutor /\ toExecutor'[i] = toExecutor[i + 1]
      BY <1>0, <2>1, <3>2, Removed
    <3>4. QED
      BY <2>1, <3>2, <3>3 DEF InOrder, Rising
  <2>4. \A i \in DOMAIN toExecutor' : toExecutor'[i] <= sent
    BY <2>3 DEF InOrder
  <2>5. \/ UNCHANGED <<valid, last_seq>>
        \/ last_seq' = toExecutor[1]
    BY <2>1 DEF AnswerAgain, Execute, RefuseBusy, Hand!Duplicate, Hand!seq_dedup,
                Hand!Fresh, Hand!Remember
  <2>6. valid' => (\A i \in DOMAIN toExecutor' : last_seq' <= toExecutor'[i])
    BY <2>3, <2>5 DEF InOrder
  <2>7. valid' => last_seq' <= sent
    BY <2>1, <2>5 DEF InOrder
  <2>8. UNCHANGED <<sent, expected_seq_, state_>>
    BY <2>1 DEF policy
  <2>9. QED
    BY <2>2, <2>4, <2>6, <2>7, <2>8 DEF InOrder, Rising
<1>6. CASE Restart
  <2>1. /\ UNCHANGED <<toExecutor, sent, expected_seq_, state_>>
        /\ valid' = FALSE
    BY <1>6 DEF Restart, Hand!Reset, policy, link
  <2>2. QED
    BY <2>1 DEF InOrder, Rising
<1>7. CASE Lose
  <2>1. UNCHANGED <<sent, expected_seq_, state_, valid, last_seq>>
    BY <1>7 DEF Lose, policy, executor
  <2>2. CASE UNCHANGED toExecutor
    BY <2>1, <2>2 DEF InOrder, Rising
  <2>3. ASSUME NEW i \in DOMAIN toExecutor, toExecutor' = RemoveAt(toExecutor, i)
        PROVE  InOrder'
    <3>1. Rising(toExecutor')
      BY <1>0, <2>3, RemovedRises DEF InOrder
    <3>2. \A j \in DOMAIN toExecutor' :
             \E k \in DOMAIN toExecutor : toExecutor'[j] = toExecutor[k]
      BY <1>0, <2>3, RemovedIsThere
    <3>3. QED
      BY <2>1, <3>1, <3>2 DEF InOrder, Rising
  <2>4. QED
    BY <1>7, <2>2, <2>3 DEF Lose
<1>8. QED
  BY <1>1, <1>2, <1>3, <1>4, <1>5, <1>6, <1>7 DEF Next

-----------------------------------------------------------------------------
(* The steps that do not concern the executor. *)
LEMMA ControllerStep ==
    Resend \/ Poll \/ Tick \/ ReceiveAck \/ Lose \/ UNCHANGED vars
       => UNCHANGED <<executor, sent, action>>
  BY DEF Resend, Poll, Tick, ReceiveAck, Lose, vars

(* A number that is not the remembered one is above it. *)
LEMMA FreshIsNewer ==
    ASSUME TypeInv, InOrder, 1 \in DOMAIN toExecutor, toExecutor[1] \in Seqs,
           Hand!Fresh(toExecutor[1])
    PROVE  /\ valid => toExecutor[1] > last_seq
           /\ valid' = TRUE /\ last_seq' = toExecutor[1]
<1>1. last_seq \in Nat /\ toExecutor[1] \in Nat
  BY DEF TypeInv, Seqs
<1>2. valid => last_seq <= toExecutor[1] /\ toExecutor[1] # last_seq
  BY DEF InOrder, Hand!Fresh, Hand!IsDuplicate
<1>3. QED
  BY <1>1, <1>2 DEF Hand!Fresh, Hand!Remember

LEMMA InitOnceEach == Init => OnceEach
  BY DEF Init, OnceEach, AtMostOnce

LEMMA NextOnceEach ==
    Ordered /\ TypeInv /\ InOrder /\ OnceEach /\ [Next]_vars => OnceEach'
<1> SUFFICES ASSUME Ordered, TypeInv, InOrder, OnceEach, [Next]_vars PROVE OnceEach'
  OBVIOUS
<1>0. /\ executed \in [Seqs -> Nat] /\ restarts \in Nat /\ last_seq \in Nat
      /\ \A s \in Seqs : s \in Nat
  BY DEF TypeInv, Seqs
<1>1. CASE UNCHANGED <<valid, last_seq, executed, restarts>>
  BY <1>1 DEF OnceEach, AtMostOnce
<1>2. ASSUME NEW a \in Actions, Begin(a) PROVE OnceEach'
  BY <1>1, <1>2 DEF Begin, executor
<1>3. CASE Resend \/ Poll \/ Tick \/ ReceiveAck \/ Lose \/ UNCHANGED vars
  BY <1>1, <1>3, ControllerStep DEF executor
<1>4. CASE Finish
  BY <1>1, <1>4 DEF Finish
<1>5. CASE Restart
  <2>1. valid' = FALSE /\ restarts' = restarts + 1 /\ executed' = executed
    BY <1>5 DEF Restart, Hand!Reset
  <2>2. QED
    BY <1>0, <2>1 DEF OnceEach, AtMostOnce
<1>6. CASE ReceiveCommand
  <2> DEFINE seq == toExecutor[1]
  <2>1. /\ 1 \in DOMAIN toExecutor /\ seq \in Seqs
        /\ AnswerAgain(seq) \/ Execute(seq) \/ RefuseBusy(seq)
        /\ restarts' = restarts
    BY <1>6, OldestReceived
  <2>2. Hand!Fresh(seq) => /\ valid => seq > last_seq
                           /\ valid' = TRUE /\ last_seq' = seq
    BY <2>1, FreshIsNewer
  <2> HIDE DEF seq
  <2>3. CASE AnswerAgain(seq)
    BY <1>1, <2>1, <2>3 DEF AnswerAgain, Hand!Duplicate, Hand!seq_dedup
  <2>4. CASE Execute(seq)
    <3>1. /\ valid => seq > last_seq
          /\ valid' = TRUE /\ last_seq' = seq
          /\ executed' = [executed EXCEPT ![seq] = @ + 1]
      BY <2>2, <2>4 DEF Execute
    <3>2. executed[seq] <= restarts
      BY <2>1, <3>1 DEF OnceEach
    <3>3. \A s \in Seqs : executed'[s] <= 1 + restarts
      BY <1>0, <2>1, <3>1, <3>2 DEF OnceEach, AtMostOnce
    <3>4. ASSUME NEW s \in Seqs, s > seq PROVE executed'[s] <= restarts
      <4>1. valid => s > last_seq
        BY <1>0, <2>1, <3>1, <3>4
      <4>2. executed'[s] = executed[s]
        BY <1>0, <2>1, <3>1, <3>4
      <4>3. QED
        BY <4>1, <4>2 DEF OnceEach
    <3>5. QED
      BY <2>1, <3>1, <3>3, <3>4 DEF OnceEach, AtMostOnce
  <2>5. CASE RefuseBusy(seq)
    <3>1. /\ valid => seq > last_seq
          /\ valid' = TRUE /\ last_seq' = seq
          /\ executed' = executed
      BY <2>2, <2>5 DEF RefuseBusy
    <3>2. ASSUME NEW s \in Seqs, s > seq PROVE executed[s] <= restarts
      <4>1. valid => s > last_seq
        BY <1>0, <2>1, <3>1, <3>2
      <4>2. QED
        BY <4>1 DEF OnceEach
    <3>3. QED
      BY <2>1, <3>1, <3>2 DEF OnceEach, AtMostOnce
  <2>6. QED
    BY <2>1, <2>3, <2>4, <2>5
<1>7. QED
  BY <1>2, <1>3, <1>4, <1>5, <1>6 DEF Next

-----------------------------------------------------------------------------
LEMMA InitActuator == Init => Actuator
  BY DEF Init, Hand!Init, Hand!state_t, Actuator, RefusalIsFinal, OnlyStopInterrupts

LEMMA NextActuator ==
    Ordered /\ TypeInv /\ InOrder /\ Actuator /\ [Next]_vars => Actuator'
<1> SUFFICES ASSUME Ordered, TypeInv, InOrder, Actuator, [Next]_vars PROVE Actuator'
  OBVIOUS
<1>0. /\ last_seq \in Nat
      /\ status \in [Seqs -> Client!AckStatus]
      /\ refused \subseteq Seqs /\ interrupted \subseteq Seqs
      /\ running \in Seqs \cup {0} /\ sent \in Nat
      /\ action \in [Seqs -> Actions \cup {"ACTION_NONE"}]
      /\ \A s \in Seqs : s \in Nat /\ s # 0
  BY DEF TypeInv, Seqs
<1>1. CASE UNCHANGED <<executor, sent, action>>
  BY <1>1 DEF executor, Actuator, RefusalIsFinal, OnlyStopInterrupts
<1>2. ASSUME NEW a \in Actions, Begin(a) PROVE Actuator'
  <2>1. /\ sent' = sent + 1
        /\ action' = [action EXCEPT ![sent + 1] = a]
        /\ UNCHANGED executor
    BY <1>2 DEF Begin
  <2>2. \A s \in Seqs : action'[s] = "ACTION_STOP" => s <= sent'
    BY <1>0, <2>1 DEF Actuator
  <2>3. \A s \in Seqs : action[s] = "ACTION_STOP" => action'[s] = "ACTION_STOP"
    <3>1. ASSUME NEW s \in Seqs, action[s] = "ACTION_STOP" PROVE s # sent + 1
      BY <1>0, <3>1 DEF Actuator
    <3>2. QED
      BY <1>0, <2>1, <3>1
  <2>4. OnlyStopInterrupts'
    BY <2>1, <2>3 DEF Actuator, OnlyStopInterrupts, executor
  <2>5. QED
    BY <2>1, <2>2, <2>4 DEF Actuator, RefusalIsFinal, executor
<1>3. CASE Resend \/ Poll \/ Tick \/ ReceiveAck \/ Lose \/ UNCHANGED vars
  BY <1>1, <1>3, ControllerStep
<1>4. CASE ReceiveCommand
  <2> DEFINE seq == toExecutor[1]
  <2>1. /\ 1 \in DOMAIN toExecutor /\ seq \in Seqs
        /\ AnswerAgain(seq) \/ Execute(seq) \/ RefuseBusy(seq)
        /\ UNCHANGED <<restarts, sent, action, done>>
    BY <1>4, OldestReceived
  <2>2. Hand!Fresh(seq) => /\ valid => seq > last_seq
                           /\ valid' = TRUE /\ last_seq' = seq
    BY <2>1, FreshIsNewer
  <2> HIDE DEF seq
  <2>3. CASE AnswerAgain(seq)
    <3>1. UNCHANGED <<executor, sent, action>>
      BY <2>1, <2>3 DEF AnswerAgain, Hand!Duplicate, Hand!seq_dedup, executor
    <3>2. QED
      BY <1>1, <3>1
  <2>4. CASE Execute(seq)
    <3>1. /\ valid => seq > last_seq
          /\ valid' = TRUE /\ last_seq' = seq /\ running' = seq
          /\ refused' = refused /\ interrupted' = interrupted \cup ({running} \ {0})
          /\ status' = [s \in Seqs |-> IF s = seq THEN "IN_PROGRESS"
                                       ELSE IF s = running THEN "PREEMPTED"
                                       ELSE status[s]]
          /\ Hand!Started(action[seq])
      BY <2>2, <2>4 DEF Execute
    <3>2. \A s \in (refused \cup interrupted)' : s < seq
      <4> SUFFICES ASSUME NEW s \in refused \cup interrupted \cup ({running} \ {0})
                   PROVE  s < seq
        BY <3>1
      <4>1. valid /\ s <= last_seq /\ s \in Nat
        BY <1>0 DEF Actuator
      <4>2. QED
        BY <1>0, <2>1, <3>1, <4>1
    <3>3. current_state' # "STATE_IDLE"
      <4>1. action[seq] \in Hand!action_t /\ action[seq] # "ACTION_NONE"
        BY <1>0, <2>1, <3>1, ActionsAssumption
           DEF Hand!Started, Hand!MayStart, Hand!action_t, ActionsAssumption
      <4>2. current_state' = Hand!action_to_state(action[seq])
        BY <3>1 DEF Hand!Started
      <4>3. QED
        BY <4>1, <4>2 DEF Hand!action_t, Hand!action_to_state
    <3>4. RefusalIsFinal'
      BY <1>0, <2>1, <3>1, <3>2 DEF RefusalIsFinal
    <3>5. \A s \in (refused \cup interrupted)' : valid' /\ s <= last_seq'
      <4>1. \A s \in (refused \cup interrupted)' : s \in Nat
        BY <1>0, <3>1
      <4>2. QED
        BY <1>0, <2>1, <3>1, <3>2, <4>1
    <3>6. OnlyStopInterrupts'
      <4> SUFFICES ASSUME NEW s \in Seqs, status'[s] = "PREEMPTED"
                   PROVE  \E t \in Seqs : t > s /\ action[t] = "ACTION_STOP"
        BY <2>1 DEF OnlyStopInterrupts
      <4>1. CASE s = running
        <5>1. running # 0
          BY <1>0, <4>1
        <5>2. seq > s
          <6>1. valid /\ running <= last_seq
            BY <5>1 DEF Actuator
          <6>2. QED
            BY <1>0, <2>1, <3>1, <4>1, <6>1
        <5>3. action[seq] = "ACTION_STOP"
          <6>1. current_state # "STATE_IDLE"
            BY <5>1 DEF Actuator
          <6>2. current_state \in Hand!state_t
            BY DEF Actuator
          <6>3. QED
            BY <3>1, <6>1, <6>2 DEF Hand!Started, Hand!MayStart,
               Hand!action_is_stop, Hand!state_is_busy
        <5>4. QED
          BY <2>1, <5>2, <5>3
      <4>2. CASE s # running
        <5>1. status[s] = "PREEMPTED"
          BY <3>1, <4>2
        <5>2. QED
          BY <5>1 DEF Actuator, OnlyStopInterrupts
      <4>3. QED
        BY <4>1, <4>2
    <3>7. \A s \in Seqs : action'[s] = "ACTION_STOP" => s <= sent'
      BY <2>1 DEF Actuator
    <3>8. running' <= last_seq'
      BY <1>0, <2>1, <3>1
    <3>9. current_state' \in Hand!state_t
      BY <3>1 DEF Hand!Started, Hand!action_to_state, Hand!state_t
    <3>10. QED
      BY <3>1, <3>3, <3>4, <3>5, <3>6, <3>7, <3>8, <3>9 DEF Actuator
  <2>5. CASE RefuseBusy(seq)
    <3>1. /\ valid => seq > last_seq
          /\ valid' = TRUE /\ last_seq' = seq
          /\ status' = [status EXCEPT ![seq] = "BUSY"]
          /\ refused' = refused \cup {seq}
          /\ UNCHANGED <<running, interrupted, current_state>>
      BY <2>2, <2>5 DEF RefuseBusy, Hand!Refused
    <3>2. \A s \in refused \cup interrupted \cup {running} :
             s \in Nat /\ s < seq
      <4> SUFFICES ASSUME NEW s \in refused \cup interrupted \cup ({running} \ {0})
                   PROVE  s \in Nat /\ s < seq
        BY <1>0, <2>1
      <4>1. valid /\ s <= last_seq /\ s \in Nat
        BY <1>0 DEF Actuator
      <4>2. QED
        BY <1>0, <2>1, <3>1, <4>1
    <3>3. /\ running # 0 => running <= last_seq'
          /\ \A s \in (refused \cup interrupted)' : valid' /\ s <= last_seq'
      BY <1>0, <2>1, <3>1, <3>2
    <3>4. RefusalIsFinal'
      BY <1>0, <2>1, <3>1, <3>2 DEF Actuator, RefusalIsFinal
    <3>5. OnlyStopInterrupts'
      <4>1. \A s \in Seqs : status'[s] = "PREEMPTED" => status[s] = "PREEMPTED"
        BY <1>0, <2>1, <3>1
      <4>2. QED
        BY <2>1, <4>1 DEF Actuator, OnlyStopInterrupts
    <3>6. QED
      BY <2>1, <3>1, <3>3, <3>4, <3>5 DEF Actuator
  <2>6. QED
    BY <2>1, <2>3, <2>4, <2>5
<1>5. CASE Finish
  <2>1. /\ running \in Seqs /\ running # 0 /\ running' = 0
        /\ current_state' = "STATE_IDLE"
        /\ status' = [status EXCEPT ![running] = "OK"]
        /\ UNCHANGED <<valid, last_seq, refused, interrupted, sent, action>>
    BY <1>0, <1>5 DEF Finish, Hand!Completed
  <2>3. RefusalIsFinal'
    BY <1>0, <2>1 DEF RefusalIsFinal
  <2>4. \A s \in Seqs : status'[s] = "PREEMPTED" => status[s] = "PREEMPTED"
    BY <1>0, <2>1
  <2>5. OnlyStopInterrupts'
    BY <2>1, <2>4 DEF Actuator, OnlyStopInterrupts
  <2>6. QED
    BY <2>1, <2>3, <2>5 DEF Actuator, Hand!state_t
<1>6. CASE Restart
  <2>1. /\ running' = 0 /\ refused' = {} /\ interrupted' = {}
        /\ status' = [s \in Seqs |-> "IN_PROGRESS"]
        /\ current_state' = "STATE_IDLE"
        /\ UNCHANGED <<sent, action>>
    BY <1>6 DEF Restart, Hand!Completed
  <2>2. QED
    BY <2>1 DEF Actuator, RefusalIsFinal, OnlyStopInterrupts, Hand!state_t
<1>7. QED
  BY <1>2, <1>3, <1>4, <1>5, <1>6 DEF Next

-----------------------------------------------------------------------------
(* The controller never takes a command for carried out that was not: the  *)
(* ACKs of other commands, late or repeated or overtaken, do not confuse   *)
(* it, whether or not the link keeps the order.                            *)
THEOREM SuccessMeansDoneHolds == Spec => []SuccessMeansDone
<1>1. Confirmed => SuccessMeansDone
  BY DEF Confirmed
<1>2. QED
  BY InitType, NextType, InitConfirmed, NextConfirmed, <1>1, PTL DEF Spec

(* On a link that keeps the order, remembering the last number is enough   *)
(* for the duplicate filter: an action begins at most once, and once more  *)
(* for each restart, whatever is lost and retransmitted.                   *)
THEOREM AtMostOnceHolds == ASSUME Ordered PROVE Spec => []AtMostOnce
<1>1. OnceEach => AtMostOnce
  BY DEF OnceEach
<1>2. QED
  BY Ordered, InitType, NextType, InitInOrder, NextInOrder, InitOnceEach, NextOnceEach,
     <1>1, PTL DEF Spec

LEMMA ActuatorHolds == ASSUME Ordered PROVE Spec => []Actuator
  BY Ordered, InitType, NextType, InitInOrder, NextInOrder, InitActuator, NextActuator,
     PTL DEF Spec

(* On a link that keeps the order a command that was ever answered BUSY,   *)
(* or interrupted, is not begun (again) before the executor restarts,      *)
(* whatever is lost and retransmitted.                                     *)
THEOREM RefusalIsFinalHolds == ASSUME Ordered PROVE Spec => []RefusalIsFinal
<1>1. Actuator => RefusalIsFinal
  BY DEF Actuator
<1>2. QED
  BY Ordered, ActuatorHolds, <1>1, PTL

(* An interrupted command was followed by a STOP. *)
THEOREM OnlyStopInterruptsHolds == ASSUME Ordered PROVE Spec => []OnlyStopInterrupts
<1>1. Actuator => OnlyStopInterrupts
  BY DEF Actuator
<1>2. QED
  BY Ordered, ActuatorHolds, <1>1, PTL
=============================================================================
