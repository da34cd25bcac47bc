------------------------ MODULE CommandServiceProofs ------------------------
(***************************************************************************)
(* What every implementation of CommandService inherits, for any number of *)
(* commands, any capacity and any number of tries: answers come in the     *)
(* order of the commands, and each of them once.                           *)
(***************************************************************************)
EXTENDS CommandService, TLAPS

Cmd  == 1..MaxCmds
Fate == {"none", "accepted", "refused", "acked", "failed"}

Waits(c) == \E k \in 1..Len(backlog) : backlog[k] = c

SvcTypeOK ==
  /\ offered \in 0..MaxCmds
  /\ backlog \in Seq(Cmd)
  /\ serving \in 0..MaxCmds
  /\ fate \in [Cmd -> Fate]

(* The backlog is in order, and behind the command being served.           *)
LineInv ==
  /\ \A j, k \in 1..Len(backlog) : j < k => backlog[j] < backlog[k]
  /\ \A k \in 1..Len(backlog) : serving < backlog[k] /\ backlog[k] <= offered
  /\ serving <= offered

(* What is decided of a command and where it is agree.                     *)
FateInv ==
  \A c \in Cmd :
    /\ fate[c] = "none" <=> c > offered
    /\ fate[c] = "accepted" <=> c = serving \/ Waits(c)

SvcInv == SvcTypeOK /\ LineInv /\ FateInv /\ AnsweredInOrder

-----------------------------------------------------------------------------
LEMMA SvcInit ==
  ASSUME MaxCmds \in Nat, Init
  PROVE  SvcInv
BY DEF Init, SvcInv, SvcTypeOK, LineInv, FateInv, AnsweredInOrder, Waits, Cmd, Fate

(* One command more at the end; the first one taken.                       *)
LEMMA Joins ==
  ASSUME SvcTypeOK, NEW c \in Cmd, backlog' = Append(backlog, c)
  PROVE  /\ backlog' \in Seq(Cmd) /\ Len(backlog') = Len(backlog) + 1
         /\ \A k \in 1..Len(backlog) : backlog'[k] = backlog[k]
         /\ backlog'[Len(backlog) + 1] = c
BY DEF SvcTypeOK

LEMMA Leaves ==
  ASSUME SvcTypeOK, backlog # <<>>, backlog' = Tail(backlog)
  PROVE  /\ backlog' \in Seq(Cmd) /\ Len(backlog') = Len(backlog) - 1
         /\ \A k \in 1..Len(backlog') : k + 1 \in 1..Len(backlog) /\ backlog'[k] = backlog[k + 1]
         /\ 1 \in 1..Len(backlog) /\ Head(backlog) = backlog[1]
BY DEF SvcTypeOK

LEMMA AcceptKeeps ==
  ASSUME MaxCmds \in Nat, SvcInv, Accept
  PROVE  SvcInv'
<1> USE DEF SvcInv, SvcTypeOK, Cmd
<1> DEFINE new == offered + 1
<1>1. /\ new \in Cmd /\ offered' = new /\ backlog' = Append(backlog, new)
      /\ fate' = [fate EXCEPT ![new] = "accepted"] /\ serving' = serving
  BY DEF Accept, Decided
<1>2. /\ backlog' \in Seq(Cmd) /\ Len(backlog') = Len(backlog) + 1
      /\ \A k \in 1..Len(backlog) : backlog'[k] = backlog[k]
      /\ backlog'[Len(backlog) + 1] = new
  BY <1>1, Joins
<1>3. SvcTypeOK'
  BY <1>1, <1>2 DEF Fate
<1>4. \A k \in 1..Len(backlog') :
        k \in 1..Len(backlog) \/ (k = Len(backlog) + 1 /\ backlog'[k] = new)
  BY <1>2
<1>5. LineInv'
  <2>1. \A k \in 1..Len(backlog') : serving' < backlog'[k] /\ backlog'[k] <= offered'
    BY <1>1, <1>2, <1>4 DEF LineInv
  <2>2. ASSUME NEW j \in 1..Len(backlog'), NEW k \in 1..Len(backlog'), j < k
        PROVE  backlog'[j] < backlog'[k]
    <3>1. j \in 1..Len(backlog) /\ backlog'[j] = backlog[j] /\ backlog[j] \in Cmd
      BY <1>2, <2>2
    <3>2. CASE k \in 1..Len(backlog)
      BY <1>2, <2>2, <3>1, <3>2 DEF LineInv
    <3>3. CASE backlog'[k] = new
      BY <3>1, <3>3 DEF LineInv
    <3> QED
      BY <1>4, <3>2, <3>3
  <2> QED
    BY <1>1, <2>1, <2>2 DEF LineInv
<1>6. \A c \in Cmd : Waits(c)' <=> Waits(c) \/ c = new
  <2>1. ASSUME NEW k \in 1..Len(backlog)
        PROVE  k \in 1..Len(backlog') /\ backlog'[k] = backlog[k]
    BY <1>2
  <2>2. Len(backlog) + 1 \in 1..Len(backlog')
    BY <1>2
  <2> QED
    BY <1>2, <1>4, <2>1, <2>2 DEF Waits
<1>7. FateInv'
  <2>1. ~Waits(new) /\ new # serving
    BY <1>1 DEF LineInv, Waits
  <2> QED
    BY <1>1, <1>6, <2>1 DEF FateInv
<1>8. AnsweredInOrder'
  <2>1. fate[new] \notin Final
    BY <1>1 DEF FateInv, Final
  <2> QED
    BY <1>1, <2>1 DEF AnsweredInOrder, Final
<1> QED
  BY <1>3, <1>5, <1>7, <1>8

LEMMA RefuseKeeps ==
  ASSUME MaxCmds \in Nat, SvcInv, Refuse
  PROVE  SvcInv'
<1> USE DEF SvcInv, SvcTypeOK, Cmd
<1> DEFINE new == offered + 1
<1>1. /\ new \in Cmd /\ offered' = new /\ UNCHANGED <<backlog, serving>>
      /\ fate' = [fate EXCEPT ![new] = "refused"]
  BY DEF Refuse, Decided
<1>2. SvcTypeOK' /\ LineInv'
  BY <1>1 DEF LineInv, Fate
<1>3. FateInv'
  <2>1. ~Waits(new) /\ new # serving
    BY <1>1 DEF LineInv, Waits
  <2> QED
    BY <1>1, <2>1 DEF FateInv, Waits
<1>4. AnsweredInOrder'
  BY <1>1 DEF AnsweredInOrder, Final, FateInv
<1> QED
  BY <1>2, <1>3, <1>4

LEMMA TakeKeeps ==
  ASSUME MaxCmds \in Nat, SvcInv, Take
  PROVE  SvcInv'
<1> USE DEF SvcInv, SvcTypeOK, Cmd
<1>1. /\ serving = 0 /\ serving' = backlog[1] /\ backlog[1] \in Cmd
      /\ UNCHANGED <<offered, fate>>
  BY Leaves DEF Take
<1>2. /\ backlog' \in Seq(Cmd) /\ Len(backlog') = Len(backlog) - 1
      /\ \A k \in 1..Len(backlog') : k + 1 \in 1..Len(backlog) /\ backlog'[k] = backlog[k + 1]
      /\ 1 \in 1..Len(backlog)
  BY Leaves DEF Take
<1>3. SvcTypeOK'
  BY <1>1, <1>2
<1>4. LineInv'
  <2>1. ASSUME NEW k \in 1..Len(backlog')
        PROVE  serving' < backlog'[k] /\ backlog'[k] <= offered'
    <3>1. k + 1 \in 1..Len(backlog) /\ backlog'[k] = backlog[k + 1]
      BY ONLY <1>2, k \in 1..Len(backlog')
    <3>0. 1 < k + 1
      BY ONLY k \in 1..Len(backlog')
    <3>2. backlog[1] < backlog[k + 1] /\ backlog[k + 1] <= offered
      BY <1>2, <3>0, <3>1 DEF LineInv
    <3> QED
      BY <1>1, <3>1, <3>2
  <2>2. ASSUME NEW j \in 1..Len(backlog'), NEW k \in 1..Len(backlog'), j < k
        PROVE  backlog'[j] < backlog'[k]
    <3>0. /\ j + 1 \in 1..Len(backlog) /\ backlog'[j] = backlog[j + 1]
          /\ k + 1 \in 1..Len(backlog) /\ backlog'[k] = backlog[k + 1]
      BY ONLY <1>2, j \in 1..Len(backlog'), k \in 1..Len(backlog')
    <3>1. j + 1 < k + 1
      BY <2>2
    <3> QED
      BY <3>0, <3>1 DEF LineInv
  <2>3. serving' <= offered'
    BY <1>1, <1>2 DEF LineInv
  <2> QED
    BY <2>1, <2>2, <2>3 DEF LineInv
<1>5. \A c \in Cmd : Waits(c) <=> Waits(c)' \/ c = backlog[1]
  <2> SUFFICES ASSUME NEW c \in Cmd
               PROVE  Waits(c) <=> Waits(c)' \/ c = backlog[1]
    OBVIOUS
  <2>1. ASSUME NEW k \in 1..Len(backlog), backlog[k] = c, k # 1
        PROVE  Waits(c)'
    <3>1. k - 1 \in 1..Len(backlog') /\ (k - 1) + 1 = k
      BY <1>2, <2>1
    <3>2. backlog'[k - 1] = c
      BY <1>2, <2>1, <3>1
    <3> QED
      BY <3>1, <3>2 DEF Waits
  <2>2. Waits(c)' => Waits(c)
    BY <1>2 DEF Waits
  <2> QED
    BY <1>2, <2>1, <2>2 DEF Waits
<1>6. FateInv'
  BY <1>1, <1>5 DEF FateInv
<1>7. AnsweredInOrder'
  BY <1>1 DEF AnsweredInOrder
<1> QED
  BY <1>3, <1>4, <1>6, <1>7

LEMMA AnswerKeeps ==
  ASSUME MaxCmds \in Nat, SvcInv, NEW f \in {"acked", "failed"}, Answer(f)
  PROVE  SvcInv'
<1> USE DEF SvcInv, SvcTypeOK, Cmd
<1>1. /\ serving \in Cmd /\ serving' = 0 /\ UNCHANGED <<offered, backlog>>
      /\ fate' = [fate EXCEPT ![serving] = f]
  BY DEF Answer, Decided
<1>2. SvcTypeOK'
  BY <1>1 DEF Fate
<1>3. LineInv'
  BY <1>1 DEF LineInv
<1>4. ~Waits(serving)
  BY DEF LineInv, Waits
<1>5. FateInv'
  BY <1>1, <1>4 DEF FateInv, LineInv, Waits
<1>6. AnsweredInOrder'
  <2> SUFFICES ASSUME NEW c \in Cmd, NEW d \in Cmd, c < d,
                      fate'[d] \in {"acked", "failed"}
               PROVE  fate'[c] \in Final
    BY DEF AnsweredInOrder
  <2>1. CASE d # serving
    BY <1>1, <2>1 DEF AnsweredInOrder, Final
  <2>2. CASE d = serving
    <3>1. ~Waits(c) /\ c <= offered
      BY <2>2 DEF LineInv, Waits
    <3>2. fate[c] \notin {"none", "accepted"}
      BY <2>2, <3>1 DEF FateInv
    <3> QED
      BY <1>1, <2>2, <3>2 DEF Final, Fate
  <2> QED
    BY <2>1, <2>2
<1> QED
  BY <1>2, <1>3, <1>5, <1>6

LEMMA SvcNext ==
  ASSUME MaxCmds \in Nat, SvcInv, [Next]_vars
  PROVE  SvcInv'
<1>1. CASE UNCHANGED <<offered, backlog, serving, fate>>
  BY <1>1 DEF SvcInv, SvcTypeOK, LineInv, FateInv, AnsweredInOrder, Waits
<1>2. CASE Transmit \/ UNCHANGED vars
  BY <1>1, <1>2 DEF Transmit, vars
<1>3. CASE Acknowledge \/ GiveUp
  BY <1>3, AnswerKeeps DEF Acknowledge, GiveUp
<1> QED
  BY <1>2, <1>3, AcceptKeeps, RefuseKeeps, TakeKeeps DEF Next, Serve

LEMMA SvcAlways ==
  ASSUME MaxCmds \in Nat
  PROVE  Safety => []SvcInv
<1>1. Init => SvcInv
  BY SvcInit
<1>2. SvcInv /\ [Next]_vars => SvcInv'
  BY SvcNext
<1> QED
  BY <1>1, <1>2, PTL DEF Safety

(* Commands are answered in order: none is overtaken, whatever is refused, *)
(* repeated or given up in between.                                        *)
THEOREM ServiceAnswersInOrder ==
  ASSUME MaxCmds \in Nat
  PROVE  Safety => []AnsweredInOrder
<1>1. SvcInv => AnsweredInOrder
  BY DEF SvcInv
<1> QED
  BY <1>1, SvcAlways, PTL

(* A command that was acknowledged, given up or refused stays so.          *)
THEOREM ServiceDecidesOnce ==
  ASSUME MaxCmds \in Nat
  PROVE  Safety => DecidedOnce
<1>1. ASSUME SvcInv, [Next]_vars, NEW c \in 1..MaxCmds, fate[c] \in Final
      PROVE  fate'[c] = fate[c]
  <2> USE DEF SvcInv, SvcTypeOK, Cmd
  <2>1. c <= offered /\ c # serving
    BY <1>1 DEF FateInv, Final
  <2>2. CASE Accept \/ Refuse
    <3>1. \E f \in Fate : fate' = [fate EXCEPT ![offered + 1] = f]
      BY <2>2 DEF Accept, Refuse, Decided, Fate
    <3> QED
      BY <1>1, <2>1, <3>1
  <2>3. CASE Acknowledge \/ GiveUp
    <3>1. \E f \in Fate : fate' = [fate EXCEPT ![serving] = f]
      BY <2>3 DEF Acknowledge, GiveUp, Answer, Decided, Fate
    <3> QED
      BY <1>1, <2>1, <3>1
  <2>4. CASE Take \/ Transmit \/ UNCHANGED vars
    BY <2>4 DEF Take, Transmit, vars
  <2> QED
    BY <1>1, <2>2, <2>3, <2>4 DEF Next, Serve
<1>2. SvcInv /\ [Next]_vars =>
        [\A c \in 1..MaxCmds : fate[c] \in Final => fate'[c] = fate[c]]_vars
  BY <1>1
<1> QED
  BY <1>2, SvcAlways, PTL DEF Safety, DecidedOnce
=============================================================================
