--------------------------- MODULE CommandService ---------------------------
(***************************************************************************)
(* What the command path promises to whoever sends commands, without the   *)
(* tasks, queues, counters and error reports that implement it: a bounded  *)
(* first-in first-out service with one server. A command is refused only   *)
(* when the backlog is full; an accepted one is transmitted at least once  *)
(* and at most MaxTries times, and given up only after MaxTries of them.   *)
(***************************************************************************)
EXTENDS Integers, Sequences

CONSTANTS
  MaxCmds,    (* bound: commands offered, numbered in order of arrival     *)
  Capacity,   (* length of the backlog                                     *)
  MaxTries    (* transmissions before a command is given up                *)

VARIABLES
  offered,    (* how many commands have been accepted or refused           *)
  backlog,    (* accepted, waiting                                         *)
  serving,    (* the command being transmitted, 0 when there is none       *)
  tries,      (* transmissions of serving                                  *)
  fate        (* what became of each command                               *)

vars == <<offered, backlog, serving, tries, fate>>

Init ==
  /\ offered = 0
  /\ backlog = <<>>
  /\ serving = 0
  /\ tries = 0
  /\ fate = [c \in 1..MaxCmds |-> "none"]

Decided(c, f) == fate' = [fate EXCEPT ![c] = f]

Accept ==
  /\ offered < MaxCmds
  /\ Len(backlog) < Capacity
  /\ offered' = offered + 1
  /\ backlog' = Append(backlog, offered')
  /\ Decided(offered', "accepted")
  /\ UNCHANGED <<serving, tries>>

Refuse ==
  /\ offered < MaxCmds
  /\ Len(backlog) = Capacity
  /\ offered' = offered + 1
  /\ Decided(offered', "refused")
  /\ UNCHANGED <<backlog, serving, tries>>

Take ==
  /\ serving = 0
  /\ backlog # <<>>
  /\ serving' = Head(backlog)
  /\ backlog' = Tail(backlog)
  /\ UNCHANGED <<offered, tries, fate>>

Transmit ==
  /\ serving # 0
  /\ tries < MaxTries
  /\ tries' = tries + 1
  /\ UNCHANGED <<offered, backlog, serving, fate>>

Answer(f) ==
  /\ serving # 0
  /\ Decided(serving, f)
  /\ serving' = 0
  /\ tries' = 0
  /\ UNCHANGED <<offered, backlog>>

Acknowledge == tries > 0 /\ Answer("acked")
GiveUp      == tries = MaxTries /\ Answer("failed")

Serve == Take \/ Transmit \/ Acknowledge \/ GiveUp
Next  == Accept \/ Refuse \/ Serve

Safety == Init /\ [][Next]_vars

(* The server never stops while something is accepted and unanswered. *)
Spec == Safety /\ WF_vars(Serve)

-----------------------------------------------------------------------------
Final == {"acked", "failed", "refused"}

(* Commands are answered in the order they were offered in: whoever sees   *)
(* one answered knows what became of every earlier one.                    *)
AnsweredInOrder ==
  \A c, d \in 1..MaxCmds :
    c < d /\ fate[d] \in {"acked", "failed"} => fate[c] \in Final

(* And once: what has been decided of a command is never decided again.    *)
DecidedOnce ==
  [][\A c \in 1..MaxCmds : fate[c] \in Final => fate'[c] = fate[c]]_vars

=============================================================================
