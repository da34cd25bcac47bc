------------------------------ MODULE KeyStore ------------------------------
(***************************************************************************)
(* What the portal and the flash promise to whoever sets the rover up,     *)
(* without the keys being written one by one, committed, or cut short: a   *)
(* pair of name and password that was confirmed is the one in use after    *)
(* every later start, until another save begins. A save that is not        *)
(* confirmed may be found whole, in part or not at all, but the first      *)
(* start after it that can read decides which, once and for all. A start   *)
(* that cannot read uses nothing, and decides and changes nothing.         *)
(***************************************************************************)
EXTENDS Integers

CONSTANTS
  Key,        (* what a form fills in                                      *)
  MaxForms    (* bound: forms that are submitted, numbered from 1          *)

Pair == [Key -> 0..MaxForms]   (* the form each value is of, 0 for none    *)
Both(f) == [k \in Key |-> f]

VARIABLES
  kept,     (* what the store holds if the saves under way leave nothing   *)
  open,     (* forms whose save has begun and was not confirmed            *)
  used      (* what the current start found, {} while it has not looked    *)

vars == <<kept, open, used>>

Init ==
  /\ kept = Both(0)
  /\ open = {}
  /\ used = {}

Begin(f) ==
  /\ open' = open \cup {f}
  /\ UNCHANGED <<kept, used>>

(* The answer "saved" to the person at the portal.                         *)
Confirm(f) ==
  /\ f \in open
  /\ kept' = Both(f)
  /\ open' = {}
  /\ UNCHANGED used

(* A start looks once, if it can.                                         *)
Look(p) ==
  /\ used = {}
  /\ \A k \in Key : p[k] \in {kept[k]} \cup open
  /\ kept' = p
  /\ open' = {}
  /\ used' = {p}

Restart ==
  /\ used' = {}
  /\ UNCHANGED <<kept, open>>

Erase ==
  /\ used = {}
  /\ kept' = Both(0)
  /\ open' = {}
  /\ UNCHANGED used

Next ==
  \/ \E f \in 1..MaxForms : Begin(f) \/ Confirm(f)
  \/ \E p \in Pair : Look(p)
  \/ Restart \/ Erase

Spec == Init /\ [][Next]_vars

-----------------------------------------------------------------------------
(* While no save is under way, the pair stays what it is, or is erased as  *)
(* a whole, and it is the one a start finds that looks.                    *)
SettledStays ==
  [][open = {} => /\ kept' \in {kept, Both(0)}
                  /\ used = {} /\ used' # {} => used' = {kept}]_vars

=============================================================================
