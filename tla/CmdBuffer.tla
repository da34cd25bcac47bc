------------------------------ MODULE CmdBuffer ------------------------------
(***************************************************************************)
(* components/json-parser: the circular buffer between parse_json and      *)
(* take_cmd. A command lives in the slot its identifier selects, so an     *)
(* older command with the same residue is overwritten. Identifiers are     *)
(* truncated to their width (uint16_t) on the way in. What the command     *)
(* asks for (cmd, intensity) is one payload value.                         *)
(***************************************************************************)
EXTENDS Integers, FiniteSets

CONSTANTS
  N,         (* CMD_BUFFER_LEN (10)                                         *)
  IdMod,     (* 2^16, the number of values of a uint16_t                    *)
  RawIds,    (* bound: "id" values that frames carry, before truncation     *)
  Payload,   (* bound: what commands ask for                                *)
  Absent,    (* no payload                                                  *)
  MaxStores  (* bound: commands parsed                                      *)

ASSUME BufferAssumption ==
  /\ N \in 1..255          (* slots are counted in a uint8_t               *)
  /\ IdMod \in Nat /\ IdMod > N
  /\ RawIds \subseteq Int
  /\ Absent \notin Payload
  /\ MaxStores \in Nat

VARIABLES
  buffer, newest_id, count,   (* cmd_buffer_t                               *)
  taken,     (* what the last take_cmd or modify_cmd answered               *)
  stores,    (* history: commands parsed                                    *)
  latest,    (* history: the payload last stored under each identifier      *)
  streak     (* history: how many of the last parsed identifiers count up   *)
             (* one by one to newest_id                                     *)

vars == <<buffer, newest_id, count, taken, stores, latest, streak>>

Id     == 0..IdMod - 1
Index  == 0..N - 1

Status == {"STATUS_OK", "STATUS_ID_NOT_FOUND", "STATUS_NOT_VALID_ID"}

Empty == [id |-> 0, payload |-> Absent]

TypeOK ==
  /\ buffer \in [Index -> [id : Id, payload : Payload \cup {Absent}]]
  /\ newest_id \in Id
  /\ count \in 0..N
  /\ taken \in [status : Status, payload : Payload \cup {Absent}]
  /\ stores \in 0..MaxStores
  /\ latest \in [Id -> Payload \cup {Absent}]
  /\ streak \in Nat

Init ==
  /\ buffer = [k \in Index |-> Empty]
  /\ newest_id = 0
  /\ count = 0
  /\ taken = [status |-> "STATUS_ID_NOT_FOUND", payload |-> Absent]
  /\ stores = 0
  /\ latest = [id \in Id |-> Absent]
  /\ streak = 0

-----------------------------------------------------------------------------
(* Mutant: one slot is never used. *)
SlotShort(id) == IF id = 0 THEN 255 ELSE (id - 1) % (IF N > 1 THEN N - 1 ELSE 1)

(* uint8_t index = (id - 1) % CMD_BUFFER_LEN. The subtraction is done in   *)
(* int and C's % keeps the sign, so identifier 0 selects slot 255.         *)
Slot(id) == IF id = 0 THEN 255 ELSE (id - 1) % N

(* Mutant: the identifier in the slot is not compared. *)
FoundAny(id) == id # 0 /\ buffer[Slot(id)].id # 0

(* The tests of take_cmd and modify_cmd. *)
Found(id) == id # 0 /\ buffer[Slot(id)].id = id

Answer(id) == IF id = 0 THEN "STATUS_NOT_VALID_ID"
              ELSE IF Found(id) THEN "STATUS_OK" ELSE "STATUS_ID_NOT_FOUND"

(* The buffer with a command put in a slot. A slot outside the buffer is   *)
(* outside cmd_buffer altogether: the buffer stays as it is.               *)
Put(slot, id, p) == IF slot \in Index
                      THEN [buffer EXCEPT ![slot] = [id |-> id, payload |-> p]]
                      ELSE buffer

(* Mutants: the count is not capped; a command is counted only in an empty *)
(* buffer.                                                                 *)
CountUncapped == count + 1
CountFirst    == IF count = 0 THEN 1 ELSE count

CountUp == IF count < N THEN count + 1 ELSE count

(* parse_json with the three fields present, and the push that ends it. *)
ParseJson(raw, p) ==
  LET id == raw % IdMod
  IN /\ stores < MaxStores
     /\ stores' = stores + 1
     /\ buffer' = Put(Slot(id), id, p)
     /\ newest_id' = id
     /\ count' = CountUp
     /\ latest' = [latest EXCEPT ![id] = p]
     /\ streak' = IF streak > 0 /\ id = newest_id + 1 THEN streak + 1
                  ELSE IF id = 0 THEN 0 ELSE 1
     /\ UNCHANGED taken

TakeCmd(id) ==
  /\ taken' = [status  |-> Answer(id),
               payload |-> IF Found(id) THEN buffer[Slot(id)].payload ELSE Absent]
  /\ UNCHANGED <<buffer, newest_id, count, stores, latest, streak>>

(* modify_cmd, called as the documents and tests call it: with a command   *)
(* that keeps its identifier.                                              *)
ModifyCmd(id, p) ==
  /\ taken' = [status |-> Answer(id), payload |-> Absent]
  /\ IF Found(id)
       THEN buffer' = Put(Slot(id), id, p) /\ latest' = [latest EXCEPT ![id] = p]
       ELSE UNCHANGED <<buffer, latest>>
  /\ UNCHANGED <<newest_id, count, stores, streak>>

Next ==
  \/ \E raw \in RawIds, p \in Payload : ParseJson(raw, p)
  \/ \E id \in Id : TakeCmd(id)
  \/ \E id \in Id, p \in Payload : ModifyCmd(id, p)

Spec == Init /\ [][Next]_vars

-----------------------------------------------------------------------------
Occupied == {k \in Index : buffer[k].id # 0}

(* What a caller is handed was the last thing stored under the identifier  *)
(* it asked for, never another command's payload nor an older version.     *)
TakeIsCurrent ==
  \A id \in Id : Found(id) => buffer[Slot(id)].payload = latest[id]

(* Identifiers that count up lose nothing within the capacity: the last N  *)
(* of them can all be taken, the newest of them, which the WebSocket       *)
(* handler takes right after parsing it, however full the buffer is.       *)
WindowIsFound ==
  \A k \in 0..N - 1 : k < streak => Found(newest_id - k)

(* count never falls short of what the buffer holds, nor exceeds it.       *)
CountCovers == Cardinality(Occupied) <= count /\ count <= N

=============================================================================
