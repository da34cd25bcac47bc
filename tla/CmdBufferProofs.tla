--------------------------- MODULE CmdBufferProofs ---------------------------
(***************************************************************************)
(* CmdBuffer for every length, identifier width and sequence of calls.     *)
(***************************************************************************)
EXTENDS CmdBuffer, FiniteSetTheorems, TLAPS

(* A remainder by a positive number is an index below it. *)
LEMMA ModRange ==
  ASSUME NEW a \in Int, NEW n \in Nat \ {0}
  PROVE  a % n \in 0..n - 1
OBVIOUS

(* Division with remainder. *)
LEMMA DivMod ==
  ASSUME NEW a \in Int, NEW n \in Nat \ {0}
  PROVE  a \div n \in Int /\ a = n * (a \div n) + (a % n)
<1>1. a \div n \in Int
  OBVIOUS
<1>2. a = n * (a \div n) + (a % n)
  OBVIOUS
<1> QED
  BY <1>1, <1>2

(* Two numbers less than n apart have different remainders by n. *)
LEMMA ModDistinct ==
  ASSUME NEW a \in Int, NEW n \in Nat \ {0}, NEW k \in 1..n - 1
  PROVE  (a - k) % n # a % n
<1>1. PICK q \in Int : a = n * q + (a % n)
  BY DivMod
<1>2. PICK r \in Int : a - k = n * r + ((a - k) % n)
  <2>1. a - k \in Int
    OBVIOUS
  <2> QED
    BY <2>1, DivMod
<1>3. a % n \in Int
  BY ModRange
<1>4. SUFFICES ASSUME (a - k) % n = a % n PROVE FALSE
  OBVIOUS
<1>5. PICK d \in Int : d = q - r /\ k = n * d
  <2>1. n * q - n * r = n * (q - r)
    OBVIOUS
  <2>2. k = n * q - n * r
    BY <1>1, <1>2, <1>3, <1>4
  <2> QED
    BY <2>1, <2>2
<1>6. CASE d <= 0
  <2>1. n * d <= 0
    BY <1>6
  <2> QED
    BY <1>5, <2>1
<1>7. CASE d >= 1
  <2>1. n * d >= n
    BY <1>7
  <2> QED
    BY <1>5, <2>1
<1> QED
  BY <1>6, <1>7

(* Every identifier but 0 selects a slot of the buffer. *)
LEMMA SlotRange ==
  ASSUME NEW id \in Id \ {0}
  PROVE  Slot(id) \in Index
BY BufferAssumption, ModRange DEF Slot, Index, Id

LEMMA ZeroHasNoSlot == Slot(0) \notin Index
BY BufferAssumption DEF Slot, Index

(* Identifiers less than N apart do not share a slot. *)
LEMMA SlotsApart ==
  ASSUME NEW id \in Id \ {0}, NEW k \in 1..N - 1, id - k \in Id \ {0}
  PROVE  Slot(id - k) # Slot(id)
<1>1. ((id - 1) - k) % N # (id - 1) % N
  BY BufferAssumption, ModDistinct DEF Id
<1>2. (id - k) - 1 = (id - 1) - k
  BY BufferAssumption DEF Id
<1> QED
  BY <1>1, <1>2 DEF Slot

-----------------------------------------------------------------------------
Cell == [id : Id, payload : Payload \cup {Absent}]

LEMMA PutType ==
  ASSUME buffer \in [Index -> Cell], NEW slot, NEW id \in Id, NEW p \in Payload
  PROVE  Put(slot, id, p) \in [Index -> Cell]
BY DEF Put, Cell

LEMMA TypeInit == Init => TypeOK
<1> SUFFICES ASSUME Init PROVE TypeOK
  OBVIOUS
<1>1. 0 \in Id /\ 0 \in 0..N /\ 0 \in 0..MaxStores
  BY BufferAssumption DEF Id
<1> QED
  BY <1>1 DEF Init, TypeOK, Empty, Status

LEMMA TypeNext == TypeOK /\ [Next]_vars => TypeOK'
<1> SUFFICES ASSUME TypeOK, [Next]_vars PROVE TypeOK'
  OBVIOUS
<1> USE BufferAssumption DEF TypeOK
<1>1. ASSUME NEW raw \in RawIds, NEW p \in Payload, ParseJson(raw, p)
      PROVE TypeOK'
  <2> DEFINE id == raw % IdMod
  <2>1. id \in Id
    <3>1. raw \in Int /\ IdMod \in Nat \ {0}
      OBVIOUS
    <3> QED
      BY <3>1, ModRange DEF Id
  <2> HIDE DEF id
  <2>2. /\ buffer' = Put(Slot(id), id, p)
        /\ newest_id' = id
        /\ latest' = [latest EXCEPT ![id] = p]
    BY <1>1 DEF ParseJson, id
  <2>3. buffer' \in [Index -> Cell]
    BY <2>1, <2>2, PutType DEF Cell
  <2>4. count' \in 0..N
    BY <1>1 DEF ParseJson, CountUp
  <2>5. stores' \in 0..MaxStores /\ UNCHANGED taken
    BY <1>1 DEF ParseJson
  <2>6. streak' \in Nat
    BY <1>1 DEF ParseJson
  <2> QED
    BY <2>1, <2>2, <2>3, <2>4, <2>5, <2>6 DEF Cell
<1>2. ASSUME NEW id \in Id, TakeCmd(id) PROVE TypeOK'
  <2>1. Found(id) => buffer[Slot(id)] \in Cell
    BY <1>2, SlotRange DEF Found, Cell
  <2>2. taken' \in [status : Status, payload : Payload \cup {Absent}]
    BY <1>2, <2>1 DEF TakeCmd, Answer, Status, Cell
  <2> QED
    BY <1>2, <2>2 DEF TakeCmd
<1>3. ASSUME NEW id \in Id, NEW p \in Payload, ModifyCmd(id, p) PROVE TypeOK'
  <2>1. taken' \in [status : Status, payload : Payload \cup {Absent}]
    BY <1>3 DEF ModifyCmd, Answer, Status
  <2>2. buffer' \in [Index -> Cell] /\ latest' \in [Id -> Payload \cup {Absent}]
    BY <1>3, PutType DEF ModifyCmd, Cell
  <2> QED
    BY <1>3, <2>1, <2>2 DEF ModifyCmd, Cell
<1>4. CASE UNCHANGED vars
  BY <1>4 DEF vars
<1> QED
  BY <1>1, <1>2, <1>3, <1>4 DEF Next

(* The variables keep their types; in particular a slot index computed     *)
(* from any stored identifier but 0 falls inside the buffer.               *)
THEOREM TypeCorrect == Spec => []TypeOK
BY TypeInit, TypeNext, PTL DEF Spec

-----------------------------------------------------------------------------
(* What a push does to the other identifiers: nothing, unless they share   *)
(* its slot, and then they are no longer found.                            *)
LEMMA PutFound ==
  ASSUME TypeOK, NEW id \in Id \ {0}, NEW p \in Payload,
         buffer' = Put(Slot(id), id, p)
  PROVE  /\ Found(id)' /\ buffer'[Slot(id)].payload = p
         /\ \A j \in Id \ {id} :
              Found(j)' => Found(j) /\ buffer'[Slot(j)] = buffer[Slot(j)]
         /\ \A j \in Id \ {id} :
              Found(j) /\ Slot(j) # Slot(id) => Found(j)'
<1>1. Slot(id) \in Index
  BY SlotRange
<1>2. buffer' = [buffer EXCEPT ![Slot(id)] = [id |-> id, payload |-> p]]
  BY <1>1 DEF Put
<1>3. \A j \in Id \ {0} : Slot(j) \in Index
  BY SlotRange
<1>4. DOMAIN buffer = Index
  BY DEF TypeOK
<1>5. buffer'[Slot(id)] = [id |-> id, payload |-> p]
  BY <1>1, <1>2, <1>4
<1>6. \A k \in Index \ {Slot(id)} : buffer'[k] = buffer[k]
  BY <1>2, <1>4
<1>7. ASSUME NEW j \in Id \ {0}
      PROVE  Found(j)' <=> buffer'[Slot(j)].id = j
  BY <1>7 DEF Found, Slot
<1>8. ASSUME NEW j \in Id \ {id}, Found(j)'
      PROVE  Found(j) /\ buffer'[Slot(j)] = buffer[Slot(j)]
  <2>1. j # 0 /\ buffer'[Slot(j)].id = j
    BY <1>8 DEF Found, Slot
  <2>2. Slot(j) # Slot(id)
    BY <1>5, <1>8, <2>1
  <2> QED
    BY <1>3, <1>6, <1>8, <2>1, <2>2 DEF Found
<1>9. ASSUME NEW j \in Id \ {id}, Found(j), Slot(j) # Slot(id)
      PROVE  Found(j)'
  <2>1. j # 0 /\ buffer[Slot(j)].id = j
    BY <1>9 DEF Found
  <2> QED
    BY <1>3, <1>6, <1>7, <1>9, <2>1
<1>10. Found(id)'
  BY <1>5, <1>7
<1> QED
  BY <1>5, <1>8, <1>9, <1>10

LEMMA CurrentNext == TypeOK /\ TakeIsCurrent /\ [Next]_vars => TakeIsCurrent'
<1> SUFFICES ASSUME TypeOK, TakeIsCurrent, [Next]_vars PROVE TakeIsCurrent'
  OBVIOUS
<1>0. ASSUME NEW id \in Id \ {0}, NEW p \in Payload,
             buffer' = Put(Slot(id), id, p), latest' = [latest EXCEPT ![id] = p]
      PROVE  TakeIsCurrent'
  <2> SUFFICES ASSUME NEW j \in Id, Found(j)'
               PROVE  buffer'[Slot(j)].payload = latest'[j]
    BY DEF TakeIsCurrent, Slot
  <2>1. CASE j = id
    BY <1>0, <2>1, PutFound DEF TypeOK
  <2>2. CASE j # id
    BY <1>0, <2>2, PutFound DEF TypeOK, TakeIsCurrent
  <2> QED
    BY <2>1, <2>2
<1>1. ASSUME NEW raw \in RawIds, NEW p \in Payload, ParseJson(raw, p)
      PROVE TakeIsCurrent'
  <2> DEFINE id == raw % IdMod
  <2>1. id \in Id
    <3>1. raw \in Int /\ IdMod \in Nat \ {0}
      BY BufferAssumption
    <3> QED
      BY <3>1, ModRange DEF Id
  <2> HIDE DEF id
  <2>2. buffer' = Put(Slot(id), id, p) /\ latest' = [latest EXCEPT ![id] = p]
    BY <1>1 DEF ParseJson, id
  <2>3. CASE id # 0
    BY <1>0, <2>1, <2>2, <2>3
  <2>4. CASE id = 0
    <3>1. buffer' = buffer
      BY <2>2, <2>4, ZeroHasNoSlot DEF Put
    <3> QED
      BY <2>2, <2>4, <3>1 DEF TakeIsCurrent, Found, Slot, TypeOK
  <2> QED
    BY <2>3, <2>4
<1>2. ASSUME NEW id \in Id, NEW p \in Payload, ModifyCmd(id, p)
      PROVE TakeIsCurrent'
  <2>1. CASE Found(id)
    BY <1>0, <1>2, <2>1 DEF ModifyCmd, Found
  <2>2. CASE ~Found(id)
    BY <1>2, <2>2 DEF ModifyCmd, TakeIsCurrent, Found, Slot
  <2> QED
    BY <2>1, <2>2
<1>3. CASE UNCHANGED <<buffer, latest>>
  BY <1>3 DEF TakeIsCurrent, Found, Slot
<1>4. CASE (\E id \in Id : TakeCmd(id)) \/ UNCHANGED vars
  BY <1>3, <1>4 DEF TakeCmd, vars
<1> QED
  BY <1>1, <1>2, <1>4 DEF Next

(* A command found under an identifier is the last one stored under it,    *)
(* whatever identifiers collide with it in between.                        *)
THEOREM TakeAlwaysCurrent == Spec => []TakeIsCurrent
<1>1. Init => TakeIsCurrent
  <2> SUFFICES ASSUME Init, NEW id \in Id, Found(id) PROVE FALSE
    BY DEF TakeIsCurrent
  <2>1. Slot(id) \in Index /\ id # 0
    BY SlotRange DEF Found
  <2> QED
    BY <2>1 DEF Init, Found, Empty
<1> QED
  BY TypeInit, TypeNext, CurrentNext, <1>1, PTL DEF Spec

-----------------------------------------------------------------------------
(* The window of identifiers that counted up to newest_id.                 *)
WindowInv ==
  /\ newest_id # 0 <=> streak > 0
  /\ streak <= newest_id
  /\ WindowIsFound

LEMMA WindowNext == TypeOK /\ WindowInv /\ [Next]_vars => WindowInv'
<1> SUFFICES ASSUME TypeOK, WindowInv, [Next]_vars PROVE WindowInv'
  OBVIOUS
<1>1. ASSUME NEW raw \in RawIds, NEW p \in Payload, ParseJson(raw, p)
      PROVE WindowInv'
  <2> DEFINE id == raw % IdMod
  <2>1. id \in Id
    <3>1. raw \in Int /\ IdMod \in Nat \ {0}
      BY BufferAssumption
    <3> QED
      BY <3>1, ModRange DEF Id
  <2> HIDE DEF id
  <2>2. /\ buffer' = Put(Slot(id), id, p)
        /\ newest_id' = id
        /\ streak' = IF streak > 0 /\ id = newest_id + 1 THEN streak + 1
                     ELSE IF id = 0 THEN 0 ELSE 1
    BY <1>1 DEF ParseJson, id
  <2>3. (newest_id' # 0 <=> streak' > 0) /\ streak' <= newest_id'
    BY <2>1, <2>2 DEF WindowInv, TypeOK, Id
  <2>4. ASSUME NEW k \in 0..N - 1, k < streak' PROVE Found(newest_id - k)'
    <3>1. id # 0
      BY <2>1, <2>2, <2>3, <2>4, BufferAssumption DEF TypeOK, Id
    <3>2. CASE k = 0
      <4>1. Found(id)' /\ newest_id' - k = id
        BY <2>1, <2>2, <3>1, <3>2, PutFound DEF Id
      <4> QED
        BY <4>1 DEF Found
    <3>3. CASE k > 0
      <4>1. /\ id = newest_id + 1 /\ k - 1 \in 0..N - 1 /\ k - 1 < streak
            /\ k \in 1..N - 1
        BY <2>2, <2>4, <3>1, <3>3, BufferAssumption DEF TypeOK, Id
      <4>2. id - k = newest_id - (k - 1) /\ id - k \in Id \ {0} /\ id - k # id
        BY <2>1, <4>1, BufferAssumption DEF WindowInv, TypeOK, Id
      <4>3. Found(id - k)
        BY <4>1, <4>2 DEF WindowInv, WindowIsFound
      <4>4. Slot(id - k) # Slot(id)
        BY <2>1, <3>1, <4>1, <4>2, SlotsApart
      <4>5. Found(id - k)'
        BY <2>1, <2>2, <3>1, <4>2, <4>3, <4>4, PutFound
      <4> QED
        BY <2>2, <4>5 DEF Found
    <3> QED
      BY <3>2, <3>3
  <2> QED
    BY <2>3, <2>4 DEF WindowInv, WindowIsFound
<1>2. ASSUME NEW id \in Id, NEW p \in Payload, ModifyCmd(id, p)
      PROVE WindowInv'
  <2>1. CASE Found(id)
    <3>1. id \in Id \ {0} /\ buffer' = Put(Slot(id), id, p)
      BY <1>2, <2>1 DEF ModifyCmd, Found
    <3>2. ASSUME NEW j \in Id, Found(j) PROVE Found(j)'
      <4>1. CASE j = id
        BY <3>1, <4>1, PutFound
      <4>2. CASE j # id
        <5>1. Slot(j) # Slot(id)
          BY <2>1, <3>2, <4>2 DEF Found
        <5> QED
          BY <3>1, <3>2, <4>2, <5>1, PutFound
      <4> QED
        BY <4>1, <4>2
    <3>3. UNCHANGED <<newest_id, streak>>
      BY <1>2 DEF ModifyCmd
    <3>4. ASSUME NEW k \in 0..N - 1, k < streak PROVE newest_id - k \in Id
      BY <3>4, BufferAssumption DEF WindowInv, TypeOK, Id
    <3> QED
      BY <3>2, <3>3, <3>4 DEF WindowInv, WindowIsFound
  <2>2. CASE ~Found(id)
    BY <1>2, <2>2 DEF ModifyCmd, WindowInv, WindowIsFound, Found, Slot
  <2> QED
    BY <2>1, <2>2
<1>3. CASE (\E id \in Id : TakeCmd(id)) \/ UNCHANGED vars
  BY <1>3 DEF TakeCmd, vars, WindowInv, WindowIsFound, Found, Slot
<1> QED
  BY <1>1, <1>2, <1>3 DEF Next

(* As long as identifiers count up, the last N of them can all be taken,   *)
(* the one just parsed among them, however full the buffer is.             *)
THEOREM WindowAlwaysFound == Spec => []WindowIsFound
<1>1. Init => WindowInv
  BY DEF Init, WindowInv, WindowIsFound
<1>2. WindowInv => WindowIsFound
  BY DEF WindowInv
<1> QED
  BY TypeInit, TypeNext, WindowNext, <1>1, <1>2, PTL DEF Spec

-----------------------------------------------------------------------------
LEMMA IndexSubset ==
  ASSUME NEW S \in SUBSET Index
  PROVE  IsFiniteSet(S) /\ Cardinality(S) <= N
<1>1. IsFiniteSet(Index) /\ Cardinality(Index) = N
  <2>1. IsFiniteSet(0..N - 1) /\ Cardinality(0..N - 1) = N
    BY BufferAssumption, FS_Interval
  <2> QED
    BY <2>1 DEF Index
<1> QED
  BY <1>1, FS_Subset

LEMMA CoversNext == TypeOK /\ CountCovers /\ [Next]_vars => CountCovers'
<1> SUFFICES ASSUME TypeOK, CountCovers, [Next]_vars PROVE CountCovers'
  OBVIOUS
<1>0. IsFiniteSet(Occupied) /\ Cardinality(Occupied) \in Nat
  BY IndexSubset, FS_CardinalityType DEF Occupied
<1>1. ASSUME NEW raw \in RawIds, NEW p \in Payload, ParseJson(raw, p)
      PROVE CountCovers'
  <2> DEFINE s == Slot(raw % IdMod)
  <2>1. Occupied' \subseteq Occupied \cup {s}
    BY <1>1 DEF ParseJson, Put, Occupied, TypeOK
  <2>2. /\ IsFiniteSet(Occupied \cup {s})
        /\ Cardinality(Occupied \cup {s}) <= Cardinality(Occupied) + 1
        /\ Cardinality(Occupied \cup {s}) \in Nat
    <3>1. /\ IsFiniteSet(Occupied \cup {s})
          /\ \/ Cardinality(Occupied \cup {s}) = Cardinality(Occupied)
             \/ Cardinality(Occupied \cup {s}) = Cardinality(Occupied) + 1
      BY <1>0, FS_AddElement
    <3> QED
      BY <1>0, <3>1
  <2>3. Cardinality(Occupied') \in Nat /\ Cardinality(Occupied') <= Cardinality(Occupied) + 1
    BY <1>0, <2>1, <2>2, FS_Subset, FS_CardinalityType
  <2>4. Cardinality(Occupied') <= N
    BY IndexSubset DEF Occupied
  <2>5. count' = IF count < N THEN count + 1 ELSE count
    BY <1>1 DEF ParseJson, CountUp
  <2> QED
    BY <1>0, <2>3, <2>4, <2>5, BufferAssumption DEF CountCovers, TypeOK
<1>2. CASE UNCHANGED <<Occupied, count>>
  BY <1>2 DEF CountCovers
<1>3. ASSUME NEW id \in Id, NEW p \in Payload, ModifyCmd(id, p)
      PROVE CountCovers'
  <2>1. Occupied' = Occupied
    BY <1>3 DEF ModifyCmd, Put, Found, Occupied, TypeOK
  <2> QED
    BY <1>2, <1>3, <2>1 DEF ModifyCmd
<1>4. CASE (\E id \in Id : TakeCmd(id)) \/ UNCHANGED vars
  BY <1>2, <1>4 DEF TakeCmd, vars, Occupied
<1> QED
  BY <1>1, <1>3, <1>4 DEF Next

(* count is an upper bound of what the buffer holds, within its length.    *)
THEOREM CountAlwaysCovers == Spec => []CountCovers
<1>1. Init => CountCovers
  <2> SUFFICES ASSUME Init PROVE CountCovers
    OBVIOUS
  <2>1. Occupied = {}
    BY DEF Init, Occupied, Empty
  <2> QED
    BY <2>1, FS_EmptySet, BufferAssumption DEF Init, CountCovers
<1> QED
  BY TypeInit, TypeNext, CoversNext, <1>1, PTL DEF Spec

=============================================================================
