--------------------------- MODULE IdentityStoreProofs ---------------------------
(***************************************************************************)
(* What IdentityStore keeps, for any fields, values and orders of saving,  *)
(* any number of commands and resets, and each of the three backends.      *)
(*                                                                         *)
(* A packed backend stores one field by rewriting all of them from the RAM *)
(* mirrors.  That is sound because the mirrors hold, field by field,       *)
(* something that was promised or attempted: from the load on, and before  *)
(* it only as long as there is nothing to lose.                            *)
(***************************************************************************)
EXTENDS IdentityStore, SequenceTheorems, TLAPS

Saved  == Head(todo)
Value  == Values \cup {Garbled}
Saves  == [field : Fields, value : Value, style : {"shell", "config", "kv"}]

\* The value is one a promise or a failed save of the field stands for.
Kept(f, v) == v \in {promised[f]} \cup attempted[f]

\* Who may be at work, and what a medium without a blob holds.
Placed ==
    /\ saver = "write" => Packed /\ ~Idle
    /\ loader = "unpack" => Packed
    /\ ~Packed => medium \in Blobs /\ durable \in Blobs

\* The mirrors hold what is stored, but for the field being saved; until the
\* load, or the first save onto an empty medium, they are empty.
Mirrors ==
    IF seen THEN \A f \in Fields : Kept(f, ram[f]) \/ (saver = "write" /\ f = Saved.field)
            ELSE ram = Unset

\* The blob about to be written is of the mirrors, the new value among them.
Packing == saver = "write" => seen /\ buf = ram /\ ram[Saved.field] = Saved.value

\* The blob that was read is still the stored one when it is unpacked.
Loading == loader = "unpack" => saver = "idle" /\ buf = medium

Current == Mirrors /\ Packing /\ Loading

PackedInv == Packed /\ cause = {} => Current

\* The per-field backend stores each field by itself: not even a failed
\* command reaches another one.
Exact == ~Packed /\ cause = {} => \A f \in Fields : medium[f] = promised[f]

Promises == Exact /\ StoredAsPromised

Shape == TypeOK /\ Placed

IInv == Shape /\ Promises /\ PackedInv
-----------------------------------------------------------------------------
(***************************************************************************)
(* The commands' saves.                                                    *)
(***************************************************************************)
LEMMA OrderedFields ==
    /\ \A i \in DOMAIN ConfigOrder : ConfigOrder[i] \in Fields
    /\ \A i \in DOMAIN SetupOrder : SetupOrder[i] \in Fields
    /\ \A i \in DOMAIN ProvisionOrder : ProvisionOrder[i] \in Fields
    /\ Pems \subseteq Fields
  BY DEF Fields, Elements

LEMMA Lengths ==
    \A order \in {ConfigOrder, SetupOrder, ProvisionOrder} :
        Len(order) \in Nat /\ DOMAIN order = 1..Len(order)
  BY IdentityAssumption

LEMMA SavesOf ==
    ASSUME NEW n \in Nat, NEW s, s = [i \in 1..n |-> s[i]],
           \A i \in 1..n : s[i] \in Saves
    PROVE  s \in Seq(Saves)
  <1>1. s \in [1..n -> Saves] OBVIOUS
  <1> QED BY <1>1, SeqDef

LEMMA SaveIsTyped ==
    ASSUME NEW f \in Fields, NEW v \in Value, NEW style \in {"shell", "config", "kv"}
    PROVE  Save(f, v, style) \in Saves
  BY DEF Save, Saves

\* The first save of a running command, and what is left after it.
LEMMA SavedIsTyped ==
    ASSUME TypeOK, ~Idle
    PROVE  /\ Saved.field \in Fields /\ Saved.value \in Value
           /\ Tail(todo) \in Seq(Saves)
  <1>1. todo \in Seq(Saves) /\ todo # <<>> BY DEF TypeOK, Idle, Saves, Value
  <1>2. Head(todo) \in Saves /\ Tail(todo) \in Seq(Saves) BY <1>1
  <1> QED BY <1>2 DEF Saved, Saves

LEMMA ValueIsStorable ==
    /\ Value \subseteq Values \cup {Empty, Garbled} /\ Default \in Value
    /\ Unset \in Blobs /\ NoBlob \notin Blobs
  BY IdentityAssumption DEF Value, Unset, Blobs
-----------------------------------------------------------------------------
(***************************************************************************)
(* Types.                                                                  *)
(***************************************************************************)
LEMMA ShapeInit == Init => Shape
  <1>1. Init => TypeOK
    <2> SUFFICES ASSUME Init PROVE TypeOK OBVIOUS
    <2>1. 0 \in 0..MaxCommands /\ 0 \in 0..MaxResets BY IdentityAssumption
    <2>2. attempted \in [Fields -> SUBSET Value] BY DEF Init
    <2>3. todo \in Seq(Saves) BY DEF Init
    <2>4. medium \in Blobs \cup {NoBlob} /\ ram \in Blobs
      BY ValueIsStorable DEF Init
    <2> QED BY <2>1, <2>2, <2>3, <2>4 DEF Init, TypeOK, Value, Saves
  <1>2. Init => Placed BY ValueIsStorable DEF Init, Placed, Packed
  <1> QED BY <1>1, <1>2 DEF Shape

LEMMA ShapeLoad == Shape /\ Load => Shape'
  <1> SUFFICES ASSUME TypeOK, Placed, Load PROVE TypeOK' /\ Placed' BY DEF Shape
  <1>1. CASE LoadFails BY <1>1 DEF LoadFails, TypeOK, Placed, Packed, Idle, media, hist
  <1>2. CASE LoadRead
    <2>1. TypeOK' BY <1>2 DEF LoadRead, TypeOK, hist
    <2>2. Placed' BY <1>2 DEF LoadRead, Placed, Packed, Idle
    <2> QED BY <2>1, <2>2
  <1>3. CASE LoadUnpack
    <2>1. TypeOK' BY <1>3, ValueIsStorable DEF LoadUnpack, TypeOK, hist
    <2>2. Placed' BY <1>3 DEF LoadUnpack, Placed, Packed, Idle
    <2> QED BY <2>1, <2>2
  <1>4. CASE LoadSettings
    <2>1. ram' \in Blobs
      BY <1>4 DEF LoadSettings, TypeOK, Placed, Blobs, Stored
    <2>2. TypeOK' BY <1>4, <2>1 DEF LoadSettings, TypeOK, media, hist
    <2>3. Placed' BY <1>4 DEF LoadSettings, Placed, Packed, Idle, media
    <2> QED BY <2>2, <2>3
  <1> QED BY <1>1, <1>2, <1>3, <1>4 DEF Load

\* Every command saves fields it may save, to values they may have.
LEMMA ShapeRun ==
    ASSUME Shape, NEW saves \in Seq(Saves), Run(saves)
    PROVE  Shape'
  <1>1. commands' \in 0..MaxCommands BY IdentityAssumption DEF Run, Shape, TypeOK
  <1>2. todo' \in Seq(Saves) BY DEF Run
  <1>3. TypeOK' BY <1>1, <1>2 DEF Run, Shape, TypeOK, media, hist, Saves, Value
  <1>4. Placed' BY DEF Run, Shape, Placed, Packed, Idle, media
  <1> QED BY <1>3, <1>4 DEF Shape

LEMMA RunsAreTyped ==
    ASSUME TypeOK, NEW v \in Values
    PROVE  /\ \A f \in Fields : CmdCred(f, v) => \E s \in Seq(Saves) : Run(s)
           /\ \A n \in 1..Len(ConfigOrder) : \A at \in [1..n -> DOMAIN ConfigOrder] :
                CmdConfig(n, at, v) => \E s \in Seq(Saves) : Run(s)
           /\ \A given \in BOOLEAN : CmdSetup(v, given) => \E s \in Seq(Saves) : Run(s)
           /\ CmdProvision(v) => \E s \in Seq(Saves) : Run(s)
  <1>1. v \in Value BY DEF Value
  <1>2. ASSUME NEW f \in Fields, CmdCred(f, v) PROVE \E s \in Seq(Saves) : Run(s)
    <2>1. <<Save(f, v, "shell")>> \in Seq(Saves) BY <1>1, SaveIsTyped
    <2> QED BY <1>2, <2>1 DEF CmdCred
  <1>3. ASSUME NEW n \in 1..Len(ConfigOrder), NEW at \in [1..n -> DOMAIN ConfigOrder],
               CmdConfig(n, at, v)
        PROVE  \E s \in Seq(Saves) : Run(s)
    <2> DEFINE s == [i \in 1..n |-> Save(ConfigOrder[at[i]], v, "config")]
    <2>1. n \in Nat BY Lengths
    <2>2. \A i \in 1..n : s[i] \in Saves BY <1>1, OrderedFields, SaveIsTyped
    <2>3. Run(s) BY <1>3 DEF CmdConfig
    <2> HIDE DEF s
    <2>4. s = [i \in 1..n |-> s[i]] BY DEF s
    <2>5. s \in Seq(Saves) BY <2>1, <2>2, <2>4, SavesOf
    <2> QED BY <2>3, <2>5
  <1>4. ASSUME NEW given \in BOOLEAN, CmdSetup(v, given) PROVE \E s \in Seq(Saves) : Run(s)
    <2> DEFINE val(i) == IF i = 1 \/ given THEN v
                         ELSE IF ram[SetupOrder[i]] = Empty THEN Default ELSE ram[SetupOrder[i]]
               s == [i \in DOMAIN SetupOrder |-> Save(SetupOrder[i], val(i), "shell")]
    <2>1. ASSUME NEW i \in DOMAIN SetupOrder PROVE val(i) \in Value
      <3>1. ram[SetupOrder[i]] \in Values \cup {Empty, Garbled}
        BY OrderedFields DEF TypeOK, Blobs
      <3> QED BY <1>1, <3>1, ValueIsStorable DEF Value
    <2>2. \A i \in DOMAIN SetupOrder : s[i] \in Saves
      <3> HIDE DEF val
      <3> QED BY <2>1, OrderedFields, SaveIsTyped
    <2>3. Run(s) BY <1>4 DEF CmdSetup
    <2> HIDE DEF s
    <2>4. s = [i \in DOMAIN SetupOrder |-> s[i]] BY DEF s
    <2>5. s \in Seq(Saves) BY <2>2, <2>4, SavesOf, Lengths
    <2> QED BY <2>3, <2>5
  <1>5. ASSUME CmdProvision(v) PROVE \E s \in Seq(Saves) : Run(s)
    <2> DEFINE s == [i \in DOMAIN ProvisionOrder |-> Save(ProvisionOrder[i], v, "kv")]
    <2>1. \A i \in DOMAIN ProvisionOrder : s[i] \in Saves BY <1>1, OrderedFields, SaveIsTyped
    <2>2. Run(s) BY <1>5 DEF CmdProvision
    <2> HIDE DEF s
    <2>3. s = [i \in DOMAIN ProvisionOrder |-> s[i]] BY DEF s
    <2>4. s \in Seq(Saves) BY <2>1, <2>3, SavesOf, Lengths
    <2> QED BY <2>2, <2>4
  <1> QED BY <1>2, <1>3, <1>4, <1>5

\* A command either begins its saves, or spoils a mirror, or erases everything.
LEMMA CommandIs ==
    ASSUME TypeOK, Command
    PROVE  \/ \E s \in Seq(Saves) : Run(s)
           \/ \E f \in Pems : CmdPemFails(f)
           \/ CmdClear
  BY RunsAreTyped DEF Command

LEMMA ShapeCommand == Shape /\ Command => Shape'
  <1> SUFFICES ASSUME Shape, Command PROVE Shape' OBVIOUS
  <1> USE DEF Shape
  <1>1. CASE \E s \in Seq(Saves) : Run(s) BY <1>1, ShapeRun
  <1>2. ASSUME NEW f \in Pems, CmdPemFails(f) PROVE Shape'
    <2>1. commands' \in 0..MaxCommands BY <1>2, IdentityAssumption DEF CmdPemFails, TypeOK
    <2>2. ram' \in Blobs BY <1>2 DEF CmdPemFails, TypeOK, Blobs
    <2>3. attempted' \in [Fields -> SUBSET Value] BY <1>2 DEF CmdPemFails, TypeOK, Value
    <2>4. TypeOK' BY <1>2, <2>1, <2>2, <2>3 DEF CmdPemFails, TypeOK, media, Value
    <2>5. Placed' BY <1>2 DEF CmdPemFails, Placed, Packed, Idle, media
    <2> QED BY <2>4, <2>5
  <1>3. CASE CmdClear
    <2>1. commands' \in 0..MaxCommands BY <1>3, IdentityAssumption DEF CmdClear, TypeOK
    <2>2. attempted' \in [Fields -> SUBSET Value] BY <1>3 DEF CmdClear
    <2>3. ram' \in Blobs /\ buf' \in Blobs /\ promised' \in Blobs
      BY <1>3, ValueIsStorable DEF CmdClear, TypeOK
    <2>4. PICK kept \in IF Packed THEN {{}, Fields} ELSE SUBSET Fields :
             /\ medium' = IF Packed THEN IF kept = {} THEN NoBlob ELSE medium
                          ELSE [f \in Fields |-> IF f \in kept THEN medium[f] ELSE Empty]
             /\ durable' \in IF backend = "disk" THEN {medium', durable} ELSE {medium'}
             /\ cause' = Endangered(TRUE) \cup (IF kept = {} THEN {} ELSE {"undeleted"})
      BY <1>3 DEF CmdClear
    <2>5. medium' \in Blobs \cup {NoBlob} /\ (~Packed => medium' \in Blobs)
      <3>1. ~Packed => medium' = [f \in Fields |-> IF f \in kept THEN medium[f] ELSE Empty]
        BY <2>4
      <3>2. ~Packed => medium' \in Blobs BY <3>1 DEF Placed, Blobs
      <3> QED BY <2>4, <3>2 DEF TypeOK
    <2>6. durable' \in {medium', durable} /\ cause' \subseteq {"blind", "raced", "undeleted", "dropped"}
      BY <2>4 DEF Endangered, TypeOK
    <2>7. TypeOK' BY <1>3, <2>1, <2>2, <2>3, <2>5, <2>6 DEF CmdClear, TypeOK, Value
    <2>8. Placed' BY <1>3, <2>5, <2>6 DEF CmdClear, Placed, Packed, Idle
    <2> QED BY <2>7, <2>8
  <1> QED BY <1>1, <1>2, <1>3, CommandIs

LEMMA ShapeSave == Shape /\ (SaveField \/ SavePack \/ SaveWrite) => Shape'
  <1> SUFFICES ASSUME TypeOK, Placed, SaveField \/ SavePack \/ SaveWrite
               PROVE  TypeOK' /\ Placed'
    BY DEF Shape
  <1> DEFINE f == Saved.field
             v == Saved.value
  <1>1. ~Idle BY DEF SaveField, SavePack, SaveWrite, Placed
  <1>2. f \in Fields /\ v \in Value /\ Tail(todo) \in Seq(Saves) BY <1>1, SavedIsTyped
  <1>3. v \in Values \cup {Empty, Garbled} BY <1>2, ValueIsStorable
  <1>4. Succeeds(f, v) => /\ promised' \in Blobs /\ attempted' \in [Fields -> SUBSET Value]
                          /\ todo' \in Seq(Saves)
    BY <1>2, <1>3 DEF Succeeds, TypeOK, Blobs, Value
  <1>5. <<>> \in Seq(Saves) OBVIOUS
  <1>6. Fails(f, v) => /\ promised' \in Blobs /\ attempted' \in [Fields -> SUBSET Value]
                       /\ todo' \in Seq(Saves)
    BY <1>2, <1>5 DEF Fails, TypeOK, Value
  <1>7. Succeeds(f, v) \/ Fails(f, v) => bypassed' \subseteq Fields
    BY <1>2 DEF Succeeds, Fails, TypeOK
  <1>8. \A b \in Blobs : [b EXCEPT ![f] = v] \in Blobs BY <1>3 DEF Blobs
  <1> HIDE DEF f, v
  <1>9. CASE SaveField
    <2>1. ~Packed /\ (ram' = ram \/ ram' = [ram EXCEPT ![f] = v])
      BY <1>9 DEF SaveField, f, v, Saved
    <2>2. \/ medium' = [medium EXCEPT ![f] = v] /\ durable' = medium' /\ Succeeds(f, v)
          \/ Fails(f, v) /\ UNCHANGED <<medium, durable>>
      BY <1>9 DEF SaveField, f, v, Saved
    <2>3. medium' \in Blobs /\ durable' \in Blobs BY <1>8, <2>1, <2>2 DEF Placed
    <2>4. ram' \in Blobs BY <1>8, <2>1 DEF TypeOK
    <2>5. TypeOK'
      BY <1>4, <1>6, <1>9, <1>7, <2>2, <2>3, <2>4 DEF SaveField, TypeOK, Saves, Value
    <2>6. Placed' BY <1>9, <2>1, <2>3 DEF SaveField, Placed, Packed
    <2> QED BY <2>5, <2>6
  <1>10. CASE SavePack
    <2>1. ram' = [ram EXCEPT ![f] = v] BY <1>10 DEF SavePack, f, v, Saved
    <2>2. \/ buf' = ram' /\ saver' = "write" /\ UNCHANGED <<hist, todo>>
          \/ Fails(f, v) /\ UNCHANGED <<buf, saver>>
      BY <1>10 DEF SavePack, f, v, Saved
    <2>3. ram' \in Blobs /\ buf' \in Blobs BY <1>8, <2>1, <2>2 DEF TypeOK
    <2>4. seen' \in BOOLEAN /\ bypassed' \subseteq Fields /\ cause' \subseteq {"blind", "raced", "undeleted", "dropped"}
      BY <1>10, <1>7, <2>2 DEF SavePack, TypeOK, Endangered, hist
    <2>5. /\ todo' \in Seq(Saves) /\ promised' \in Blobs
          /\ attempted' \in [Fields -> SUBSET Value] /\ saver' \in {"idle", "write"}
      BY <1>6, <2>2 DEF TypeOK, hist, Saves, Value
    <2>6. TypeOK' BY <1>10, <2>3, <2>4, <2>5 DEF SavePack, TypeOK, Saves, Value
    <2>7. Placed' BY <1>1, <1>10, <2>2 DEF SavePack, Placed, Packed, Idle
    <2> QED BY <2>6, <2>7
  <1>11. CASE SaveWrite
    <2>1. Packed /\ saver' = "idle" /\ backend' = backend BY <1>11 DEF SaveWrite, Placed
    <2>2. \/ /\ medium' = buf /\ durable' \in {buf, durable} /\ Succeeds(f, v)
          \/ Fails(f, v) /\ UNCHANGED <<medium, durable>>
      BY <1>11 DEF SaveWrite, f, v, Saved
    <2>3. buf' \in Blobs BY <1>11, ValueIsStorable DEF SaveWrite, TypeOK
    <2>4. TypeOK'
      BY <1>4, <1>6, <1>11, <1>7, <2>1, <2>2, <2>3 DEF SaveWrite, TypeOK, Saves, Value
    <2>5. Placed' BY <1>11, <2>1 DEF SaveWrite, Placed, Packed
    <2> QED BY <2>4, <2>5
  <1> QED BY <1>9, <1>10, <1>11

LEMMA ShapeReset == Shape /\ Reset => Shape'
  <1> SUFFICES ASSUME TypeOK, Placed, Reset PROVE TypeOK' /\ Placed' BY DEF Shape
  <1>1. resets' \in 0..MaxResets BY IdentityAssumption DEF Reset, TypeOK
  <1>2. todo' \in Seq(Saves) BY DEF Reset
  <1>3. cause' \subseteq {"blind", "raced", "undeleted", "dropped"} BY DEF Reset, TypeOK
  <1>4. TypeOK' BY <1>1, <1>2, <1>3, ValueIsStorable DEF Reset, TypeOK, hist, Saves, Value
  <1>5. Placed' BY DEF Reset, Placed, Packed
  <1> QED BY <1>4, <1>5

LEMMA ShapeNext == Shape /\ [Next]_vars => Shape'
  <1>1. Shape /\ UNCHANGED vars => Shape'
    BY DEF Shape, TypeOK, Placed, Packed, Idle, vars, media, hist
  <1> QED BY <1>1, ShapeLoad, ShapeCommand, ShapeSave, ShapeReset DEF Next
-----------------------------------------------------------------------------
(***************************************************************************)
(* Promises.                                                               *)
(***************************************************************************)

\* What endangered a promise once is not forgotten.
LEMMA CausesStay == [Next]_vars => cause \subseteq cause'
  <1>1. Load => cause \subseteq cause'
    BY DEF Load, LoadFails, LoadRead, LoadUnpack, LoadSettings
  <1>2. Command => cause \subseteq cause'
    <2>1. CmdClear => cause \subseteq cause' BY DEF CmdClear, Endangered
    <2>2. \A s : Run(s) => cause \subseteq cause' BY DEF Run
    <2>3. \A f \in Pems : CmdPemFails(f) => cause \subseteq cause' BY DEF CmdPemFails
    <2> QED BY <2>1, <2>2, <2>3 DEF Command, CmdCred, CmdConfig, CmdSetup, CmdProvision
  <1>3. SaveField \/ SavePack \/ SaveWrite \/ Reset => cause \subseteq cause'
    BY DEF SaveField, SavePack, SaveWrite, Reset, Endangered
  <1> QED BY <1>1, <1>2, <1>3 DEF Next, vars

LEMMA PromisesInit == Init => Promises /\ PackedInv
  <1> SUFFICES ASSUME Init PROVE Promises /\ PackedInv OBVIOUS
  <1>1. \A f \in Fields : promised[f] = Empty /\ Unset[f] = Empty BY DEF Init, Unset
  <1>2. Exact BY <1>1 DEF Init, Exact
  <1>3. \A f \in Fields : Stored(medium, f) = Empty
    BY <1>1, ValueIsStorable DEF Init, Stored
  <1>4. StoredAsPromised BY <1>1, <1>3 DEF StoredAsPromised
  <1>5. PackedInv BY DEF Init, PackedInv, Current, Mirrors, Packing, Loading
  <1> QED BY <1>2, <1>4, <1>5 DEF Promises

\* The per-field backend: medium and promises change together.
LEMMA ExactStep ==
    ASSUME IInv, Next, cause' = {}, ~Packed
    PROVE  Exact'
  <1>1. cause = {} BY CausesStay
  <1>2. \A f \in Fields : medium[f] = promised[f] BY <1>1 DEF IInv, Promises, Exact
  <1>3. medium \in Blobs /\ promised \in Blobs BY DEF IInv, Shape, TypeOK, Placed
  <1>4. CASE UNCHANGED <<medium, promised>> BY <1>2, <1>4 DEF Exact
  <1>5. Load => UNCHANGED <<medium, promised>>
    BY DEF Load, LoadFails, LoadRead, LoadUnpack, LoadSettings, media, hist
  <1>6. \A s : Run(s) => UNCHANGED <<medium, promised>> BY DEF Run, media, hist
  <1>7. \A f \in Pems : CmdPemFails(f) => UNCHANGED <<medium, promised>>
    BY DEF CmdPemFails, media
  <1>8. CASE CmdClear
    <2>1. promised' = Unset /\ \A f \in Fields : medium'[f] = Empty
      BY <1>8 DEF CmdClear
    <2> QED BY <2>1 DEF Exact, Unset
  <1>9. CASE SaveField
    <2>1. Saved.field \in Fields BY <1>9, SavedIsTyped DEF SaveField, IInv, Shape
    <2>2. \/ UNCHANGED <<medium, promised>>
          \/ /\ medium' = [medium EXCEPT ![Saved.field] = Saved.value]
             /\ promised' = [promised EXCEPT ![Saved.field] = Saved.value]
      BY <1>9 DEF SaveField, Succeeds, Fails, Saved
    <2> QED BY <1>2, <1>3, <1>4, <2>1, <2>2 DEF Exact, Blobs
  <1>10. ~SavePack /\ ~SaveWrite BY DEF SavePack, SaveWrite, IInv, Shape, Placed
  <1>11. Reset => UNCHANGED <<medium, promised>>
    BY <1>1 DEF Reset, hist
  <1> QED BY <1>4, <1>5, <1>6, <1>7, <1>8, <1>9, <1>10, <1>11
      DEF Next, Command, CmdCred, CmdConfig, CmdSetup, CmdProvision

StoredIsKept == \A f \in Fields : Kept(f, Stored(medium, f))

LEMMA StoredIs == /\ StoredAsPromised <=> (cause = {} => StoredIsKept)
                  /\ StoredAsPromised' <=> (cause' = {} => StoredIsKept')
  BY DEF StoredAsPromised, StoredIsKept, Kept

\* The packed backends: the blob is rewritten from mirrors that hold what is
\* promised.
LEMMA PackedLoad ==
    ASSUME Shape, StoredIsKept, Current, Packed, Load, cause' = {}
    PROVE  StoredIsKept' /\ Current'
  <1> USE DEF Current
  <1>1. StoredIsKept' /\ promised' = promised /\ attempted' = attempted
    BY DEF Load, LoadFails, LoadRead, LoadUnpack, LoadSettings, media, hist, StoredIsKept, Kept
  <1>2. CASE LoadFails
    BY <1>1, <1>2 DEF LoadFails, media, Mirrors, Packing, Loading, Kept, Saved
  <1>3. CASE LoadRead
    <2>1. saver # "write" /\ saver' = saver /\ ram' = ram BY <1>3 DEF LoadRead
    <2>2. saver = "idle" BY <2>1 DEF Shape, TypeOK
    <2>3. CASE medium = NoBlob
      <3>1. loader' = "done" /\ seen' = TRUE BY <1>3, <2>3 DEF LoadRead
      <3>2. \A f \in Fields : Kept(f, Empty) BY <2>3 DEF StoredIsKept, Stored
      <3>3. \A f \in Fields : Kept(f, ram[f]) BY <2>1, <3>2 DEF Mirrors, Unset
      <3> QED BY <1>1, <2>1, <3>1, <3>3 DEF Mirrors, Packing, Loading, Kept
    <2>4. CASE medium # NoBlob
      <3>1. loader' = "unpack" /\ buf' = medium /\ seen' = seen /\ medium' = medium
        BY <1>3, <2>4 DEF LoadRead
      <3> QED BY <1>1, <2>1, <2>2, <3>1 DEF Mirrors, Packing, Loading, Kept
    <2> QED BY <2>3, <2>4
  <1>4. CASE LoadUnpack
    <2>1. saver = "idle" /\ saver' = "idle" /\ ram' = medium /\ seen' = TRUE /\ loader' = "done"
      BY <1>4 DEF LoadUnpack, Loading
    <2>2. medium # NoBlob BY <1>4, ValueIsStorable DEF LoadUnpack, Loading, Shape, TypeOK
    <2>3. \A f \in Fields : Kept(f, ram'[f]) BY <2>1, <2>2 DEF StoredIsKept, Stored
    <2> QED BY <1>1, <2>1, <2>3 DEF Mirrors, Packing, Loading, Kept
  <1> QED BY <1>2, <1>3, <1>4 DEF Load, LoadSettings

LEMMA PackedRun ==
    ASSUME Shape, StoredIsKept, Current, Packed, NEW s, Run(s)
    PROVE  StoredIsKept' /\ Current'
  <1>1. saver # "write" /\ saver' = saver BY DEF Run, Shape, Placed
  <1> QED BY <1>1 DEF Run, media, hist, StoredIsKept, Kept, Current, Mirrors, Packing, Loading

LEMMA PackedPemFails ==
    ASSUME Shape, StoredIsKept, Current, Packed, NEW f \in Pems, CmdPemFails(f)
    PROVE  StoredIsKept' /\ Current'
  <1>1. saver # "write" /\ saver' = saver BY DEF CmdPemFails, Shape, Placed
  <1>2. f \in Fields BY OrderedFields
  <1>3. seen BY <1>2 DEF CmdPemFails, Current, Mirrors, Unset
  <1>4. \A g \in Fields : \A v : Kept(g, v) => Kept(g, v)'
    BY DEF CmdPemFails, Kept, Shape, TypeOK
  <1>5. StoredIsKept' BY <1>4 DEF CmdPemFails, media, StoredIsKept
  <1>6. Garbled \in attempted'[f] BY <1>2 DEF CmdPemFails, Shape, TypeOK
  <1>7. \A g \in Fields : Kept(g, ram[g]) BY <1>1, <1>3 DEF Current, Mirrors
  <1>8. ram' = [ram EXCEPT ![f] = Garbled] /\ seen' = seen BY DEF CmdPemFails
  <1>9. \A g \in Fields : Kept(g, ram[g])'
    BY <1>4, <1>6, <1>7, <1>8 DEF Kept, Shape, TypeOK, Blobs
  <1>10. Mirrors' BY <1>3, <1>8, <1>9 DEF Mirrors
  <1>11. Packing' /\ Loading' BY <1>1 DEF CmdPemFails, media, Current, Packing, Loading
  <1> QED BY <1>5, <1>10, <1>11 DEF Current

LEMMA PackedClear ==
    ASSUME Shape, StoredIsKept, Current, Packed, CmdClear, cause' = {}
    PROVE  StoredIsKept' /\ Current'
  <1>1. saver # "write" /\ saver' = saver BY DEF CmdClear, Shape, Placed
  <1>2. loader # "unpack" /\ loader' = loader BY DEF CmdClear, Endangered
  <1>3. medium' = NoBlob BY DEF CmdClear
  <1>4. \A f \in Fields : Kept(f, Empty)' BY DEF CmdClear, Kept, Unset
  <1>5. StoredIsKept' BY <1>3, <1>4 DEF StoredIsKept, Stored
  <1>6. ram' = Unset BY DEF CmdClear
  <1>7. Mirrors' BY <1>4, <1>6 DEF Mirrors, Unset
  <1> QED BY <1>1, <1>2, <1>5, <1>7 DEF Current, Packing, Loading

\* A failed save leaves a value that counts as attempted.
LEMMA FailureIsAttempted ==
    ASSUME Shape, ~Idle, Fails(Saved.field, Saved.value)
    PROVE  /\ \A f \in Fields : \A v : Kept(f, v) => Kept(f, v)'
           /\ Saved.value \in attempted'[Saved.field]
  <1>1. Saved.field \in Fields BY SavedIsTyped DEF Shape
  <1>2. attempted' = [attempted EXCEPT ![Saved.field] = @ \cup {Saved.value}]
    BY DEF Fails
  <1>3. \A f \in Fields : attempted[f] \subseteq attempted'[f]
    BY <1>1, <1>2 DEF Shape, TypeOK
  <1>4. Saved.value \in attempted'[Saved.field] BY <1>1, <1>2 DEF Shape, TypeOK
  <1>5. promised' = promised BY DEF Fails
  <1> QED BY <1>3, <1>4, <1>5 DEF Kept

LEMMA PackedPack ==
    ASSUME Shape, StoredIsKept, Current, Packed, SavePack, cause' = {}
    PROVE  StoredIsKept' /\ Current'
  <1> DEFINE f == Saved.field
             v == Saved.value
  <1>1. ~Idle /\ saver = "idle" /\ medium' = medium /\ loader' = loader
    BY DEF SavePack
  <1>2. f \in Fields BY <1>1, SavedIsTyped DEF Shape
  <1>3. seen' /\ loader # "unpack" /\ (seen \/ medium = NoBlob) BY DEF SavePack, Endangered
  <1>4. \A g \in Fields : Kept(g, ram[g])
    <2>1. CASE seen BY <1>1, <2>1 DEF Current, Mirrors
    <2>2. CASE ~seen
      <3>1. \A g \in Fields : Kept(g, Empty) BY <1>3, <2>2 DEF StoredIsKept, Stored
      <3>2. ram = Unset BY <2>2 DEF Current, Mirrors
      <3> QED BY <3>1, <3>2 DEF Unset
    <2> QED BY <2>1, <2>2
  <1>5. ram' = [ram EXCEPT ![f] = v] BY DEF SavePack, Saved
  <1>6. ram'[f] = v /\ \A g \in Fields : g # f => ram'[g] = ram[g]
    BY <1>2, <1>5 DEF Shape, TypeOK, Blobs
  <1>7. Loading' BY <1>1, <1>3 DEF Loading
  <1>8. CASE buf' = ram' /\ saver' = "write" /\ UNCHANGED <<hist, todo>>
    <2>1. \A g \in Fields : \A w : Kept(g, w)' <=> Kept(g, w) BY <1>8 DEF hist, Kept
    <2>2. Saved' = Saved BY <1>8 DEF Saved
    <2>3. StoredIsKept' BY <1>1, <2>1 DEF StoredIsKept
    <2>4. Mirrors' BY <1>3, <1>4, <1>6, <1>8, <2>1, <2>2 DEF Mirrors
    <2>5. Packing' BY <1>3, <1>6, <1>8, <2>2 DEF Packing
    <2> QED BY <1>7, <2>3, <2>4, <2>5 DEF Current
  <1>9. CASE Fails(f, v) /\ UNCHANGED <<buf, saver>>
    <2>1. /\ \A g \in Fields : \A w : Kept(g, w) => Kept(g, w)'
          /\ v \in attempted'[f]
      BY <1>1, <1>9, FailureIsAttempted
    <2>2. StoredIsKept' BY <1>1, <2>1 DEF StoredIsKept
    <2>3. ASSUME NEW g \in Fields PROVE Kept(g, ram[g])'
      BY <1>4, <1>6, <2>1 DEF Kept
    <2>4. Mirrors' BY <1>3, <2>3 DEF Mirrors
    <2>5. Packing' BY <1>1, <1>9 DEF Packing
    <2> QED BY <1>7, <2>2, <2>4, <2>5 DEF Current
  <1> QED BY <1>8, <1>9 DEF SavePack, Saved

LEMMA PackedWrite ==
    ASSUME Shape, StoredIsKept, Current, Packed, SaveWrite, cause' = {}
    PROVE  StoredIsKept' /\ Current'
  <1> DEFINE f == Saved.field
             v == Saved.value
  <1>1. /\ saver = "write" /\ saver' = "idle" /\ ~Idle
        /\ ram' = ram /\ seen' = seen /\ loader' = loader
    BY DEF SaveWrite, Shape, Placed
  <1>2. f \in Fields BY <1>1, SavedIsTyped DEF Shape
  <1>3. seen /\ buf = ram /\ ram[f] = v BY <1>1 DEF Current, Packing
  <1>4. loader # "unpack" BY <1>1 DEF Current, Loading
  <1>5. \A g \in Fields : g # f => Kept(g, ram[g]) BY <1>1, <1>3 DEF Current, Mirrors
  <1>6. Packing' /\ Loading' BY <1>1, <1>4 DEF Packing, Loading
  <1>7. CASE Fails(f, v) /\ UNCHANGED <<medium, durable>>
    <2>1. /\ \A g \in Fields : \A w : Kept(g, w) => Kept(g, w)'
          /\ v \in attempted'[f]
      BY <1>1, <1>7, FailureIsAttempted
    <2>2. StoredIsKept' BY <1>7, <2>1 DEF StoredIsKept
    <2>3. ASSUME NEW g \in Fields PROVE Kept(g, ram[g])'
      BY <1>1, <1>3, <1>5, <2>1 DEF Kept
    <2>4. Mirrors' BY <1>1, <1>3, <2>3 DEF Mirrors
    <2> QED BY <1>6, <2>2, <2>4 DEF Current
  <1>8. CASE medium' = buf /\ Succeeds(f, v)
    <2>1. /\ promised' = [promised EXCEPT ![f] = v] /\ attempted' = [attempted EXCEPT ![f] = {}]
      BY <1>8 DEF Succeeds
    <2>2. ASSUME NEW g \in Fields PROVE Kept(g, ram[g])'
      BY <1>1, <1>2, <1>3, <1>5, <2>1 DEF Kept, Shape, TypeOK, Blobs
    <2>3. medium' = ram' /\ medium' # NoBlob
      BY <1>1, <1>3, <1>8, ValueIsStorable DEF Shape, TypeOK
    <2>4. StoredIsKept' BY <2>2, <2>3 DEF StoredIsKept, Stored
    <2>5. Mirrors' BY <1>1, <1>3, <2>2 DEF Mirrors
    <2> QED BY <1>6, <2>4, <2>5 DEF Current
  <1> QED BY <1>7, <1>8 DEF SaveWrite, Saved

LEMMA PackedReset ==
    ASSUME Shape, StoredIsKept, Current, Packed, Reset, cause' = {}
    PROVE  StoredIsKept' /\ Current'
  <1>1. medium' = medium BY DEF Reset
  <1> QED BY <1>1 DEF Reset, hist, StoredIsKept, Kept, Current, Mirrors, Packing, Loading

LEMMA PromisesStep ==
    ASSUME IInv, Next PROVE Promises' /\ PackedInv'
  <1>1. CASE cause' # {}
    BY <1>1 DEF Promises, Exact, StoredAsPromised, PackedInv
  <1>2. CASE cause' = {} /\ ~Packed
    <2>1. ~Packed' BY <1>2 DEF Packed, Next, Load, LoadFails, LoadRead, LoadUnpack, LoadSettings,
            Command, CmdCred, CmdConfig, CmdSetup, CmdProvision, Run, CmdPemFails, CmdClear,
            SaveField, SavePack, SaveWrite, Reset
    <2>2. Exact' BY <1>2, ExactStep
    <2>3. medium' \in Blobs BY <2>1, ShapeNext DEF IInv, Shape, Placed
    <2>4. \A f \in Fields : Stored(medium, f)' = promised'[f]
      BY <1>2, <2>1, <2>2, <2>3, ValueIsStorable DEF Exact, Stored
    <2>5. StoredIsKept' BY <2>4 DEF StoredIsKept, Kept
    <2> QED BY <2>1, <2>2, <2>5, StoredIs DEF Promises, PackedInv
  <1>3. CASE cause' = {} /\ Packed
    <2>1. cause = {} BY <1>3, CausesStay
    <2>2. Shape /\ StoredIsKept /\ Current BY <1>3, <2>1, StoredIs DEF IInv, Promises, PackedInv
    <2>3. Load => StoredIsKept' /\ Current' BY <1>3, <2>2, PackedLoad
    <2>4. \A s : Run(s) => StoredIsKept' /\ Current' BY <1>3, <2>2, PackedRun
    <2>5. Command => StoredIsKept' /\ Current'
      BY <1>3, <2>2, <2>4, PackedPemFails, PackedClear
      DEF Command, CmdCred, CmdConfig, CmdSetup, CmdProvision
    <2>6. SavePack \/ SaveWrite \/ Reset => StoredIsKept' /\ Current'
      BY <1>3, <2>2, PackedPack, PackedWrite, PackedReset
    <2>7. ~SaveField BY <1>3 DEF SaveField
    <2>8. Packed' BY <1>3 DEF Packed, Next, Load, LoadFails, LoadRead, LoadUnpack, LoadSettings,
            Command, CmdCred, CmdConfig, CmdSetup, CmdProvision, Run, CmdPemFails, CmdClear,
            SaveField, SavePack, SaveWrite, Reset
    <2>9. StoredIsKept' /\ Current' BY <2>3, <2>5, <2>6, <2>7 DEF Next
    <2> QED BY <2>8, <2>9, StoredIs DEF Promises, PackedInv, Exact
  <1> QED BY <1>1, <1>2, <1>3
-----------------------------------------------------------------------------
(***************************************************************************)
(* The mirrors.                                                            *)
(***************************************************************************)

\* The mirror of f holds what is stored or what failed to be.
Matches(f) == ram[f] \in {Stored(medium, f)} \cup attempted[f]

Fits(f) == Matches(f) \/ (saver = "write" /\ f = Saved.field)

\* On the settings backend a mirror that nothing was loaded into is empty, and
\* a field that was saved past its mirror is stored.
MirrorsInv ==
    cause = {} =>
        /\ seen => \A f \in Fields \ bypassed : Fits(f)
        /\ ~Packed => /\ \A f \in Fields \ bypassed : Matches(f) \/ ram[f] = Empty
                     /\ \A f \in bypassed : medium[f] # Empty

\* What a failed or successful save does to the history of its field.
LEMMA Outcome ==
    ASSUME Shape, ~Idle, Succeeds(Saved.field, Saved.value) \/ Fails(Saved.field, Saved.value)
    PROVE  /\ Saved.field \in Fields /\ Saved.value # Empty
           /\ \A g \in Fields : g # Saved.field =>
                 attempted'[g] = attempted[g] /\ (g \in bypassed' <=> g \in bypassed)
           /\ Fails(Saved.field, Saved.value) =>
                 /\ Saved.value \in attempted'[Saved.field]
                 /\ attempted[Saved.field] \subseteq attempted'[Saved.field]
  <1> DEFINE f == Saved.field
             v == Saved.value
  <1>1. f \in Fields /\ v \in Value BY SavedIsTyped DEF Shape
  <1>2. v # Empty BY <1>1, IdentityAssumption DEF Value
  <1>3. bypassed' \in {bypassed, bypassed \ {f}, bypassed \cup {f}} BY DEF Succeeds, Fails
  <1>4. \A g \in Fields : g # f => attempted'[g] = attempted[g]
    BY <1>1 DEF Succeeds, Fails, Shape, TypeOK
  <1>5. Fails(f, v) => v \in attempted'[f] /\ attempted[f] \subseteq attempted'[f]
    BY <1>1 DEF Fails, Shape, TypeOK
  <1> QED BY <1>1, <1>2, <1>3, <1>4, <1>5

LEMMA MirrorsLoad ==
    ASSUME IInv, MirrorsInv, Load, cause = {}, cause' = {} PROVE MirrorsInv'
  <1>1. CASE LoadFails
    BY <1>1 DEF LoadFails, media, hist, MirrorsInv, Fits, Matches, Packed, Saved
  <1>2. CASE LoadRead
    <2>1. /\ Packed /\ Packed' /\ saver # "write" /\ saver' = saver
          /\ UNCHANGED <<ram, medium, attempted, bypassed>>
      BY <1>2 DEF LoadRead, Packed, hist
    <2>2. ~seen /\ seen' => \A f \in Fields : ram[f] = Empty /\ Stored(medium, f) = Empty
      BY <1>2, <2>1 DEF LoadRead, IInv, PackedInv, Current, Mirrors, Unset, Stored
    <2> QED BY <2>1, <2>2 DEF MirrorsInv, Fits, Matches
  <1>3. CASE LoadUnpack
    <2>1. /\ Packed /\ Packed' /\ ram' = medium /\ medium' = medium
      BY <1>3 DEF LoadUnpack, IInv, Shape, Placed, PackedInv, Current, Loading, Packed
    <2>2. medium # NoBlob BY <1>3, <2>1, ShapeNext, ValueIsStorable
      DEF LoadUnpack, IInv, Shape, TypeOK, PackedInv, Current, Loading
    <2>3. \A f \in Fields : ram'[f] = Stored(medium', f) BY <2>1, <2>2 DEF Stored
    <2> QED BY <2>1, <2>3 DEF MirrorsInv, Fits, Matches
  <1>4. CASE LoadSettings
    <2>1. /\ ~Packed /\ ~Packed' /\ bypassed' = {} /\ UNCHANGED <<medium, attempted>>
          /\ ram' = [f \in Fields |-> IF Stored(medium, f) = Empty THEN ram[f] ELSE medium[f]]
      BY <1>4 DEF LoadSettings, Packed, media
    <2>2. \A f \in Fields : Stored(medium, f) = medium[f]
      BY <2>1, ValueIsStorable DEF IInv, Shape, Placed, Stored
    <2>3. ASSUME NEW f \in Fields PROVE ram'[f] \in {Stored(medium, f)} \cup attempted[f]
      <3>1. CASE medium[f] # Empty BY <2>1, <2>2, <3>1
      <3>2. CASE medium[f] = Empty
        <4>1. f \notin bypassed BY <2>1, <3>2 DEF MirrorsInv
        <4>2. Matches(f) \/ ram[f] = Empty BY <2>1, <4>1 DEF MirrorsInv
        <4> QED BY <2>1, <2>2, <3>2, <4>2 DEF Matches
      <3> QED BY <3>1, <3>2
    <2> QED BY <2>1, <2>3 DEF MirrorsInv, Fits, Matches
  <1> QED BY <1>1, <1>2, <1>3, <1>4 DEF Load

LEMMA MirrorsCommand ==
    ASSUME IInv, MirrorsInv, Command, cause = {}, cause' = {} PROVE MirrorsInv'
  <1>1. ASSUME NEW s, Run(s) PROVE MirrorsInv'
    <2>1. saver # "write" /\ saver' = saver BY <1>1 DEF Run, IInv, Shape, Placed
    <2> QED BY <1>1, <2>1 DEF Run, media, hist, MirrorsInv, Fits, Matches, Packed
  <1>2. ASSUME NEW f \in Pems, CmdPemFails(f) PROVE MirrorsInv'
    <2>1. saver # "write" /\ saver' = saver BY <1>2 DEF CmdPemFails, IInv, Shape, Placed
    <2>2. f \in Fields /\ ram \in Blobs /\ attempted \in [Fields -> SUBSET Value]
      BY OrderedFields DEF IInv, Shape, TypeOK, Value
    <2>3. /\ ram' = [ram EXCEPT ![f] = Garbled]
          /\ attempted' = [attempted EXCEPT ![f] = @ \cup {Garbled}]
          /\ UNCHANGED <<medium, seen, bypassed, backend>>
      BY <1>2 DEF CmdPemFails, media
    <2>4. \A g \in Fields : IF g = f THEN ram'[g] \in attempted'[g]
                            ELSE ram'[g] = ram[g] /\ attempted'[g] = attempted[g]
      BY <2>2, <2>3 DEF Blobs
    <2> QED BY <2>1, <2>3, <2>4 DEF MirrorsInv, Fits, Matches, Packed
  <1>3. CASE CmdClear
    <2>1. /\ ram' = Unset /\ bypassed' = {} /\ UNCHANGED backend
          /\ medium' = IF Packed THEN NoBlob ELSE Unset
      BY <1>3 DEF CmdClear, Unset
    <2>2. \A f \in Fields : ram'[f] = Empty /\ Stored(medium', f) = Empty
      BY <2>1 DEF Unset, Stored
    <2> QED BY <2>1, <2>2 DEF MirrorsInv, Fits, Matches
  <1> QED BY <1>1, <1>2, <1>3 DEF Command, CmdCred, CmdConfig, CmdSetup, CmdProvision

LEMMA MirrorsSave ==
    ASSUME IInv, MirrorsInv, SaveField \/ SavePack \/ SaveWrite, cause = {}, cause' = {}
    PROVE  MirrorsInv'
  <1> DEFINE f == Saved.field
             v == Saved.value
  <1>1. ~Idle BY DEF SaveField, SavePack, SaveWrite, IInv, Shape, Placed
  <1>2. f \in Fields /\ ram \in Blobs BY <1>1, SavedIsTyped DEF IInv, Shape, TypeOK
  <1>3. v # Empty
    BY <1>1, SavedIsTyped, IdentityAssumption DEF IInv, Shape, Value
  <1>4. Succeeds(f, v) \/ Fails(f, v) =>
           /\ \A g \in Fields : g # f =>
                 attempted'[g] = attempted[g] /\ (g \in bypassed' <=> g \in bypassed)
           /\ Fails(f, v) => v \in attempted'[f] /\ attempted[f] \subseteq attempted'[f]
    BY <1>1, Outcome DEF IInv
  <1>5. bypassed \subseteq Fields /\ bypassed' \subseteq Fields
    BY ShapeNext DEF IInv, Shape, TypeOK, Next
  <1>6. CASE SaveField
    <2>1. /\ ~Packed /\ ~Packed' /\ seen' = seen /\ saver # "write" /\ saver' = saver
          /\ medium \in Blobs
      BY <1>6 DEF SaveField, Packed, IInv, Shape, Placed
    <2>2. /\ ram' = IF MirrorTakes THEN [ram EXCEPT ![f] = v] ELSE ram
          /\ \/ medium' = [medium EXCEPT ![f] = v] /\ Succeeds(f, v)
             \/ Fails(f, v) /\ UNCHANGED medium
      BY <1>6 DEF SaveField, Saved
    <2>3. medium' \in Blobs BY <2>1, ShapeNext DEF IInv, Shape, Placed, Next
    <2>4. \A g \in Fields : Stored(medium, g) = medium[g] /\ Stored(medium, g)' = medium'[g]
      BY <2>1, <2>3, ValueIsStorable DEF Stored
    <2>5. \A g \in Fields : g # f =>
             /\ ram'[g] = ram[g] /\ medium'[g] = medium[g] /\ attempted'[g] = attempted[g]
             /\ g \in bypassed' <=> g \in bypassed
      BY <1>2, <1>4, <2>1, <2>2 DEF Blobs
    <2>6. \A g \in Fields : g # f => (Matches(g)' <=> Matches(g)) BY <2>4, <2>5 DEF Matches
    <2>7. CASE MirrorTakes
      <3>1. f \notin bypassed' /\ ram'[f] = v
        BY <1>2, <2>2, <2>7 DEF Succeeds, Fails, Blobs
      <3>2. medium'[f] = v \/ v \in attempted'[f] BY <1>2, <1>4, <2>1, <2>2 DEF Blobs
      <3>3. \A g \in Fields : g = f => Matches(g)' BY <2>4, <3>1, <3>2 DEF Matches
      <3> QED BY <1>5, <2>1, <2>5, <2>6, <3>1, <3>3 DEF MirrorsInv, Fits
    <2>8. CASE ~MirrorTakes /\ medium' = [medium EXCEPT ![f] = v] /\ Succeeds(f, v)
      <3>1. f \in bypassed' /\ medium'[f] # Empty
        BY <1>2, <1>3, <2>1, <2>8 DEF Succeeds, Blobs
      <3> QED BY <1>5, <2>1, <2>5, <2>6, <3>1 DEF MirrorsInv, Fits
    <2>9. CASE ~MirrorTakes /\ Fails(f, v) /\ UNCHANGED medium
      <3>1. bypassed' = bypassed /\ ram' = ram BY <2>2, <2>9 DEF Fails
      <3>2. \A g \in Fields : attempted[g] \subseteq attempted'[g] BY <1>4, <2>9
      <3>3. \A g \in Fields : Matches(g) => Matches(g)'
        BY <2>4, <2>9, <3>1, <3>2 DEF Matches
      <3> QED BY <2>1, <2>9, <3>1, <3>3 DEF MirrorsInv, Fits
    <2> QED BY <2>2, <2>7, <2>8, <2>9
  <1>7. CASE SavePack
    <2>1. /\ Packed /\ Packed' /\ saver # "write" /\ medium' = medium
          /\ seen' = (seen \/ medium = NoBlob) /\ seen'
          /\ ram' = [ram EXCEPT ![f] = v]
      BY <1>7 DEF SavePack, Packed, Endangered, Saved
    <2>2. \A g \in Fields \ bypassed : Matches(g)
      <3>1. CASE seen BY <2>1, <3>1 DEF MirrorsInv, Fits
      <3>2. CASE ~seen
        <4>1. ram = Unset BY <2>1, <3>2 DEF IInv, PackedInv, Current, Mirrors
        <4>2. medium = NoBlob BY <2>1, <3>2
        <4> QED BY <4>1, <4>2 DEF Matches, Stored, Unset
      <3> QED BY <3>1, <3>2
    <2>3. ram'[f] = v /\ \A g \in Fields : g # f => ram'[g] = ram[g]
      BY <1>2, <2>1 DEF Blobs
    <2>4. CASE saver' = "write" /\ UNCHANGED <<hist, todo>>
      <3>1. bypassed' = bypassed /\ attempted' = attempted /\ Saved' = Saved
        BY <2>4 DEF hist, Saved
      <3>2. \A g \in Fields : g # f => (Matches(g)' <=> Matches(g))
        BY <2>1, <2>3, <3>1 DEF Matches
      <3> QED BY <2>1, <2>2, <2>4, <3>1, <3>2 DEF MirrorsInv, Fits
    <2>5. CASE Fails(f, v) /\ UNCHANGED <<buf, saver>>
      <3>1. \A g \in Fields : g # f => (Matches(g)' <=> Matches(g))
        BY <1>4, <2>1, <2>3, <2>5 DEF Matches
      <3>2. \A g \in Fields : g = f => Matches(g)' BY <1>4, <2>3, <2>5 DEF Matches
      <3> QED BY <1>4, <2>1, <2>2, <2>5, <3>1, <3>2 DEF MirrorsInv, Fits
    <2> QED BY <1>7, <2>4, <2>5 DEF SavePack, Saved
  <1>8. CASE SaveWrite
    <2>1. /\ Packed /\ Packed' /\ saver = "write" /\ ram' = ram /\ seen' = seen
      BY <1>8 DEF SaveWrite, Packed, IInv, Shape, Placed
    <2>2. seen /\ buf = ram /\ ram[f] = v
      BY <2>1 DEF IInv, PackedInv, Current, Packing
    <2>3. CASE medium' = buf
      <3>1. medium' # NoBlob BY <2>2, <2>3, ValueIsStorable DEF IInv, Shape, TypeOK
      <3>2. \A g \in Fields : Matches(g)' BY <2>1, <2>2, <2>3, <3>1 DEF Matches, Stored
      <3> QED BY <2>1, <3>2 DEF MirrorsInv, Fits
    <2>4. CASE Fails(f, v) /\ UNCHANGED <<medium, durable>>
      <3>1. \A g \in Fields : g # f => (Matches(g)' <=> Matches(g))
        BY <1>4, <2>1, <2>4 DEF Matches
      <3>2. \A g \in Fields : g = f => Matches(g)' BY <1>4, <2>1, <2>2, <2>4 DEF Matches
      <3>3. \A g \in Fields \ bypassed : g # f => Matches(g)
        BY <2>2 DEF MirrorsInv, Fits
      <3>4. \A g \in Fields \ bypassed' : Matches(g)' BY <1>4, <2>4, <3>1, <3>2, <3>3
      <3> QED BY <2>1, <3>4 DEF MirrorsInv, Fits
    <2> QED BY <1>8, <2>3, <2>4 DEF SaveWrite, Saved
  <1> QED BY <1>6, <1>7, <1>8

LEMMA MirrorsStep ==
    ASSUME IInv, MirrorsInv, [Next]_vars PROVE MirrorsInv'
  <1>1. CASE cause' # {} BY <1>1 DEF MirrorsInv
  <1>2. CASE cause' = {}
    <2>1. cause = {} BY <1>2, CausesStay
    <2>2. CASE Reset
      <3>1. ~seen' /\ bypassed' = {} /\ \A f \in Fields : ram'[f] = Empty
        BY <2>2 DEF Reset, Unset
      <3> QED BY <3>1 DEF MirrorsInv
    <2>3. CASE UNCHANGED vars
      BY <2>3 DEF vars, media, hist, MirrorsInv, Fits, Matches, Packed, Saved
    <2> QED BY <1>2, <2>1, <2>2, <2>3, MirrorsLoad, MirrorsCommand, MirrorsSave DEF Next
  <1> QED BY <1>1, <1>2
-----------------------------------------------------------------------------
(***************************************************************************)
(* The theorems.                                                           *)
(***************************************************************************)

\* The mirrors, the shared buffer and the medium stay in step with what was
\* promised as long as nothing has endangered it.
THEOREM Invariance == Spec => []IInv
  <1>1. Init => IInv BY ShapeInit, PromisesInit DEF IInv
  <1>2. IInv /\ [Next]_vars => IInv'
    <2>1. CASE Next BY <2>1, ShapeNext, PromisesStep DEF IInv
    <2>2. CASE UNCHANGED vars
      <3>1. Shape => Shape' BY <2>2, ShapeNext
      <3>2. Promises => Promises'
        BY <2>2 DEF vars, media, hist, Promises, Exact, StoredAsPromised, Packed
      <3>3. PackedInv => PackedInv'
        BY <2>2 DEF vars, media, hist, PackedInv, Packed, Current, Mirrors, Packing, Loading,
                    Kept, Saved
      <3> QED BY <3>1, <3>2, <3>3 DEF IInv
    <2> QED BY <2>1, <2>2
  <1> QED BY <1>1, <1>2, PTL DEF Spec

\* Every variable of the identity store keeps its type; a save under way is
\* of a field of the identity and of a value such a field may have.
THEOREM TypeCorrect == Spec => []TypeOK
  <1>1. IInv => TypeOK BY DEF IInv, Shape
  <1> QED BY <1>1, Invariance, PTL

\* What iotc_kv_save() returned 0 for is what a later boot reads, or what a
\* failed command since then left in the mirror: nothing else is ever stored.
THEOREM PromisesAreKept == Spec => []StoredAsPromised
  <1>1. IInv => StoredAsPromised BY DEF IInv, Promises
  <1> QED BY <1>1, Invariance, PTL

\* What iotc setup fills in, and what a packed save writes of the fields it
\* was not called for, is what is stored: only a failed save, or on the settings
\* backend iotcprov provision, parts a mirror from the medium.
THEOREM MirrorsStayCurrent == Spec => []MirrorsAreStored
  <1>1. Init => MirrorsInv
    <2> SUFFICES ASSUME Init PROVE MirrorsInv OBVIOUS
    <2>1. ~seen /\ bypassed = {} /\ \A f \in Fields : ram[f] = Empty BY DEF Init, Unset
    <2> QED BY <2>1 DEF MirrorsInv
  <1>2. IInv /\ MirrorsInv /\ [Next]_vars => MirrorsInv'
    BY MirrorsStep DEF IInv
  <1>3. MirrorsInv => MirrorsAreStored
    BY DEF MirrorsInv, MirrorsAreStored, Fits, Matches, Saved
  <1> QED BY <1>1, <1>2, <1>3, Invariance, PTL DEF Spec

\* A save rewrites the whole blob and yet changes one field of it: all the
\* other mirrors hold exactly what the medium does.
THEOREM OneFieldPerSave == Spec => SavesOneField
  <1>1. ASSUME IInv, [Next]_vars, ~Idle, medium' # medium, cause' = {},
               \A f \in Fields : attempted[f] = {}, resets' = resets,
               NEW f \in Fields \ {Saved.field}
        PROVE  Stored(medium', f) = Stored(medium, f)
    <2>1. cause = {} BY <1>1, CausesStay
    <2>2. Stored(medium, f) = promised[f]
      BY <1>1, <2>1 DEF IInv, Promises, StoredAsPromised
    <2>3. CASE SaveField
      <3>1. medium' = [medium EXCEPT ![Saved.field] = Saved.value]
        BY <1>1, <2>3 DEF SaveField, Saved
      <3>2. medium \in Blobs /\ medium' \in Blobs
        BY <1>1, <2>3, ShapeNext DEF SaveField, IInv, Shape, Placed, Packed
      <3>3. medium'[f] = medium[f] BY <3>1, <3>2 DEF Blobs
      <3> QED BY <3>2, <3>3, ValueIsStorable DEF Stored
    <2>4. CASE SaveWrite
      <3>1. saver = "write" /\ Packed /\ medium' = buf
        BY <1>1, <2>4 DEF SaveWrite, IInv, Shape, Placed
      <3>2. seen /\ buf = ram /\ Kept(f, ram[f])
        BY <1>1, <2>1, <3>1 DEF IInv, PackedInv, Current, Packing, Mirrors
      <3>3. ram[f] = promised[f] BY <1>1, <3>2 DEF Kept
      <3>4. buf # NoBlob BY <1>1, ValueIsStorable DEF IInv, Shape, TypeOK
      <3> QED BY <2>2, <3>1, <3>2, <3>3, <3>4 DEF Stored
    <2>5. ~Load
      BY <1>1 DEF Load, LoadFails, LoadRead, LoadUnpack, LoadSettings, media
    <2>6. ~Command
      BY <1>1 DEF Command, CmdCred, CmdConfig, CmdSetup, CmdProvision, Run, CmdPemFails, CmdClear
    <2>7. ~SavePack BY <1>1 DEF SavePack
    <2>8. ~Reset
      <3>1. resets \in Nat BY <1>1, IdentityAssumption DEF IInv, Shape, TypeOK
      <3>2. resets + 1 # resets BY <3>1
      <3> QED BY <1>1, <3>2 DEF Reset
    <2>9. ~UNCHANGED vars BY <1>1 DEF vars, media
    <2> QED BY <1>1, <2>3, <2>4, <2>5, <2>6, <2>7, <2>8, <2>9 DEF Next
  <1>2. IInv /\ [Next]_vars =>
          [~Idle /\ medium' # medium /\ cause' = {} /\ (\A f \in Fields : attempted[f] = {})
             /\ resets' = resets =>
           \A f \in Fields \ {Head(todo).field} : Stored(medium', f) = Stored(medium, f)]_vars
    BY <1>1 DEF Saved
  <1> QED BY <1>2, Invariance, PTL DEF Spec, SavesOneField

\* The erase message is true while no disk write was dropped and no blob was
\* written over one that was not loaded: the run that refutes
\* ErasedStaysErased needs one of these.
THEOREM ErasedWhileSafe == Spec => [](cause = {} => ErasedStaysErased)
  <1>1. IInv => (cause = {} => ErasedStaysErased)
    BY DEF IInv, Promises, StoredAsPromised, ErasedStaysErased
  <1> QED BY <1>1, Invariance, PTL
=============================================================================
