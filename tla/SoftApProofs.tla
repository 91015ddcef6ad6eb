----------------------------- MODULE SoftApProofs -----------------------------
(***************************************************************************)
(* The Wi-Fi credential store by itself, for any number of networks,       *)
(* entries and callers; then the safety of the soft-AP portal over it, for *)
(* any number of requests, commands, networks and resets.                  *)
(***************************************************************************)
EXTENDS SoftAp, FiniteSetTheorems, TLAPS
-----------------------------------------------------------------------------
(***************************************************************************)
(* What WifiStore promises of eviction: of its callers only WifiAssumption *)
(* is used.                                                                *)
(***************************************************************************)

\* Callers that evicted a network and have not stored theirs yet.
Again == {t \in Callers : at[t] = "again"}

Fits == Cardinality(known) <= MaxEntries

\* A call that has the store to itself knows what it found there.
Apart ==
    \A t \in Callers : at[t] # "idle" /\ t \notin crossed =>
        /\ \A u \in Callers : u # t => at[u] = "idle"
        /\ at[t] = "pick" => ssid[t] \notin known /\ known # {}
        /\ at[t] = "delete" => oldest[t] \in known
        /\ at[t] = "again" => Cardinality(known) < MaxEntries
        /\ at[t] # "full"

\* What is stored has a name.
Called == \A t \in Callers : at[t] # "idle" => ssid[t] \in Networks

WifiInv == StoreTypeOK /\ Called /\ Fits /\ Apart /\ OneEvictionPerCall
-----------------------------------------------------------------------------
LEMMA Counts ==
    ASSUME StoreTypeOK
    PROVE  /\ Cardinality(known) \in Nat /\ MaxEntries \in Nat \ {0}
           /\ IsFiniteSet(Again) /\ Cardinality(Again) \in Nat
  <1>1. Again \in SUBSET Callers BY DEF Again
  <1>2. IsFiniteSet(Again) BY <1>1, FS_Subset, WifiAssumption
  <1> QED BY <1>2, FS_CardinalityType, WifiAssumption DEF StoreTypeOK

\* One caller moves: the others wait as before.
LEMMA Waits ==
    ASSUME StoreTypeOK, NEW t \in Callers, NEW c, Goto(t, c)
    PROVE  Cardinality(Again') = IF c = "again"
                                 THEN IF at[t] = "again" THEN Cardinality(Again)
                                                         ELSE Cardinality(Again) + 1
                                 ELSE IF at[t] = "again" THEN Cardinality(Again) - 1
                                                         ELSE Cardinality(Again)
  <1>1. IsFiniteSet(Again) BY Counts
  <1>2. \A u \in Callers : at'[u] = IF u = t THEN c ELSE at[u]
    BY DEF Goto, StoreTypeOK
  <1>3. t \in Again <=> at[t] = "again" BY DEF Again
  <1>4. CASE c = "again"
    <2>1. Again' = Again \cup {t} BY <1>2, <1>4 DEF Again
    <2> QED BY <1>1, <1>3, <1>4, <2>1, FS_AddElement
  <1>5. CASE c # "again"
    <2>1. Again' = Again \ {t} BY <1>2, <1>5 DEF Again
    <2> QED BY <1>1, <1>3, <1>5, <2>1, FS_RemoveElement
  <1> QED BY <1>4, <1>5

LEMMA WifiInitInv == StoreInit => WifiInv
  <1> SUFFICES ASSUME StoreInit PROVE WifiInv OBVIOUS
  <1> USE WifiAssumption DEF StoreInit
  <1>1. IsFiniteSet(known) BY FS_Subset
  <1>2. at \in [Callers -> {"idle"}] /\ oldest = ssid OBVIOUS
  <1>3. filled \in BOOLEAN BY DEF Full
  <1>4. StoreTypeOK BY <1>1, <1>2, <1>3 DEF StoreTypeOK
  <1>5. Again = {} BY DEF Again
  <1>6. Cardinality(Again) = 0 /\ Cardinality(known) \in Nat
    BY <1>1, <1>5, FS_EmptySet, FS_CardinalityType
  <1>7. filled => Cardinality(known) = MaxEntries BY DEF Full
  <1>8. wasted = 0 OBVIOUS
  <1>9. OneEvictionPerCall BY <1>6, <1>7, <1>8 DEF OneEvictionPerCall, Again
  <1> QED BY <1>4, <1>9 DEF WifiInv, Fits, Apart, Called

\* Storing a network takes one entry at most, and only if there is room.
LEMMA Sets ==
    ASSUME StoreTypeOK, Fits, NEW n \in Networks, Set(n)
    PROVE  /\ known' \subseteq Networks /\ IsFiniteSet(known') /\ filled' \in BOOLEAN
           /\ Cardinality(known') = IF n \in known THEN Cardinality(known)
                                                   ELSE Cardinality(known) + 1
           /\ Cardinality(known') <= MaxEntries
           /\ filled' => filled \/ Cardinality(known') = MaxEntries
  <1>1. known' = known \cup {n} BY DEF Set
  <1>2. /\ IsFiniteSet(known')
        /\ Cardinality(known') = IF n \in known THEN Cardinality(known)
                                                ELSE Cardinality(known) + 1
    BY <1>1, FS_AddElement DEF StoreTypeOK
  <1>3. Cardinality(known') <= MaxEntries
    BY <1>2, Counts DEF Set, Room, Fits
  <1>4. filled' = (filled \/ Full(known')) BY DEF Set
  <1>5. filled' \in BOOLEAN BY <1>4, Zenon DEF StoreTypeOK
  <1>6. filled' => filled \/ Cardinality(known') = MaxEntries
    BY <1>4, Zenon DEF Full
  <1> QED BY <1>1, <1>2, <1>3, <1>5, <1>6 DEF StoreTypeOK
-----------------------------------------------------------------------------
LEMMA CallStep ==
    ASSUME WifiInv, NEW t \in Callers, NEW n \in Networks, StoreCall(t, n)
    PROVE  WifiInv'
  <1> USE DEF WifiInv, StoreCall
  <1>1. /\ at[t] = "idle" /\ UNCHANGED <<known, oldest, filled, wasted>>
        /\ at' = [at EXCEPT ![t] = "set"] /\ ssid' = [ssid EXCEPT ![t] = n]
        /\ crossed' = IF Storing = {} THEN crossed ELSE crossed \cup Storing \cup {t}
    BY DEF Goto
  <1>2. StoreTypeOK' BY <1>1 DEF StoreTypeOK, Storing
  <1>3. Called' BY <1>1 DEF Called, StoreTypeOK
  <1>4. Cardinality(Again') = Cardinality(Again) BY <1>1, Waits DEF Goto
  <1>5. OneEvictionPerCall' BY <1>1, <1>4 DEF OneEvictionPerCall, Again
  <1>6. Apart'
    <2> SUFFICES ASSUME NEW u \in Callers, at'[u] # "idle", u \notin crossed'
                 PROVE  /\ \A v \in Callers : v # u => at'[v] = "idle"
                        /\ at'[u] = "set"
      BY DEF Apart
    <2>1. Storing = {} BY <1>1 DEF Storing, StoreTypeOK
    <2> QED BY <1>1, <2>1 DEF Storing, StoreTypeOK
  <1> QED BY <1>1, <1>2, <1>3, <1>5, <1>6 DEF Fits

\* Only a call that has the store to itself is not crossed when it takes a
\* step: it is enough to look at what that call knows afterwards.
LEMMA StaysApart ==
    ASSUME WifiInv, NEW t \in Callers, at[t] # "idle", NEW c, Goto(t, c),
           crossed' \in {crossed, crossed \ {t}},
           c = "idle" \/
              (t \notin crossed =>
                 /\ crossed' = crossed
                 /\ c = "pick" => ssid'[t] \notin known' /\ known' # {}
                 /\ c = "delete" => oldest'[t] \in known'
                 /\ c = "again" => Cardinality(known') < MaxEntries
                 /\ c # "full"),
           c # "idle" => crossed' = crossed
    PROVE  Apart'
  <1> SUFFICES ASSUME NEW u \in Callers, at'[u] # "idle", u \notin crossed'
               PROVE  /\ \A v \in Callers : v # u => at'[v] = "idle"
                      /\ at'[u] = "pick" => ssid'[u] \notin known' /\ known' # {}
                      /\ at'[u] = "delete" => oldest'[u] \in known'
                      /\ at'[u] = "again" => Cardinality(known') < MaxEntries
                      /\ at'[u] # "full"
    BY DEF Apart
  <1>1. \A v \in Callers : at'[v] = IF v = t THEN c ELSE at[v]
    BY DEF Goto, WifiInv, StoreTypeOK
  <1>2. u = t
    <2>1. SUFFICES ASSUME u # t PROVE FALSE OBVIOUS
    <2>2. u \notin crossed /\ at[u] # "idle" BY <1>1, <2>1
    <2> QED BY <2>1, <2>2 DEF WifiInv, Apart
  <1>3. c # "idle" /\ u \notin crossed BY <1>1, <1>2
  <1>4. \A v \in Callers : v # u => at[v] = "idle"
    BY <1>2, <1>3 DEF WifiInv, Apart
  <1> QED BY <1>1, <1>2, <1>3, <1>4
-----------------------------------------------------------------------------
LEMMA SetStep == ASSUME WifiInv, NEW t \in Callers, StoreSet(t) PROVE WifiInv'
  <1> USE DEF WifiInv
  <1>1. at[t] = "set" /\ UNCHANGED <<ssid, oldest, crossed, wasted>> BY DEF StoreSet
  <1>2. ssid[t] \in Networks BY <1>1 DEF Called
  <1>3. PICK c \in {"ok", "error", "pick"} :
          /\ Goto(t, c)
          /\ \/ c = "ok" /\ Set(ssid[t])
             \/ c = "error" /\ UNCHANGED <<known, filled>>
             \/ c = "pick" /\ ~Room(ssid[t]) /\ UNCHANGED <<known, filled>>
    BY DEF StoreSet
  <1>4. Cardinality(Again') = Cardinality(Again) BY <1>1, <1>3, Waits
  <1>5. /\ known' \subseteq Networks /\ IsFiniteSet(known') /\ filled' \in BOOLEAN
        /\ Cardinality(known') >= Cardinality(known) /\ Cardinality(known') <= MaxEntries
        /\ filled' => filled \/ Cardinality(known') = MaxEntries
    <2>1. CASE Set(ssid[t]) BY <1>2, <2>1, Sets, Counts
    <2>2. CASE UNCHANGED <<known, filled>> BY <2>2, Counts DEF StoreTypeOK, Fits
    <2> QED BY <1>3, <2>1, <2>2
  <1>6. StoreTypeOK' BY <1>1, <1>3, <1>5 DEF StoreTypeOK, Goto
  <1>7. Called' BY <1>1, <1>2, <1>3 DEF Called, StoreTypeOK, Goto
  <1>8. OneEvictionPerCall'
    <2>1. wasted \in Nat /\ Cardinality(known') \in Nat
      BY <1>5, FS_CardinalityType DEF StoreTypeOK
    <2> QED BY <1>1, <1>4, <1>5, <2>1, Counts DEF OneEvictionPerCall, Again
  <1>9. c = "pick" => ssid'[t] \notin known' /\ known' # {}
    BY <1>1, <1>3, FS_EmptySet, WifiAssumption DEF Room
  <1>10. Apart' BY <1>1, <1>3, <1>9, StaysApart
  <1> QED BY <1>5, <1>6, <1>7, <1>8, <1>10 DEF Fits

LEMMA PickStep == ASSUME WifiInv, NEW t \in Callers, StorePick(t) PROVE WifiInv'
  <1> USE DEF WifiInv
  <1>1. at[t] = "pick" /\ UNCHANGED <<known, ssid, crossed, filled, wasted>>
    BY DEF StorePick
  <1>2. PICK c \in {"full", "delete"} :
          /\ Goto(t, c)
          /\ c = "full" => known \ {ssid[t]} = {} /\ UNCHANGED oldest
          /\ c = "delete" => \E n \in known : oldest' = [oldest EXCEPT ![t] = n]
    BY DEF StorePick
  <1>3. Cardinality(Again') = Cardinality(Again) BY <1>1, <1>2, Waits
  <1>4. StoreTypeOK' BY <1>1, <1>2 DEF StoreTypeOK, Goto
  <1>5. Called' BY <1>1, <1>2 DEF Called, StoreTypeOK, Goto
  <1>6. OneEvictionPerCall' BY <1>1, <1>3 DEF OneEvictionPerCall, Again
  <1>7. c = "delete" => oldest'[t] \in known' BY <1>1, <1>2 DEF StoreTypeOK
  <1>8. t \notin crossed => c # "full" BY <1>1, <1>2 DEF Apart
  <1>9. Apart' BY <1>1, <1>2, <1>7, <1>8, StaysApart
  <1> QED BY <1>1, <1>4, <1>5, <1>6, <1>9 DEF Fits

LEMMA DeleteStep == ASSUME WifiInv, NEW t \in Callers, StoreDelete(t) PROVE WifiInv'
  <1> USE DEF WifiInv
  <1>1. /\ at[t] = "delete" /\ UNCHANGED <<ssid, crossed, filled, wasted>>
        /\ oldest' = [oldest EXCEPT ![t] = NoNetwork]
    BY DEF StoreDelete
  <1>2. PICK c \in {"again", "error"} :
          /\ Goto(t, c)
          /\ c = "again" => known' = known \ {oldest[t]}
          /\ c = "error" => UNCHANGED known
    BY DEF StoreDelete
  <1>3. /\ IsFiniteSet(known \ {oldest[t]})
        /\ Cardinality(known \ {oldest[t]}) =
              IF oldest[t] \in known THEN Cardinality(known) - 1 ELSE Cardinality(known)
    BY FS_RemoveElement DEF StoreTypeOK
  <1>4. Cardinality(Again') = IF c = "again" THEN Cardinality(Again) + 1
                                             ELSE Cardinality(Again)
    BY <1>1, <1>2, Waits
  <1>5. /\ known' \subseteq Networks /\ IsFiniteSet(known')
        /\ Cardinality(known') <= Cardinality(known)
        /\ Cardinality(known') >= IF c = "again" THEN Cardinality(known) - 1
                                                 ELSE Cardinality(known)
    BY <1>2, <1>3, Counts DEF StoreTypeOK
  <1>6. StoreTypeOK' BY <1>1, <1>2, <1>5 DEF StoreTypeOK, Goto
  <1>7. Called' BY <1>1, <1>2 DEF Called, StoreTypeOK, Goto
  <1>8. Fits'
    <2>1. Cardinality(known') \in Nat BY <1>5, FS_CardinalityType
    <2> QED BY <1>5, <2>1, Counts DEF Fits
  <1>9. OneEvictionPerCall'
    <2>1. wasted \in Nat /\ Cardinality(known') \in Nat
      BY <1>5, FS_CardinalityType DEF StoreTypeOK
    <2> QED BY <1>1, <1>4, <1>5, <2>1, Counts DEF OneEvictionPerCall, Again
  <1>10. t \notin crossed /\ c = "again" => Cardinality(known') < MaxEntries
    <2> SUFFICES ASSUME t \notin crossed, c = "again"
                 PROVE  Cardinality(known') < MaxEntries
      OBVIOUS
    <2>1. oldest[t] \in known BY <1>1 DEF Apart
    <2>2. Cardinality(known') = Cardinality(known) - 1 BY <1>2, <1>3, <2>1
    <2> QED BY <2>2, Counts DEF Fits
  <1>11. Apart' BY <1>1, <1>2, <1>10, StaysApart
  <1> QED BY <1>6, <1>7, <1>8, <1>9, <1>11

LEMMA AgainStep == ASSUME WifiInv, NEW t \in Callers, StoreSetAgain(t) PROVE WifiInv'
  <1> USE DEF WifiInv
  <1>1. at[t] = "again" /\ UNCHANGED <<ssid, oldest, crossed>> BY DEF StoreSetAgain
  <1>2. ssid[t] \in Networks /\ wasted \in Nat BY <1>1 DEF Called, StoreTypeOK
  <1>3. PICK c \in {"ok", "error", "full"} :
          /\ Goto(t, c)
          /\ c = "ok" => /\ Set(ssid[t])
                         /\ wasted' = IF ssid[t] \in known THEN wasted + 1 ELSE wasted
          /\ c = "full" => ~Room(ssid[t])
          /\ c # "ok" => wasted' = wasted + 1 /\ UNCHANGED <<known, filled>>
    BY DEF StoreSetAgain
  <1>4. Cardinality(Again') = Cardinality(Again) - 1 BY <1>1, <1>3, Waits
  <1>5. /\ known' \subseteq Networks /\ IsFiniteSet(known') /\ filled' \in BOOLEAN
        /\ Cardinality(known') <= MaxEntries /\ wasted' \in Nat
        /\ Cardinality(known') + wasted' = Cardinality(known) + wasted + 1
        /\ filled' => filled \/ Cardinality(known') = MaxEntries
    <2>1. CASE c = "ok" BY <1>2, <1>3, <2>1, Sets, Counts
    <2>2. CASE c # "ok" BY <1>2, <1>3, <2>2, Counts DEF StoreTypeOK, Fits
    <2> QED BY <2>1, <2>2
  <1>6. StoreTypeOK' BY <1>1, <1>3, <1>5 DEF StoreTypeOK, Goto
  <1>7. Called' BY <1>1, <1>3 DEF Called, StoreTypeOK, Goto
  <1>8. OneEvictionPerCall'
    <2>1. IsFiniteSet(Again') /\ Cardinality(Again') \in Nat
      <3>1. Again' \in SUBSET Callers BY DEF Again
      <3>2. IsFiniteSet(Again') BY <3>1, FS_Subset, WifiAssumption
      <3> QED BY <3>2, FS_CardinalityType
    <2>2. Cardinality(known') \in Nat BY <1>5, FS_CardinalityType
    <2> QED BY <1>2, <1>4, <1>5, <2>1, <2>2, Counts DEF OneEvictionPerCall, Again
  <1>9. t \notin crossed => c # "full" BY <1>1, <1>3 DEF Apart, Room
  <1>10. Apart' BY <1>1, <1>3, <1>9, StaysApart
  <1> QED BY <1>5, <1>6, <1>7, <1>8, <1>10 DEF Fits

LEMMA ReturnStep == ASSUME WifiInv, NEW t \in Callers, StoreReturn(t) PROVE WifiInv'
  <1> USE DEF WifiInv
  <1>1. /\ at[t] \in {"ok", "error", "full"} /\ Goto(t, "idle")
        /\ ssid' = [ssid EXCEPT ![t] = NoNetwork] /\ crossed' = crossed \ {t}
        /\ UNCHANGED <<known, oldest, filled, wasted>>
    BY DEF StoreReturn
  <1>2. Cardinality(Again') = Cardinality(Again) BY <1>1, Waits
  <1>3. StoreTypeOK' BY <1>1 DEF StoreTypeOK, Goto
  <1>4. Called' BY <1>1 DEF Called, StoreTypeOK, Goto
  <1>5. OneEvictionPerCall' BY <1>1, <1>2 DEF OneEvictionPerCall, Again
  <1>6. Apart' BY <1>1, StaysApart
  <1> QED BY <1>1, <1>3, <1>4, <1>5, <1>6 DEF Fits

LEMMA ResetStep == ASSUME WifiInv, StoreReset PROVE WifiInv'
  <1> USE DEF WifiInv
  <1>1. /\ at' = [t \in Callers |-> "idle"] /\ UNCHANGED <<known, filled>>
        /\ ssid' = [t \in Callers |-> NoNetwork] /\ oldest' = ssid'
        /\ crossed' = {} /\ wasted' = wasted + Cardinality(Again)
    BY DEF StoreReset, Again
  <1>2. wasted' \in Nat BY <1>1, Counts DEF StoreTypeOK
  <1>3. StoreTypeOK' BY <1>1, <1>2 DEF StoreTypeOK
  <1>4. Called' /\ Apart' /\ Fits' BY <1>1 DEF Called, Apart, Fits
  <1>5. Again' = {} BY <1>1 DEF Again
  <1>6. OneEvictionPerCall'
    <2>1. Cardinality(Again') = 0 BY <1>5, FS_EmptySet
    <2> QED BY <1>1, <2>1, Counts DEF OneEvictionPerCall, Again, StoreTypeOK
  <1> QED BY <1>3, <1>4, <1>6
-----------------------------------------------------------------------------
THEOREM WifiInvariance == StoreSpec => []WifiInv
  <1>1. ASSUME WifiInv, [StoreNext \/ StoreReset]_storeVars PROVE WifiInv'
    <2>1. ASSUME NEW t \in Callers, StoreStep(t) PROVE WifiInv'
      BY <1>1, <2>1, SetStep, PickStep, DeleteStep, AgainStep DEF StoreStep
    <2>2. ASSUME NEW t \in Callers, StoreReturn(t) PROVE WifiInv'
      BY <1>1, <2>2, ReturnStep
    <2>3. ASSUME NEW t \in Callers, NEW n \in Networks, StoreCall(t, n) PROVE WifiInv'
      BY <1>1, <2>3, CallStep
    <2>4. CASE StoreReset BY <1>1, <2>4, ResetStep
    <2>5. CASE UNCHANGED storeVars
      BY <1>1, <2>5 DEF storeVars, WifiInv, StoreTypeOK, Called, Fits, Apart, OneEvictionPerCall
    <2> QED BY <1>1, <2>1, <2>2, <2>3, <2>4, <2>5 DEF StoreNext
  <1> QED BY <1>1, WifiInitInv, PTL DEF StoreSpec

\* "No space left" is only answered to a call that another one ran beside:
\* iotc_wifi.h's promise holds for every call that has the store to itself.
THEOREM NoSpaceIsARace == StoreSpec => []NoSpaceNeedsRace
  <1>1. WifiInv => NoSpaceNeedsRace BY DEF WifiInv, Apart, NoSpaceNeedsRace
  <1> QED BY <1>1, WifiInvariance, PTL

\* Failures, resets and concurrent calls included, no call costs more than
\* one of the other networks.
THEOREM EvictionsAreAccounted == StoreSpec => []OneEvictionPerCall
  <1>1. WifiInv => OneEvictionPerCall BY DEF WifiInv
  <1> QED BY <1>1, WifiInvariance, PTL
-----------------------------------------------------------------------------
(***************************************************************************)
(* The portal over the store.                                              *)
(***************************************************************************)
\* The portal's store calls are WifiStore's, and so is everything else that
\* happens to the store: what is proved of WifiStore holds here.
LEMMA StepsStore == Next => [StoreNext \/ StoreReset]_storeVars
  <1>1. "http" \in Callers /\ "shell" \in Callers BY SoftApAssumption
  <1>2. ASSUME NEW r \in Resources, NEW c, Handle(r, c) PROVE [StoreNext]_storeVars
    BY <1>1, <1>2 DEF Handle, Good, StoreNext
  <1>3. Portal => [StoreNext]_storeVars
    <2>1. HttpStore \/ HttpStored => StoreNext
      BY <1>1 DEF HttpStore, HttpStored, StoreNext
    <2>2. (\E f \in Fields : SaveNext("http", f)) => UNCHANGED storeVars BY DEF SaveNext
    <2>3. ASSUME NEW r \in Resources, PostLast(r) \/ PostEmpty(r)
          PROVE  [StoreNext]_storeVars
      BY <1>2, <2>3 DEF PostLast, PostEmpty
    <2>4. ASSUME NEW r \in Resources, (\E c \in Bodies(r) : PostFirst(r, c)) \/ PostAbort(r)
          PROVE  UNCHANGED storeVars
      BY <2>4 DEF PostFirst, PostAbort
    <2> QED BY <2>1, <2>2, <2>3, <2>4 DEF Portal
  <1>4. Shell => [StoreNext]_storeVars
    <2>1. ShellStore \/ (\E n \in Networks : CmdWifi(n)) => StoreNext
      BY <1>1 DEF ShellStore, CmdWifi, StoreNext
    <2>2. /\ (\E c \in Configs : CmdConfig(c)) => UNCHANGED storeVars
          /\ CmdProvision(Blank) \/ CmdProvision(1) => UNCHANGED storeVars
          /\ (\E f \in Fields : SaveNext("shell", f)) => UNCHANGED storeVars
      BY DEF CmdConfig, CmdProvision, SaveNext
    <2> QED BY <2>1, <2>2 DEF Shell
  <1>5. Main \/ AutoConnect \/ AutoWaited \/ LinkUp \/ LinkDown => UNCHANGED storeVars
    BY DEF Main, Boot, JoinOk, JoinTimeout, AutoConnect, AutoWaited, LinkUp, LinkDown, Others
  <1>6. Reset => StoreReset BY DEF Reset
  <1> QED BY <1>3, <1>4, <1>5, <1>6 DEF Next

THEOREM SoftApUsesStore == Spec => StoreSpec
  <1>1. Init => StoreInit BY DEF Init
  <1>2. [Next]_vars => [StoreNext \/ StoreReset]_storeVars BY StepsStore DEF vars
  <1> QED BY <1>1, <1>2, PTL DEF Spec, StoreSpec
-----------------------------------------------------------------------------
(***************************************************************************)
(* One body buffer per resource: the length is 0 between two requests, so  *)
(* the first piece of a body is written to the front.                      *)
(***************************************************************************)
Texts == Networks \cup {"name", "json", None, Junk, Half}

BodyInv ==
    /\ text \in [Resources -> Texts] /\ sending \in [Resources -> Texts]
    /\ len \in [Resources -> {0, 1}]
    /\ \A r \in Resources : /\ sending[r] = None => len[r] = 0
                            /\ sending[r] # None => text[r] = Half
    /\ HandlesOwnBody

LEMMA BodyStep == BodyInv /\ [Next]_vars => BodyInv'
  <1> SUFFICES ASSUME BodyInv, [Next]_vars PROVE BodyInv' OBVIOUS
  <1>1. ASSUME NEW r \in Resources, NEW c \in Bodies(r)
        PROVE  c \in Texts /\ c \notin {None, Half}
    BY SoftApAssumption DEF Bodies, Good, Texts, Junk, None, Half, Resources
  <1>2. None \in Texts /\ Junk \in Texts /\ Half \in Texts /\ None # Half BY DEF Texts, None, Half
  <1>3. ASSUME NEW r \in Resources, NEW c \in Bodies(r), PostFirst(r, c) PROVE BodyInv'
    <2>1. /\ text' = [text EXCEPT ![r] = Half] /\ len' = [len EXCEPT ![r] = 1]
          /\ sending' = [sending EXCEPT ![r] = c] /\ misread' = misread
      BY <1>3 DEF PostFirst, BodyInv
    <2> QED BY <1>1, <1>2, <2>1 DEF BodyInv, HandlesOwnBody
  <1>4. ASSUME NEW r \in Resources, PostAbort(r) PROVE BodyInv'
    BY <1>2, <1>4 DEF PostAbort, BodyInv, HandlesOwnBody
  <1>5. ASSUME NEW r \in Resources, PostLast(r) PROVE BodyInv'
    <2>1. /\ text' = [text EXCEPT ![r] = sending[r]] /\ len' = [len EXCEPT ![r] = 0]
          /\ sending' = [sending EXCEPT ![r] = None]
      BY <1>5 DEF PostLast, BodyInv
    <2>2. text'[r] = sending[r] BY <2>1 DEF BodyInv
    <2>3. ~misread' BY <1>5, <2>2, Zenon DEF PostLast, BodyInv, HandlesOwnBody
    <2>4. \A q \in Resources : sending'[q] # None => text'[q] = Half
      BY <2>1 DEF BodyInv
    <2> QED BY <1>2, <2>1, <2>3, <2>4 DEF BodyInv, HandlesOwnBody
  <1>6. CASE Reset
    <2>1. /\ text' = [r \in Resources |-> Junk] /\ len' = [r \in Resources |-> 0]
          /\ sending' = [r \in Resources |-> None] /\ misread' = misread
      BY <1>6 DEF Reset
    <2> QED BY <1>2, <2>1 DEF BodyInv, HandlesOwnBody
  <1>7. CASE UNCHANGED portalVars
    BY <1>7 DEF portalVars, BodyInv, HandlesOwnBody
  <1>8. Portal => \/ UNCHANGED portalVars
                  \/ \E r \in Resources :
                        (\E c \in Bodies(r) : PostFirst(r, c)) \/ PostAbort(r) \/ PostLast(r)
    BY DEF Portal, HttpStore, HttpStored, SaveNext, PostEmpty
  <1>9. Shell \/ Main \/ AutoConnect \/ AutoWaited \/ LinkUp \/ LinkDown => UNCHANGED portalVars
    BY DEF Shell, CmdWifi, CmdConfig, CmdProvision, ShellStore, SaveNext, Main, Boot, JoinOk,
       JoinTimeout, AutoConnect, AutoWaited, LinkUp, LinkDown, Others
  <1> QED BY <1>3, <1>4, <1>5, <1>6, <1>7, <1>8, <1>9 DEF Next, vars

\* However requests are cut and interleaved, a body is handled as it was sent.
THEOREM BodiesAreTheirOwn == Spec => []HandlesOwnBody
  <1>1. Init => BodyInv
    BY DEF Init, BodyInv, HandlesOwnBody, Texts, None, Junk, Half
  <1>2. BodyInv => HandlesOwnBody BY DEF BodyInv
  <1> QED BY <1>1, <1>2, BodyStep, PTL DEF Spec
-----------------------------------------------------------------------------
(***************************************************************************)
(* What the threads save.                                                  *)
(***************************************************************************)
Kinds(f) == IF f \in Names THEN {0, 1, Blank} ELSE Nat

SaveTypes ==
    /\ gens \in Nat
    /\ alone \in [Callers -> BOOLEAN] /\ torn \in BOOLEAN /\ unsaved \in BOOLEAN
    /\ stored \in [Fields -> Int] /\ \A f \in Fields : stored[f] \in Kinds(f)
    /\ due \in [Callers -> [Fields -> Int]]
    /\ \A t \in Callers : /\ \A f \in Fields : due[t][f] \in Kinds(f)
                          /\ due[t]["cert"] \in {0, due[t]["key"]}

\* A provisioning that ran alone so far is the only one, and when the key is
\* all it has left its certificate is the one in flash.
PairInv ==
    /\ PairMatches
    /\ \A t \in Callers : Provisioning(t) /\ alone[t] =>
          /\ \A u \in Callers : u # t => ~Provisioning(u)
          /\ HalfPair(t) => stored["cert"] = due[t]["key"]

\* What a provisioning has saved already is in flash, if all saves succeeded,
\* and so are the parts of the setup that were answered.
ThereInv ==
    ~unsaved =>
        /\ \A t \in Callers, f \in {"duid", "cert"} :
              Provisioning(t) /\ due[t][f] = 0 => stored[f] # 0
        /\ "provision" \in answered => \A f \in {"duid", "cert", "key"} : stored[f] # 0
        /\ \A f \in {"cpid", "env"} : f \in answered => stored[f] # 0

SaveInv == SaveTypes /\ PairInv /\ ThereInv

LEMMA FieldsAre == Names = {"duid", "cpid", "env"} /\ Fields = {"duid", "cpid", "env", "cert", "key"}
  BY DEF Names, Fields

LEMMA QuietKeeps ==
    ASSUME SaveInv, UNCHANGED saveVars, answered' \in {answered, answered \cup {"wifi"}}
    PROVE  SaveInv'
  <1>1. UNCHANGED <<due, stored, alone, torn, unsaved, gens>> BY DEF saveVars
  <1>2. SaveTypes' BY <1>1 DEF SaveInv, SaveTypes, Kinds
  <1>3. PairInv' BY <1>1 DEF SaveInv, PairInv, PairMatches, HalfPair, Provisioning
  <1>4. ThereInv' BY <1>1 DEF SaveInv, ThereInv, Provisioning
  <1> QED BY <1>2, <1>3, <1>4 DEF SaveInv

\* A handler or a command that has something to save starts with nothing due.
LEMMA StartTypes ==
    ASSUME SaveInv, NEW t \in Callers, NEW d \in [Fields -> Int], StartSaves(t, d),
           \A f \in Fields : d[f] \in Kinds(f), d["cert"] \in {0, d["key"]},
           gens' \in Nat, alone' \in [Callers -> BOOLEAN]
    PROVE  SaveTypes' /\ \A u \in Callers : due'[u] = IF u = t THEN d ELSE due[u]
  <1>1. \A u \in Callers : due'[u] = IF u = t THEN d ELSE due[u]
    BY DEF StartSaves, SaveInv, SaveTypes
  <1>2. due' \in [Callers -> [Fields -> Int]] BY DEF StartSaves, SaveInv, SaveTypes
  <1>3. UNCHANGED <<stored, torn, unsaved>> BY DEF StartSaves
  <1> QED BY <1>1, <1>2, <1>3 DEF SaveInv, SaveTypes, Kinds

\* A configuration has neither a certificate nor a key.
LEMMA ConfigStep ==
    ASSUME SaveInv, NEW t \in Callers, \A f \in Fields : due[t][f] = 0, UNCHANGED answered,
           NEW c \in Configs, ApplyConfig(t, c)
    PROVE  SaveInv'
  <1> DEFINE d == [f \in Fields |-> IF f \in Names THEN c[f] ELSE 0]
  <1>1. /\ StartSaves(t, d) /\ UNCHANGED <<alone, gens>>
        /\ UNCHANGED <<stored, torn, unsaved>>
    BY DEF ApplyConfig, StartSaves
  <1>2. /\ d \in [Fields -> Int] /\ \A f \in Fields : d[f] \in Kinds(f)
        /\ d["cert"] = 0 /\ d["key"] = 0
    BY FieldsAre, SoftApAssumption DEF Kinds, Blank
  <1> HIDE DEF d
  <1>3. SaveTypes' /\ \A u \in Callers : due'[u] = IF u = t THEN d ELSE due[u]
    BY <1>1, <1>2, StartTypes DEF SaveInv, SaveTypes
  <1>4. \A u \in Callers : /\ Provisioning(u)' <=> Provisioning(u)
                           /\ HalfPair(u)' <=> HalfPair(u)
                           /\ Provisioning(u) => due'[u] = due[u]
    BY <1>2, <1>3, FieldsAre DEF Provisioning, HalfPair
  <1>5. PairInv'
    BY <1>1, <1>4 DEF SaveInv, PairInv, PairMatches
  <1>6. ThereInv' BY <1>1, <1>4 DEF SaveInv, ThereInv
  <1> QED BY <1>3, <1>5, <1>6 DEF SaveInv

\* A provisioning ends any claim of another one to run alone.
LEMMA ProvisionStep ==
    ASSUME SaveInv, NEW t \in Callers, \A f \in Fields : due[t][f] = 0, UNCHANGED answered,
           NEW cpid \in {0, 1, Blank}, NEW env \in {0, 1, Blank}, Provision(t, cpid, env)
    PROVE  SaveInv'
  <1> DEFINE d == [duid |-> 1, cpid |-> cpid, env |-> env, cert |-> gens + 1, key |-> gens + 1]
             others == {u \in Callers \ {t} : Provisioning(u)}
  <1>1. /\ StartSaves(t, d) /\ gens' = gens + 1
        /\ alone' = [u \in Callers |-> IF u = t THEN others = {} ELSE alone[u] /\ u \notin others]
        /\ UNCHANGED <<stored, torn, unsaved>>
    BY DEF Provision, StartSaves
  <1>2. gens \in Nat /\ alone \in [Callers -> BOOLEAN] BY DEF SaveInv, SaveTypes
  <1>3. /\ d \in [Fields -> Int] /\ \A f \in Fields : d[f] \in Kinds(f)
        /\ d["cert"] = d["key"] /\ d["cert"] # 0 /\ d["duid"] # 0
    BY <1>2, FieldsAre DEF Kinds, Blank
  <1> HIDE DEF d
  <1>4. alone' \in [Callers -> BOOLEAN] BY <1>1, <1>2, Zenon
  <1>5. SaveTypes' /\ \A u \in Callers : due'[u] = IF u = t THEN d ELSE due[u]
    BY <1>1, <1>2, <1>3, <1>4, StartTypes
  <1>6. \A u \in Callers :
           IF u = t THEN ~Provisioning(u) /\ ~HalfPair(u) /\ due'[u] = d
                    ELSE due'[u] = due[u]
    BY <1>5, FieldsAre DEF Provisioning, HalfPair
  <1>7. \A u \in Callers : IF u = t THEN ~HalfPair(u)'
                          ELSE /\ Provisioning(u)' <=> Provisioning(u)
                               /\ HalfPair(u)' <=> HalfPair(u)
    BY <1>3, <1>6 DEF Provisioning, HalfPair
  <1>8. PairMatches' BY <1>1, <1>6, <1>7 DEF SaveInv, PairInv, PairMatches
  <1>9. ASSUME NEW u \in Callers, Provisioning(u)', alone'[u]
        PROVE  /\ \A w \in Callers : w # u => ~Provisioning(w)'
               /\ HalfPair(u)' => stored'["cert"] = due'[u]["key"]
    <2>1. CASE u = t
      <3>1. others = {} BY <1>1, <1>9, <2>1
      <3>2. \A w \in Callers : w # t => ~Provisioning(w) BY <3>1
      <3>3. \A w \in Callers : w # t => ~Provisioning(w)' BY <1>7, <3>2
      <3>4. ~HalfPair(u)' BY <1>7, <2>1
      <3> QED BY <2>1, <3>3, <3>4
    <2>2. CASE u # t
      <3>1. u \notin others BY <1>1, <1>9, <2>2
      <3>2. ~Provisioning(u) BY <2>2, <3>1
      <3>3. \A w \in Callers : w # t => (Provisioning(w)' <=> Provisioning(w)) BY <1>7
      <3> QED BY <1>9, <2>2, <3>2, <3>3
    <2> QED BY <2>1, <2>2
  <1>10. PairInv' BY <1>8, <1>9 DEF PairInv
  <1>11. ThereInv'
    <2>1. \A u \in Callers, f \in {"duid", "cert"} : u = t => due'[u][f] # 0
      BY <1>3, <1>6
    <2>2. \A u \in Callers, f \in {"duid", "cert"} :
             Provisioning(u)' /\ due'[u][f] = 0 => Provisioning(u) /\ due[u][f] = 0
      BY <1>6, <1>7, <2>1
    <2> QED BY <1>1, <2>2 DEF SaveInv, ThereInv
  <1> QED BY <1>5, <1>10, <1>11 DEF SaveInv

\* One field is saved, or fails to be.
LEMMA SaveOne ==
    ASSUME SaveInv, NEW t \in Callers, NEW f \in Fields, SaveNext(t, f)
    PROVE  /\ due[t][f] # 0 /\ SaveTypes'
           /\ \A u \in Callers, e \in Fields :
                 due'[u][e] = IF u = t /\ e = f THEN 0 ELSE due[u][e]
           /\ \A e \in Fields : stored'[e] \in {stored[e], IF e = f THEN due[t][e] ELSE stored[e]}
           /\ \A e \in Fields : stored[e] # 0 => stored'[e] # 0
           /\ unsaved' \/ (stored'[f] = due[t][f] /\ unsaved' = unsaved)
           /\ f = "key" => due[t]["duid"] = 0 /\ due[t]["cert"] = 0
  <1>1. /\ due' = [due EXCEPT ![t] = [due[t] EXCEPT ![f] = 0]] /\ gens' = gens /\ due[t][f] # 0
        /\ \/ /\ stored' = [stored EXCEPT ![f] = due[t][f]]
              /\ torn' = IF f = "key" THEN ~alone[t] ELSE torn
              /\ UNCHANGED <<alone, unsaved>>
           \/ /\ unsaved' = TRUE /\ torn' = (torn \/ f = "key")
              /\ alone' = [alone EXCEPT ![t] = alone[t] /\ f # "cert"]
              /\ UNCHANGED stored
    BY DEF SaveNext
  <1>2. /\ due \in [Callers -> [Fields -> Int]] /\ stored \in [Fields -> Int]
        /\ alone \in [Callers -> BOOLEAN] /\ torn \in BOOLEAN /\ unsaved \in BOOLEAN
    BY DEF SaveInv, SaveTypes
  <1>3. /\ due' \in [Callers -> [Fields -> Int]]
        /\ \A u \in Callers, e \in Fields :
              due'[u][e] = IF u = t /\ e = f THEN 0 ELSE due[u][e]
    BY <1>1, <1>2
  <1>4. stored' = stored \/ stored' = [stored EXCEPT ![f] = due[t][f]] BY <1>1
  <1>5. stored' \in [Fields -> Int] BY <1>2, <1>4
  <1>6. \A e \in Fields : stored'[e] \in {stored[e], IF e = f THEN due[t][e] ELSE stored[e]}
    BY <1>2, <1>4
  <1>7. torn' \in BOOLEAN /\ unsaved' \in BOOLEAN /\ alone' \in [Callers -> BOOLEAN]
    <2>1. torn' \in BOOLEAN
      <3>1. alone[t] \in BOOLEAN BY <1>2
      <3> QED BY <1>1, <1>2, <3>1, Zenon
    <2>2. alone' \in [Callers -> BOOLEAN] BY <1>1, <1>2, Zenon
    <2> QED BY <1>1, <1>2, <2>1, <2>2
  <1>8. SaveTypes'
    <2>1. \A e \in Fields : stored'[e] \in Kinds(e) BY <1>6 DEF SaveInv, SaveTypes
    <2>2. \A u \in Callers, e \in Fields : due'[u][e] \in Kinds(e)
      <3>1. \A e \in Fields : 0 \in Kinds(e) BY DEF Kinds
      <3> QED BY <1>3, <3>1 DEF SaveInv, SaveTypes
    <2>3. \A u \in Callers : due'[u]["cert"] \in {0, due'[u]["key"]}
      <3> SUFFICES ASSUME NEW u \in Callers PROVE due'[u]["cert"] \in {0, due'[u]["key"]}
        OBVIOUS
      <3>1. "cert" \in Fields /\ "key" \in Fields BY FieldsAre
      <3>2. due[u]["cert"] \in {0, due[u]["key"]} BY DEF SaveInv, SaveTypes
      <3>3. u = t /\ f = "key" => due[u]["cert"] = 0
        <4> SUFFICES ASSUME u = t, f = "key", due[u]["cert"] # 0 PROVE FALSE OBVIOUS
        <4>1. Place(t)["key"] <= Place(t)["cert"] BY <3>1 DEF SaveNext
        <4> QED BY <4>1 DEF Place
      <3> QED BY <1>3, <3>1, <3>2, <3>3
    <2>4. Kinds("duid")' = Kinds("duid") BY DEF Kinds
    <2> QED BY <1>1, <1>3, <1>5, <1>7, <2>1, <2>2, <2>3 DEF SaveInv, SaveTypes, Kinds
  <1>9. f = "key" => due[t]["duid"] = 0 /\ due[t]["cert"] = 0
    <2> SUFFICES ASSUME f = "key", NEW e \in {"duid", "cert"}, due[t][e] # 0 PROVE FALSE
      OBVIOUS
    <2>1. Place(t)["key"] <= Place(t)[e] BY FieldsAre DEF SaveNext
    <2> QED BY <2>1 DEF Place
  <1>10. unsaved' \/ (stored'[f] = due[t][f] /\ unsaved' = unsaved) BY <1>1, <1>2
  <1>11. \A e \in Fields : stored[e] # 0 => stored'[e] # 0 BY <1>1, <1>6
  <1> QED BY <1>1, <1>3, <1>6, <1>8, <1>9, <1>10, <1>11

\* The key goes last: while it is due, the certificate before it decides.
LEMMA SavePairStep ==
    ASSUME SaveInv, NEW t \in Callers, NEW f \in Fields, SaveNext(t, f)
    PROVE  PairInv'
  <1>1. /\ due[t][f] # 0
        /\ \A u \in Callers, e \in Fields :
              due'[u][e] = IF u = t /\ e = f THEN 0 ELSE due[u][e]
        /\ f = "key" => due[t]["cert"] = 0
    BY SaveOne
  <1>2. \/ /\ stored' = [stored EXCEPT ![f] = due[t][f]]
           /\ torn' = IF f = "key" THEN ~alone[t] ELSE torn
           /\ UNCHANGED <<alone, unsaved>>
        \/ /\ torn' = (torn \/ f = "key")
           /\ alone' = [alone EXCEPT ![t] = alone[t] /\ f # "cert"]
           /\ UNCHANGED stored
    BY DEF SaveNext
  <1>3. /\ "cert" \in Fields /\ "key" \in Fields /\ stored \in [Fields -> Int]
        /\ alone \in [Callers -> BOOLEAN] /\ torn \in BOOLEAN
    BY FieldsAre DEF SaveInv, SaveTypes
  <1>4. \A u \in Callers : due[u]["cert"] \in {0, due[u]["key"]} BY DEF SaveInv, SaveTypes
  <1>5. \A u \in Callers : u # t \/ f \notin {"cert", "key"} =>
           /\ Provisioning(u)' <=> Provisioning(u)
           /\ HalfPair(u)' <=> HalfPair(u)
           /\ due'[u]["key"] = due[u]["key"]
    BY <1>1, <1>3 DEF Provisioning, HalfPair
  <1>6. CASE f \notin {"cert", "key"}
    <2>1. stored'["cert"] = stored["cert"] /\ stored'["key"] = stored["key"]
      BY <1>2, <1>3, <1>6
    <2>2. torn' = torn BY <1>2, <1>3, <1>6, Zenon
    <2>3. \A u \in Callers : alone'[u] => alone[u] BY <1>2, <1>3
    <2> QED BY <1>5, <1>6, <2>1, <2>2, <2>3 DEF SaveInv, PairInv, PairMatches
  <1>7. CASE f = "cert"
    <2>1. Provisioning(t) /\ due[t]["cert"] = due[t]["key"] /\ HalfPair(t)' /\ Provisioning(t)'
      BY <1>1, <1>3, <1>4, <1>7 DEF Provisioning, HalfPair
    <2>2. PairMatches' BY <2>1 DEF PairMatches
    <2>3. alone'[t] => alone[t] /\ stored'["cert"] = due'[t]["key"]
      BY <1>1, <1>2, <1>3, <1>7, <2>1
    <2>4. \A u \in Callers : u # t => ~(Provisioning(u)' /\ alone'[u])
      <3>1. \A u \in Callers : u # t => alone'[u] = alone[u] BY <1>2, <1>3
      <3> QED BY <1>5, <2>1, <3>1 DEF SaveInv, PairInv
    <2>5. alone'[t] => \A u \in Callers : u # t => ~Provisioning(u)'
      BY <1>5, <2>1, <2>3 DEF SaveInv, PairInv
    <2> QED BY <2>2, <2>3, <2>4, <2>5 DEF PairInv
  <1>8. CASE f = "key"
    <2>1. Provisioning(t) /\ HalfPair(t) /\ ~Provisioning(t)'
      BY <1>1, <1>3, <1>8 DEF Provisioning, HalfPair
    <2>2. \A u \in Callers : u # t => alone'[u] = alone[u] BY <1>2, <1>3
    <2>3. PairMatches'
      <3>1. ASSUME ~torn' PROVE stored'["cert"] = stored'["key"]
        <4>1. alone[t] /\ stored' = [stored EXCEPT ![f] = due[t][f]]
          BY <1>2, <1>8, <3>1
        <4>2. stored["cert"] = due[t]["key"] BY <2>1, <4>1 DEF SaveInv, PairInv
        <4> QED BY <1>3, <1>8, <4>1, <4>2
      <3> QED BY <3>1 DEF PairMatches
    <2>4. \A u \in Callers : u # t => ~(Provisioning(u)' /\ alone'[u])
      BY <1>5, <2>1, <2>2 DEF SaveInv, PairInv
    <2> QED BY <2>1, <2>3, <2>4 DEF PairInv
  <1> QED BY <1>6, <1>7, <1>8

\* A part that is answered has been saved, or its save has failed.
LEMMA SaveThereStep ==
    ASSUME SaveInv, NEW t \in Callers, NEW f \in Fields, SaveNext(t, f)
    PROVE  ThereInv'
  <1> SUFFICES ASSUME ~unsaved'
               PROVE  /\ \A u \in Callers, e \in {"duid", "cert"} :
                            Provisioning(u)' /\ due'[u][e] = 0 => stored'[e] # 0
                      /\ "provision" \in answered' => \A e \in {"duid", "cert", "key"} : stored'[e] # 0
                      /\ \A e \in {"cpid", "env"} : e \in answered' => stored'[e] # 0
    BY DEF ThereInv
  <1>1. /\ due[t][f] # 0 /\ stored'[f] = due[t][f] /\ ~unsaved
        /\ \A u \in Callers, e \in Fields :
              due'[u][e] = IF u = t /\ e = f THEN 0 ELSE due[u][e]
        /\ \A e \in Fields : stored[e] # 0 => stored'[e] # 0
        /\ f = "key" => due[t]["duid"] = 0 /\ due[t]["cert"] = 0
    BY SaveOne
  <1>2. /\ \A u \in Callers, e \in {"duid", "cert"} :
              Provisioning(u) /\ due[u][e] = 0 => stored[e] # 0
        /\ "provision" \in answered => \A e \in {"duid", "cert", "key"} : stored[e] # 0
        /\ \A e \in {"cpid", "env"} : e \in answered => stored[e] # 0
    BY <1>1 DEF SaveInv, ThereInv
  <1>3. "duid" \in Fields /\ "cert" \in Fields /\ "key" \in Fields /\ "cpid" \in Fields
        /\ "env" \in Fields
    BY FieldsAre
  <1>4. \A u \in Callers : Provisioning(u)' => Provisioning(u) BY <1>1, <1>3 DEF Provisioning
  <1>5. \A u \in Callers, e \in {"duid", "cert"} :
           Provisioning(u)' /\ due'[u][e] = 0 => stored'[e] # 0
    BY <1>1, <1>2, <1>3, <1>4
  <1>6. /\ "provision" \in answered' => "provision" \in answered \/ f = "key"
        /\ \A e \in {"cpid", "env"} : e \in answered' => e \in answered \/ e = f
    BY DEF SaveNext, Answered
  <1>7. f = "key" => Provisioning(t) BY <1>1 DEF Provisioning
  <1>8. "provision" \in answered' => \A e \in {"duid", "cert", "key"} : stored'[e] # 0
    BY <1>1, <1>2, <1>3, <1>6, <1>7
  <1>9. \A e \in {"cpid", "env"} : e \in answered' => stored'[e] # 0
    BY <1>1, <1>2, <1>3, <1>6
  <1> QED BY <1>5, <1>8, <1>9

\* A reset forgets what was due, and leaves a trace of a pair it cut.
LEMMA ResetSaves == ASSUME SaveInv, Reset PROVE SaveInv'
  <1>1. /\ due' = [t \in Callers |-> [f \in Fields |-> 0]]
        /\ torn' = (torn \/ \E t \in Callers : HalfPair(t))
        /\ UNCHANGED <<stored, alone, unsaved, gens, answered>>
    BY DEF Reset
  <1>2. \A t \in Callers, f \in Fields : due'[t][f] = 0 BY <1>1
  <1>3. "cert" \in Fields /\ "key" \in Fields BY FieldsAre
  <1>4. SaveTypes'
    <2>1. torn' \in BOOLEAN BY <1>1, Zenon DEF SaveInv, SaveTypes
    <2>2. \A f \in Fields : 0 \in Kinds(f) BY DEF Kinds
    <2>3. due' \in [Callers -> [Fields -> Int]] BY <1>1
    <2>4. \A t \in Callers : /\ \A f \in Fields : due'[t][f] \in Kinds(f)
                             /\ due'[t]["cert"] \in {0, due'[t]["key"]}
      BY <1>2, <1>3, <2>2
    <2> QED BY <1>1, <2>1, <2>3, <2>4 DEF SaveInv, SaveTypes, Kinds
  <1>5. \A t \in Callers : ~Provisioning(t)' BY <1>2, <1>3 DEF Provisioning
  <1>6. PairMatches' BY <1>1, Zenon DEF SaveInv, PairInv, PairMatches
  <1>7. PairInv' BY <1>5, <1>6 DEF PairInv
  <1>8. ThereInv' BY <1>1, <1>5 DEF SaveInv, ThereInv
  <1> QED BY <1>4, <1>7, <1>8 DEF SaveInv

LEMMA SaveStep == SaveInv /\ [Next]_vars => SaveInv'
  <1> SUFFICES ASSUME SaveInv, [Next]_vars PROVE SaveInv' OBVIOUS
  <1>1. "http" \in Callers /\ "shell" \in Callers BY SoftApAssumption
  <1>2. ASSUME NEW t \in Callers, NEW f \in Fields, SaveNext(t, f) PROVE SaveInv'
    BY <1>2, SaveOne, SavePairStep, SaveThereStep DEF SaveInv
  <1>3. ASSUME NEW r \in Resources, NEW c, ~Busy("http"), Handle(r, c), UNCHANGED answered
        PROVE  SaveInv'
    <2>1. \A f \in Fields : due["http"][f] = 0 BY <1>3 DEF Busy
    <2>2. CASE UNCHANGED saveVars BY <1>3, <2>2, QuietKeeps
    <2>3. CASE Provision("http", 0, 0) BY <1>1, <1>3, <2>1, <2>3, ProvisionStep
    <2>4. CASE \E j \in Configs : ApplyConfig("http", j)
      BY <1>1, <1>3, <2>1, <2>4, ConfigStep
    <2> QED BY <1>3, <2>2, <2>3, <2>4 DEF Handle, KeygenFails
  <1>4. CASE Portal
    <2>1. ASSUME NEW r \in Resources, PostLast(r) \/ PostEmpty(r) PROVE SaveInv'
      BY <1>3, <2>1 DEF PostLast, PostEmpty, Serving
    <2>2. ASSUME NEW r \in Resources, (\E c \in Bodies(r) : PostFirst(r, c)) \/ PostAbort(r)
          PROVE  SaveInv'
      BY <2>2, QuietKeeps DEF PostFirst, PostAbort
    <2>3. HttpStore \/ HttpStored => SaveInv'
      BY QuietKeeps DEF HttpStore, HttpStored
    <2> QED BY <1>1, <1>2, <1>4, <2>1, <2>2, <2>3 DEF Portal
  <1>5. CASE Shell
    <2>1. ASSUME NEW c \in Configs, CmdConfig(c) PROVE SaveInv'
      BY <1>1, <2>1, ConfigStep DEF CmdConfig, Busy
    <2>2. ASSUME NEW v \in {1, Blank}, CmdProvision(v) PROVE SaveInv'
      <3>1. (\A f \in Fields : due["shell"][f] = 0) /\ UNCHANGED answered
        BY <2>2 DEF CmdProvision, Busy
      <3>2. CASE UNCHANGED saveVars BY <3>1, <3>2, QuietKeeps
      <3>3. CASE Provision("shell", v, 1) BY <1>1, <3>1, <3>3, ProvisionStep
      <3> QED BY <2>2, <3>2, <3>3 DEF CmdProvision, KeygenFails
    <2>3. CASE ShellStore \/ \E n \in Networks : CmdWifi(n)
      BY <2>3, QuietKeeps DEF ShellStore, CmdWifi
    <2> QED BY <1>1, <1>2, <1>5, <2>1, <2>2, <2>3 DEF Shell
  <1>6. CASE Main \/ AutoConnect \/ AutoWaited \/ LinkUp \/ LinkDown
    BY <1>6, QuietKeeps DEF Main, Boot, JoinOk, JoinTimeout, AutoConnect, AutoWaited, LinkUp,
       LinkDown, Others
  <1>7. CASE Reset BY <1>7, ResetSaves
  <1>8. CASE UNCHANGED vars BY <1>8, QuietKeeps DEF vars
  <1> QED BY <1>4, <1>5, <1>6, <1>7, <1>8 DEF Next

THEOREM SaveInvariance == Spec => []SaveInv
  <1>1. Init => SaveInv
    <2> SUFFICES ASSUME Init PROVE SaveInv OBVIOUS
    <2>1. /\ due = [t \in Callers |-> [f \in Fields |-> 0]]
          /\ alone = [t \in Callers |-> FALSE] /\ torn = FALSE /\ unsaved = FALSE
          /\ stored = [f \in Fields |-> IF f \in {"cpid", "env"} \ answered THEN 0
                                         ELSE IF "provision" \in answered THEN 1 ELSE 0]
          /\ gens = IF "provision" \in answered THEN 1 ELSE 0
          /\ answered \in {{}, {"wifi"}, {"provision", "cpid"}, Setup \ {"wifi"}, Setup}
      BY DEF Init
    <2>2. \A f \in {"cpid", "env"} : f \in answered => "provision" \in answered
      BY <2>1 DEF Setup
    <2>3. /\ \A f \in Fields : stored[f] \in {0, 1}
          /\ stored["cert"] = stored["key"]
          /\ "provision" \in answered => \A f \in {"duid", "cert", "key"} : stored[f] # 0
          /\ \A f \in {"cpid", "env"} : f \in answered => stored[f] # 0
      BY <2>1, <2>2, FieldsAre
    <2>4. \A t \in Callers, f \in Fields : due[t][f] = 0 BY <2>1
    <2>5. SaveTypes
      <3>1. \A f \in Fields : {0, 1} \subseteq Kinds(f) BY DEF Kinds
      <3>2. alone \in [Callers -> BOOLEAN] /\ gens \in Nat BY <2>1
      <3>3. stored \in [Fields -> Int] /\ due \in [Callers -> [Fields -> Int]] BY <2>1
      <3>4. \A t \in Callers : due[t]["cert"] = 0 BY <2>4, FieldsAre
      <3> QED BY <2>1, <2>3, <2>4, <3>1, <3>2, <3>3, <3>4 DEF SaveTypes
    <2>6. \A t \in Callers : ~Provisioning(t) BY <2>4, FieldsAre DEF Provisioning
    <2> QED BY <2>3, <2>5, <2>6 DEF SaveInv, PairInv, PairMatches, ThereInv
  <1> QED BY <1>1, SaveStep, PTL DEF Spec

\* Certificate and key are a pair, unless something left a trace.
THEOREM CertificateFitsKey == Spec => []PairMatches
  <1>1. SaveInv => PairMatches BY DEF SaveInv, PairInv
  <1> QED BY <1>1, SaveInvariance, PTL
-----------------------------------------------------------------------------
(***************************************************************************)
(* What was stored once is there, was evicted for nothing, or is missing   *)
(* because its place is being taken.                                       *)
(***************************************************************************)
Kept == wasted > 0 \/ known # {} \/ Again # {}

KeptInv ==
    (\E t \in Callers : at[t] = "ok") \/ "wifi" \in answered => Kept

\* Nothing is lost without a trace ...
LEMMA KeptStays ==
    ASSUME WifiInv, [StoreNext \/ StoreReset]_storeVars, Kept PROVE Kept'
  <1>1. wasted \in Nat /\ Cardinality(Again) \in Nat /\ IsFiniteSet(Again)
    BY Counts DEF WifiInv, StoreTypeOK
  <1>2. ASSUME NEW t \in Callers, StoreStep(t) PROVE Kept'
    <2>1. CASE StoreSet(t)
      <3>1. known \subseteq known' /\ wasted' = wasted /\ Again \subseteq Again'
        BY <2>1 DEF StoreSet, Set, Goto, Again, WifiInv, StoreTypeOK
      <3> QED BY <3>1 DEF Kept
    <2>2. CASE StorePick(t)
      <3>1. known' = known /\ wasted' = wasted /\ Again \subseteq Again'
        BY <2>2 DEF StorePick, Goto, Again, WifiInv, StoreTypeOK
      <3> QED BY <3>1 DEF Kept
    <2>3. CASE StoreDelete(t)
      <3>1. wasted' = wasted /\ Again \subseteq Again'
        BY <2>3 DEF StoreDelete, Goto, Again, WifiInv, StoreTypeOK
      <3>2. t \in Again' \/ known' = known
        BY <2>3 DEF StoreDelete, Goto, Again, WifiInv, StoreTypeOK
      <3> QED BY <3>1, <3>2 DEF Kept
    <2>4. CASE StoreSetAgain(t)
      <3>1. (ssid[t] \in known') \/ wasted' > 0
        BY <1>1, <2>4 DEF StoreSetAgain, Set
      <3> QED BY <3>1 DEF Kept
    <2> QED BY <1>2, <2>1, <2>2, <2>3, <2>4 DEF StoreStep
  <1>3. ASSUME NEW t \in Callers,
               StoreReturn(t) \/ \E n \in Networks : StoreCall(t, n)
        PROVE  Kept'
    <2>1. known' = known /\ wasted' = wasted /\ Again \subseteq Again'
      BY <1>3 DEF StoreReturn, StoreCall, Goto, Again, WifiInv, StoreTypeOK
    <2> QED BY <2>1 DEF Kept
  <1>4. CASE StoreReset
    <2>1. known' = known /\ wasted' = wasted + Cardinality(Again)
      BY <1>4 DEF StoreReset, Again
    <2>2. Again # {} => Cardinality(Again) > 0 BY <1>1, FS_EmptySet
    <2> QED BY <1>1, <2>1, <2>2 DEF Kept
  <1>5. CASE UNCHANGED storeVars BY <1>5 DEF storeVars, Kept, Again
  <1> QED BY <1>2, <1>3, <1>4, <1>5 DEF StoreNext

\* ... a call that is answered "stored" has stored ...
LEMMA OkIsKept ==
    ASSUME WifiInv, KeptInv, [StoreNext \/ StoreReset]_storeVars,
           NEW u \in Callers, at'[u] = "ok"
    PROVE  Kept'
  <1>1. at[u] = "ok" => Kept' BY KeptStays DEF KeptInv
  <1>2. ASSUME at[u] # "ok" PROVE Kept'
    <2>1. StoreSet(u) \/ StoreSetAgain(u)
      BY <1>2 DEF StoreNext, StoreStep, StoreSet, StorePick, StoreDelete, StoreSetAgain,
         StoreReturn, StoreCall, StoreReset, Goto, storeVars, WifiInv, StoreTypeOK
    <2>2. Set(ssid[u])
      BY <1>2, <2>1 DEF StoreSet, StoreSetAgain, Goto, WifiInv, StoreTypeOK
    <2> QED BY <2>2 DEF Set, Kept
  <1> QED BY <1>1, <1>2

\* ... and the portal answers 200 to no other.
LEMMA KeptStep == WifiInv /\ KeptInv /\ [Next]_vars => KeptInv'
  <1> SUFFICES ASSUME WifiInv, KeptInv, [Next]_vars PROVE KeptInv' OBVIOUS
  <1>1. [StoreNext \/ StoreReset]_storeVars BY StepsStore DEF vars
  <1>2. "http" \in Callers BY SoftApAssumption
  <1>3. "wifi" \in answered' => "wifi" \in answered \/ at["http"] = "ok"
    <2>1. Portal => ("wifi" \in answered' => "wifi" \in answered \/ at["http"] = "ok")
      BY DEF Portal, HttpStore, HttpStored, SaveNext, Answered, PostFirst, PostAbort, PostLast, PostEmpty
    <2>2. Shell => ("wifi" \in answered' => "wifi" \in answered)
      BY DEF Shell, CmdWifi, CmdConfig, CmdProvision, ShellStore, SaveNext, Answered
    <2>3. Main \/ AutoConnect \/ AutoWaited \/ LinkUp \/ LinkDown \/ Reset => answered' = answered
      BY DEF Main, Boot, JoinOk, JoinTimeout, AutoConnect, AutoWaited, LinkUp, LinkDown, Others,
         Reset
    <2> QED BY <2>1, <2>2, <2>3 DEF Next, vars
  <1>4. "wifi" \in answered' => Kept' BY <1>1, <1>2, <1>3, KeptStays DEF KeptInv
  <1>5. \A u \in Callers : at'[u] = "ok" => Kept' BY <1>1, OkIsKept
  <1> QED BY <1>4, <1>5 DEF KeptInv

\* A setup all of whose parts were answered with 200 is enough for the next
\* boot, unless a save failed, an empty value was saved or an eviction came to
\* nothing.
THEOREM AnsweredSetupIsEnough == Spec => []AnsweredIsEnough
  <1>1. Init => KeptInv
    <2> SUFFICES ASSUME Init, "wifi" \in answered PROVE known # {} BY DEF Init, StoreInit, KeptInv, Kept
    <2>1. known = CHOOSE s \in SUBSET Networks : Full(s) BY DEF Init
    <2>2. Full(known) BY <2>1, SoftApAssumption
    <2> QED BY <2>2, FS_EmptySet, WifiAssumption DEF Full
  <1>2. ASSUME SaveInv, KeptInv PROVE AnsweredIsEnough
    <2> SUFFICES ASSUME Setup \subseteq answered
                 PROVE  /\ unsaved \/ (\E f \in Names : stored[f] = Blank) \/ Complete
                        /\ wasted > 0 \/ known # {} \/ \E t \in Callers : at[t] = "again"
      BY DEF AnsweredIsEnough
    <2>1. ASSUME ~unsaved, \A f \in Names : stored[f] # Blank PROVE Complete
      <3>1. \A f \in Fields : stored[f] # 0
        BY <1>2, <2>1, FieldsAre DEF SaveInv, ThereInv, Setup
      <3>2. \A f \in Fields : stored[f] \in Kinds(f) BY <1>2 DEF SaveInv, SaveTypes
      <3> QED BY <2>1, <3>1, <3>2 DEF Complete, Kinds
    <2>2. Kept BY <1>2 DEF KeptInv, Setup
    <2> QED BY <2>1, <2>2 DEF Kept, Again
  <1>3. Spec => []WifiInv
    <2>1. Spec => StoreSpec BY SoftApUsesStore
    <2> QED BY <2>1, WifiInvariance, PTL
  <1>4. Spec => []KeptInv BY <1>1, <1>3, KeptStep, PTL DEF Spec
  <1> QED BY <1>2, <1>4, SaveInvariance, PTL
=============================================================================
