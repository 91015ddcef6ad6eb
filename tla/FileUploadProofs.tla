---------------------------- MODULE FileUploadProofs ----------------------------
(***************************************************************************)
(* Proofs about FileUpload, for any number of identity responses.          *)
(*                                                                         *)
(* Why the one test at the start of an upload is enough: the strings of    *)
(* the hook come from one response (OneResponse), and an upload that discovery  *)
(* has not overlapped works on exactly the strings it tested (Undisturbed).*)
(***************************************************************************)
EXTENDS FileUpload, TLAPS

\* The hook's strings come from one response, and a role from one whose
\* bucket is the customer's; responses still to come have none.
OneResponse ==
    /\ fu_topic <= seen /\ fu_bucket <= seen /\ fu_role_arn <= seen
    /\ fu_topic # 0 /\ fu_bucket # 0 => fu_topic = fu_bucket
    /\ fu_role_arn # 0 /\ fu_bucket # 0 => fu_role_arn = fu_bucket
    /\ fu_role_arn # 0 => offer[fu_role_arn] = "customer"
    /\ disc \in {"hook", "null"} => seen # 0

\* What an upload holds after each step that copied something.
Undisturbed ==
    /\ disc = "idle" /\ Available /\ ~stray
    /\ up = "provider" => url = fs_creds_url
    /\ up \in {"assume", "sign", "put"} => signer = fu_role_arn
    /\ up = "put" => bucket = fu_bucket
    /\ up = "announce" => stored = fu_bucket
    /\ announced = 0

Allocated ==
    /\ up \in {"idle", "url", "provider"} => heap = {}
    /\ up \in {"role", "assume"} => heap = {"provider"}

IInv ==
    /\ TypeOK /\ OneResponse /\ Allocated
    /\ Uploading /\ ~overlap => Undisturbed
    /\ StrayNeedsOverlap /\ AnnouncedIsStored
-----------------------------------------------------------------------------
\* NULL is a value of every string.
LEMMA NullIdentity == 0 \in Identity
  BY IdentitiesAssumption DEF IdentitiesAssumption, Identity

\* Before the first discovery nothing is known and nothing uploaded.
LEMMA InitInv == Init => IInv
<1> SUFFICES ASSUME Init PROVE IInv
  OBVIOUS
<1>1. TypeOK
  BY NullIdentity DEF Init, TypeOK, Offers, Identity
<1>2. OneResponse /\ Allocated
  BY DEF Init, OneResponse, Allocated
<1>3. ~Uploading /\ StrayNeedsOverlap /\ AnnouncedIsStored
  BY DEF Init, Uploading, StrayNeedsOverlap, AnnouncedIsStored
<1> QED BY <1>1, <1>2, <1>3 DEF IInv

\* A step of discovery leaves the upload alone and marks it as overlapped.
LEMMA DiscoveryStep == ASSUME IInv, Discovery PROVE IInv'
<1> USE NullIdentity, IdentitiesAssumption
    DEF IdentitiesAssumption, IInv, TypeOK, OneResponse, Allocated, Uploading, Overlaps,
        StrayNeedsOverlap, AnnouncedIsStored, Identity, Offers, hooked, config, request
<1>1. CASE DiscoverStart  BY <1>1 DEF DiscoverStart
<1>2. CASE DiscoverFails  BY <1>2 DEF DiscoverFails
<1>3. CASE DiscoverAnswer
  <2>1. PICK o \in Offers : offer' = [offer EXCEPT ![seen'] = o]
    BY <1>3 DEF DiscoverAnswer
  <2>2. seen' = seen + 1 /\ seen' \in 1..MaxIdentities
    BY <1>3 DEF DiscoverAnswer
  <2>3. \A i \in 1..MaxIdentities : i <= seen => offer'[i] = offer[i]
    BY <2>1, <2>2
  <2>4. TypeOK'
    BY <1>3, <2>1, <2>2 DEF DiscoverAnswer
  <2>5. OneResponse'
    BY <1>3, <2>2, <2>3 DEF DiscoverAnswer
  <2>6. Allocated' /\ StrayNeedsOverlap' /\ AnnouncedIsStored'
    BY <1>3 DEF DiscoverAnswer
  <2>7. ~(Uploading /\ ~overlap)'
    BY <1>3 DEF DiscoverAnswer
  <2> QED BY <2>4, <2>5, <2>6, <2>7
<1>4. CASE HookParseFails BY <1>4 DEF HookParseFails
<1>5. CASE HookFree       BY <1>5 DEF HookFree
<1>6. CASE HookCapture
  <2>1. seen \in 1..MaxIdentities
    BY <1>6 DEF HookCapture
  <2>2. /\ fu_topic' \in {0, seen} /\ fu_bucket' \in {0, seen} /\ fu_role_arn' \in {0, seen}
        /\ fu_role_arn' # 0 => offer[seen] = "customer"
    BY <1>6 DEF HookCapture
  <2>3. TypeOK'
    BY <1>6, <2>2 DEF HookCapture
  <2>4. OneResponse'
    BY <1>6, <2>1, <2>2 DEF HookCapture
  <2>5. Allocated' /\ StrayNeedsOverlap' /\ AnnouncedIsStored' /\ ~(Uploading /\ ~overlap)'
    BY <1>6 DEF HookCapture
  <2> QED BY <2>3, <2>4, <2>5
<1> QED BY <1>1, <1>2, <1>3, <1>4, <1>5, <1>6 DEF Discovery

\* An upload starts on strings that are all there.
LEMMA StartStep == ASSUME IInv, UploadStart PROVE IInv'
  BY NullIdentity
     DEF IInv, TypeOK, OneResponse, Allocated, Uploading, Undisturbed, Available, UploadStart,
         StrayNeedsOverlap, AnnouncedIsStored, Identity, discVars, hooked, config, request

\* Its steps read what was tested, or were overlapped.
LEMMA UploadStep == ASSUME IInv, InUpload PROVE IInv'
<1> USE NullIdentity DEF IInv, TypeOK, OneResponse, Allocated, Uploading, Undisturbed, Available, Fail,
            Stray, StrayNeedsOverlap, AnnouncedIsStored, Identity,
            discVars, hooked, config, request
<1>1. CASE UploadUrl      BY <1>1 DEF UploadUrl
<1>2. CASE UploadProvider BY <1>2 DEF UploadProvider
<1>3. CASE UploadRole     BY <1>3 DEF UploadRole
<1>4. CASE UploadAssume   BY <1>4 DEF UploadAssume
<1>5. CASE UploadSign     BY <1>5 DEF UploadSign
<1>6. CASE UploadPut      BY <1>6 DEF UploadPut
<1>7. CASE UploadAnnounce BY <1>7 DEF UploadAnnounce
<1> QED BY <1>1, <1>2, <1>3, <1>4, <1>5, <1>6, <1>7 DEF InUpload

\* Every step keeps the invariant.
LEMMA NextInv == IInv /\ [Next]_vars => IInv'
<1> SUFFICES ASSUME IInv, [Next]_vars PROVE IInv'
  OBVIOUS
<1>1. CASE UNCHANGED vars
  BY <1>1 DEF vars, discVars, hooked, config, request, IInv, TypeOK, OneResponse, Allocated,
              Uploading, Undisturbed, Available, StrayNeedsOverlap, AnnouncedIsStored
<1> QED BY <1>1, DiscoveryStep, StartStep, UploadStep DEF Next

\* The inductive invariant the others rest on.
THEOREM Invariance == Spec => []IInv
  BY InitInv, NextInv, PTL DEF Spec
-----------------------------------------------------------------------------
\* Without discovery beside it, an upload reads no NULL and no freed string.
THEOREM ReadsAreSafe == Spec => []StrayNeedsOverlap
<1>1. IInv => StrayNeedsOverlap BY DEF IInv
<1> QED BY <1>1, Invariance, PTL

\* No role of an earlier response signs for the bucket of a later one.
THEOREM RolesFit == Spec => []SignerFitsBucket
<1>1. IInv => SignerFitsBucket
  BY DEF IInv, OneResponse, Undisturbed, Available, Uploading, SignerFitsBucket
<1> QED BY <1>1, Invariance, PTL

\* An announced file is in the bucket of the announcing identity.
THEOREM AnnouncementsAreTrue == Spec => []AnnouncedIsStored
<1>1. IInv => AnnouncedIsStored BY DEF IInv
<1> QED BY <1>1, Invariance, PTL

\* However an upload ends, it has freed its allocations.
THEOREM UploadsDoNotLeak == Spec => []NothingLeaks
<1>1. IInv => NothingLeaks BY DEF IInv, Allocated, Uploading, NothingLeaks
<1> QED BY <1>1, Invariance, PTL
=============================================================================
