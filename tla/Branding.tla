------------------------------ MODULE Branding ------------------------------
(***************************************************************************)
(* Replacing a company's logo.  SettingsService: the browser PUTs an       *)
(* object to a presigned key and confirms it; the confirmation verifies    *)
(* what landed, points company_branding at it in one statement, and        *)
(* sweeps the object that statement reports it displaced.  The banner is   *)
(* the same code over another column.                                      *)
(*                                                                         *)
(* A presigned URL takes any number of PUTs until it expires, and there is *)
(* no clock here: each key can be written again at any time.               *)
(***************************************************************************)
EXTENDS Integers, FiniteSets

CONSTANTS
    Images,         \* object keys handed out by prepare_image
    Savers,         \* confirm and clear requests
    NoImage         \* no logo

ASSUME NoImageIsNone == NoImage \notin Images

VARIABLES
    bucket,         \* the objects stored
    logo,           \* company_branding.logo_url
    saver,          \* each request: where it stands
    confirmedBy,    \* requests that confirmed each key
    shownOnce,      \* keys that have been the logo
    leftBehind,     \* keys nobody is going to sweep
    replayed        \* keys written again once they had been shown and deleted

brandingVars == <<bucket, logo, saver, confirmedBy, shownOnce, leftBehind, replayed>>

Saver == [pc : {"idle", "set", "write", "sweep", "done"}, key : Images \cup {NoImage},
          seen : Images \cup {NoImage}]

BrandingInit ==
    /\ bucket = {}
    /\ logo = NoImage
    /\ saver = [r \in Savers |-> [pc |-> "idle", key |-> NoImage, seen |-> NoImage]]
    /\ confirmedBy = [k \in Images |-> {}]
    /\ shownOnce = {}
    /\ leftBehind = {}
    /\ replayed = {}

SaverDone(r) == saver' = [saver EXCEPT ![r].pc = "done"]

(* The browser's PUT of an image prepare_image accepted, any number of times. *)
PutImage(k) ==
    /\ bucket' = bucket \cup {k}
    /\ replayed' = IF k \in shownOnce \ bucket THEN replayed \cup {k} ELSE replayed
    /\ UNCHANGED <<logo, saver, confirmedBy, shownOnce, leftBehind>>

(* upload::verify, head. *)
Uploaded(k) == k \in bucket

(* confirm_image up to the statement.  An object that is not what the        *)
(* request declares is discarded, whatever points at it.                     *)
ConfirmImage(r, k, mismatch) ==
    /\ saver[r].pc = "idle"
    /\ confirmedBy' = [confirmedBy EXCEPT ![k] = @ \cup {r}]
    /\ IF Uploaded(k) /\ ~mismatch
       THEN saver' = [saver EXCEPT ![r].pc = "set", ![r].key = k]
       ELSE SaverDone(r)
    /\ bucket' = IF mismatch THEN bucket \ {k} ELSE bucket
    /\ UNCHANGED <<logo, shownOnce, leftBehind, replayed>>

ClearImage(r) ==
    /\ saver[r].pc = "idle"
    /\ saver' = [saver EXCEPT ![r].pc = "set"]
    /\ UNCHANGED <<bucket, logo, confirmedBy, shownOnce, leftBehind, replayed>>

(* The statement's snapshot, from which RETURNING reads the old value ... *)
BeginSet(r) ==
    /\ saver[r].pc = "set"
    /\ saver' = [saver EXCEPT ![r].pc = "write", ![r].seen = logo]
    /\ UNCHANGED <<bucket, logo, confirmedBy, shownOnce, leftBehind, replayed>>

(* The value RETURNING would give of the row just written. *)
PreviousAfterWrite(r) == saver[r].key

Previous(r) == saver[r].seen

(* ... and its update, of the row as it is by then. *)
WriteImage(r) ==
    /\ saver[r].pc = "write"
    /\ logo' = saver[r].key
    /\ shownOnce' = shownOnce \cup ({saver[r].key} \ {NoImage})
    /\ saver' = [saver EXCEPT ![r].pc = "sweep", ![r].seen = Previous(r)]
    /\ leftBehind' = IF logo = saver[r].seen THEN leftBehind
                     ELSE leftBehind \cup ({logo} \ {NoImage})
    /\ UNCHANGED <<bucket, confirmedBy, replayed>>

Sweep(r) ==
    /\ saver[r].pc = "sweep"
    /\ bucket' = IF saver[r].seen # saver[r].key THEN bucket \ {saver[r].seen} ELSE bucket
    /\ SaverDone(r)
    /\ UNCHANGED <<logo, confirmedBy, shownOnce, leftBehind, replayed>>

(* The request dies, or storage refuses the delete, which is only logged. *)
AbandonSave(r) ==
    /\ saver[r].pc \in {"set", "write", "sweep"}
    /\ SaverDone(r)
    /\ leftBehind' = IF saver[r].pc = "sweep" THEN leftBehind \cup ({saver[r].seen} \ {NoImage})
                     ELSE leftBehind
    /\ UNCHANGED <<bucket, logo, confirmedBy, shownOnce, replayed>>

BrandingNext ==
    \/ \E k \in Images : PutImage(k)
    \/ \E r \in Savers :
          \/ \E k \in Images, mismatch \in BOOLEAN : ConfirmImage(r, k, mismatch)
          \/ ClearImage(r) \/ BeginSet(r) \/ WriteImage(r) \/ Sweep(r) \/ AbandonSave(r)

BrandingSpec == BrandingInit /\ [][BrandingNext]_brandingVars

-----------------------------------------------------------------------------
BrandingTypeOK ==
    /\ bucket \subseteq Images
    /\ logo \in Images \cup {NoImage}
    /\ saver \in [Savers -> Saver]
    /\ confirmedBy \in [Images -> SUBSET Savers]
    /\ shownOnce \subseteq Images
    /\ leftBehind \subseteq Images
    /\ replayed \subseteq Images

ConfirmedAgain(k) == \E r, q \in confirmedBy[k] : r # q

(* The logo on show has its object, however confirmations and clears race:   *)
(* unless its key was confirmed more than once, in which case a late sweep,  *)
(* or a retry that declares another type, can delete what is displayed.      *)
LogoIsStored == logo # NoImage => logo \in bucket \/ ConfirmedAgain(logo)

(* A company changing its logo weekly does not accumulate every past         *)
(* version: an image that was displaced is gone, or about to be swept, or    *)
(* was displaced by a statement that began before it was the logo, or by one *)
(* whose sweep failed; or its key was confirmed again, or its URL used again *)
(* after the sweep.                                                          *)
DisplacedAreSwept ==
    \A k \in (shownOnce \cap bucket) \ {logo} :
        \/ \E r \in Savers : saver[r].pc = "sweep" /\ saver[r].seen = k
        \/ k \in leftBehind
        \/ ConfirmedAgain(k) \/ k \in replayed

(* Both: what is shown is stored, and what is no longer shown goes.          *)
ImagesFollowTheLogo == LogoIsStored /\ DisplacedAreSwept

=============================================================================
