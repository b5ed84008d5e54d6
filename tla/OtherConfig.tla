---------------------------- MODULE OtherConfig -----------------------------
(* The settings dialog of the legacy front end (OtherConfigModal.js with   *)
(* the reducer otherConfig.js).  A setting is kept three times: in the     *)
(* page (redux), in localStorage, which the page reads when it is loaded,  *)
(* and on the server, of which the dialog has a copy.  A handler of the    *)
(* dialog copies the field's array, changes it, writes it to localStorage  *)
(* and dispatches it.                                                      *)
(*                                                                         *)
(* An array is modelled by the field it was made for and a version of its  *)
(* contents.                                                               *)
EXTENDS UserConfig

CONSTANTS
    ViewFields,     \* rows, intervals, address, recommission
    LimitFields,    \* rocket limits, position lock, shield, mind mode, lever,
                    \* cancelling of stops
    CountFields,    \* sortFrequencyTs, klineCount, depth: some values refused
    Version,        \* contents of a field; 0 is stateDefaultObj's
    Refused,        \* contents the handlers of CountFields refuse
    NoText,         \* localStorage holds no array: nothing, or "undefined"
    HotKeysElsewhere, \* hot keys that another browser saves
    MaxEdits,       \* bound: changes by the user
    MaxPosts,       \* bound: requests
    MaxPageLoads    \* bound: loads of the page

LockField   == "limitMaxLossLockConfigArr"
CancelField == "autoCancelOrderConfigArr"
BnbField    == "autoBuyBnbConfigArr"
StopField   == "autoStopLossConfigArr"
LeverField  == "showProfitWithLeverConfigArr"
DepthField  == "depthConfigArr"
AddressField      == "binanceAddressConfigArr"
RecommissionField == "binanceRecommissionConfigArr"
Field == ViewFields \cup LimitFields \cup CountFields \cup
         {LockField, CancelField, BnbField, StopField}

ASSUME FieldAssumption ==
    /\ (ViewFields \cup LimitFields) \cap CountFields = {}
    /\ (ViewFields \cup LimitFields \cup CountFields) \cap
           {LockField, CancelField, BnbField, StopField} = {}
    /\ RecommissionField \in Field => AddressField \in Field
ASSUME VersionAssumption == 0 \in Version \ Refused

Array  == [of : Field, version : Version]
Config == [Field -> Array]

ASSUME NoTextAssumption == NoText \notin Array

\* stateDefaultObj.
DefaultConfig == [f \in Field |-> [of |-> f, version |-> 0]]

VARIABLES
    otherConfig,        \* redux
    storage,            \* localStorage
    serverStateConfig,  \* the dialog's copy; {} until an answer arrives
    dialog,             \* "unmounted", "mounted" or "crashed"
    formDataGlobal,     \* the page defines a global named formData
    lossLocked,         \* now < maxLossLockTs
    edits, pageLoads

pageVars == <<otherConfig, storage, serverStateConfig, dialog, formDataGlobal,
              lossLocked, edits, pageLoads>>
otherVars == <<pageVars, serverVars>>

NoConfig == Nothing["state_config_obj"]

\* An array that may be shown for field f: f's own, with nothing that the
\* handlers refuse; for the loss lock also the cancel time's, see
\* onChangeAutoCancelOrderTs.
StandsFor(a, f) ==
    /\ a.of = f \/ (f = LockField /\ a.of = CancelField)
    /\ f \in CountFields => a.version \notin Refused

Sound(config) ==
    config \in Config /\ \A f \in Field : StandsFor(config[f], f)

\* What the server starts with was saved by this page, if at all.
ASSUME SavedAssumption ==
    \A x \in InitialFiles :
        x["state_config_obj"] = NoConfig \/ Sound(x["state_config_obj"])

OtherTypeOK ==
    /\ otherConfig \in Config
    /\ storage \in [Field -> Array \cup {NoText}]
    /\ serverStateConfig \in Config \cup {NoConfig}
    /\ dialog \in {"unmounted", "mounted", "crashed"}
    /\ formDataGlobal \in BOOLEAN /\ lossLocked \in BOOLEAN
    /\ {edits, pageLoads} \subseteq Nat

\* The reducer's initial state, field by field.
Reloaded ==
    [f \in Field |-> IF storage[f] = NoText THEN DefaultConfig[f] ELSE storage[f]]

PageInit ==
    /\ storage = [f \in Field |-> NoText]
    /\ otherConfig = DefaultConfig
    /\ serverStateConfig = NoConfig
    /\ dialog = "unmounted"
    /\ formDataGlobal \in BOOLEAN
    /\ lossLocked = FALSE
    /\ edits = 0 /\ pageLoads = 1

OtherInit == PageInit /\ ServerInit

MayPost == sent < MaxPosts

\* componentDidMount calls getServerStateConfig, whose request has a body
\* named formData that the function does not declare: unless the page has a
\* global of that name the call raises, and the error boundary takes the
\* whole page down.
Mount ==
    /\ dialog = "unmounted"
    /\ \/ /\ formDataGlobal
          /\ MayPost
          /\ dialog' = "mounted"
          /\ Post("get", "state_config_obj", NoConfig)
       \/ /\ ~formDataGlobal
          /\ dialog' = "crashed"
          /\ UNCHANGED serverVars
    /\ UNCHANGED <<otherConfig, storage, serverStateConfig, formDataGlobal,
                   lossLocked, edits, pageLoads>>

\* The user, or App.componentDidCatch, loads the page again.
Reload ==
    /\ pageLoads < MaxPageLoads
    /\ pageLoads' = pageLoads + 1
    /\ otherConfig' = Reloaded
    /\ serverStateConfig' = NoConfig
    /\ dialog' = "unmounted"
    /\ Forget
    /\ UNCHANGED <<storage, formDataGlobal, lossLocked, edits>>

-----------------------------------------------------------------------------
(* The handlers of the table.                                              *)

Edits == dialog = "mounted" /\ edits < MaxEdits /\ edits' = edits + 1

\* deepCopy of the field's array with one entry replaced.
Edited(f, v) == [otherConfig[f] EXCEPT !.version = v]

\* Stores under one key and shows under another; all handlers but one use
\* the same key twice.
Put(key, f, arr) ==
    /\ storage' = [storage EXCEPT ![key] = arr]
    /\ otherConfig' = [otherConfig EXCEPT ![f] = arr]
    /\ UNCHANGED <<serverStateConfig, dialog, formDataGlobal, lossLocked,
                   pageLoads, serverVars>>

\* Rows, intervals, address, recommission.
ChangeView(f, v) ==
    /\ Edits
    /\ f \in ViewFields
    /\ Put(f, f, Edited(f, v))

\* No number, "error", more than 96 charts, 50 depths or more.
Accepts(v) == v \notin Refused

ChangeCount(f, v) ==
    /\ Edits
    /\ f \in CountFields
    /\ Accepts(v)
    /\ Put(f, f, Edited(f, v))

\* onChangeAutoBuyBnbA and B read a variable e that is not theirs: they
\* raise before they store anything.
ChangeBnbAmount ==
    /\ Edits
    /\ UNCHANGED <<otherConfig, storage, serverStateConfig, dialog,
                   formDataGlobal, lossLocked, pageLoads, serverVars>>

ChangeBnbSwitch(v) == Edits /\ Put(BnbField, BnbField, Edited(BnbField, v))

\* Switch, value and type of the automatic stop.
ChangeStopLoss(v) == Edits /\ Put(StopField, StopField, Edited(StopField, v))

\* Position lock and mind mode; rocket limits, shielded symbols and automatic
\* cancelling of stops are changed the same way.
ChangeLimit(f, v) ==
    /\ Edits
    /\ f \in LimitFields
    /\ Put(f, f, Edited(f, v))

\* onChangShowProfitWithLeverChecked and onChangeDepthProfitChecked: switches
\* in an array, the second next to the number of depths.
ChangeDisplay(f, v) ==
    /\ Edits
    /\ f \in Field \cap {LeverField, DepthField}
    /\ Accepts(v)
    /\ Put(f, f, Edited(f, v))

\* nowTs >= maxLossLockTs.
Unlocked == ~lossLocked

\* Time, switch and money of the loss lock.
ChangeLossLock(v) ==
    /\ Edits
    /\ Unlocked
    /\ Put(LockField, LockField, Edited(LockField, v))

\* onChangeLimitMaxLossLockMins.
ChangeLossLockMins(v) ==
    /\ Edits
    /\ Unlocked
    /\ Put(LockField, LockField, Edited(LockField, v))

\* onChangeAutoCancelOrderTs stores its array under the loss lock's key.
CancelTimeKey == LockField

ChangeCancelTime(v) ==
    /\ Edits
    /\ Put(CancelTimeKey, CancelField, Edited(CancelField, v))

ChangeCancelSwitch(v) ==
    /\ Edits
    /\ Put(CancelField, CancelField, Edited(CancelField, v))

-----------------------------------------------------------------------------
(* The buttons.                                                            *)

\* The texts that restoring config writes; JSON.stringify(undefined) for
\* every field of an empty copy.
Texts(config) ==
    [f \in Field |-> IF config = NoConfig THEN NoText ELSE config[f]]

Shown(config) == IF config = NoConfig THEN otherConfig ELSE config

\* Mutant of Restore: the page is not told.
RestoreTextsOnly(config) ==
    /\ storage' = Texts(config)
    /\ UNCHANGED <<otherConfig, serverStateConfig, dialog, formDataGlobal,
                   lossLocked, pageLoads, serverVars>>

Restore(config) ==
    /\ storage' = Texts(config)
    /\ otherConfig' = Shown(config)
    /\ UNCHANGED <<serverStateConfig, dialog, formDataGlobal, lossLocked,
                   pageLoads, serverVars>>

\* restoreServerStateConfig; the test that the copy has every key, written
\* "!key in serverStateConfig", is true of no key and lets an empty copy pass.
RestoreServerStateConfig == Edits /\ Unlocked /\ Restore(serverStateConfig)

RestoreDefaultStateConfig == Edits /\ Unlocked /\ Restore(DefaultConfig)

\* modifyStateConfig: all fields of the page at once.
ModifyStateConfig ==
    /\ dialog = "mounted"
    /\ MayPost
    /\ Post("modify", "state_config_obj", otherConfig)
    /\ UNCHANGED pageVars

\* Mutant of Taken: an answer to a save is not looked at.
TakenOfGet(a) == IF a.op = "get" THEN a.config ELSE serverStateConfig

\* Both answers bring the section, which replaces the copy.
Taken(a) == a.config

AnswerArrives(a) ==
    /\ a \in answers
    /\ dialog = "mounted"
    /\ answers' = answers \ {a}
    /\ serverStateConfig' = Taken(a)
    /\ UNCHANGED <<otherConfig, storage, dialog, formDataGlobal, lossLocked,
                   edits, pageLoads>>
    /\ UNCHANGED <<file, torn, jobs, sent, mishaps, orderly, saved>>

\* The trading page, which is not in the repository, closes the lock for a
\* while.
LossLock ==
    /\ lossLocked' = ~lossLocked
    /\ UNCHANGED <<otherConfig, storage, serverStateConfig, dialog,
                   formDataGlobal, edits, pageLoads, serverVars>>

\* Somebody saves hot keys meanwhile.
HotKeysSavedElsewhere ==
    /\ MayPost
    /\ PostFor("modify", "hot_key_config_obj", HotKeysElsewhere, FALSE)
    /\ UNCHANGED pageVars

\* The server's side of the recommission row is written for the address.
ServerFieldOf(f) == IF f = RecommissionField THEN AddressField ELSE f

\* A row of the table: the page's value and the server's, which is left out
\* until the copy has the field.
Row(f) ==
    [value |-> otherConfig[f],
     serverValue |-> IF serverStateConfig = NoConfig THEN NoText
                     ELSE serverStateConfig[ServerFieldOf(f)]]

OtherNext ==
    \/ Mount \/ Reload
    \/ \E v \in Version :
          \/ \E f \in ViewFields : ChangeView(f, v)
          \/ \E f \in LimitFields : ChangeLimit(f, v)
          \/ \E f \in CountFields : ChangeCount(f, v)
          \/ \E f \in {LeverField, DepthField} : ChangeDisplay(f, v)
          \/ ChangeBnbSwitch(v) \/ ChangeStopLoss(v)
          \/ ChangeLossLock(v) \/ ChangeLossLockMins(v)
          \/ ChangeCancelTime(v) \/ ChangeCancelSwitch(v)
    \/ ChangeBnbAmount
    \/ RestoreServerStateConfig \/ RestoreDefaultStateConfig
    \/ ModifyStateConfig
    \/ \E a \in answers : AnswerArrives(a)
    \/ LossLock \/ HotKeysSavedElsewhere
    \/ ServerNext /\ UNCHANGED pageVars

OtherSpec == OtherInit /\ [][OtherNext]_otherVars

-----------------------------------------------------------------------------
(* Properties.                                                             *)

\* What localStorage holds is what the page shows, through every order of
\* edits, restores, saves and loads of the page: loading it again changes no
\* setting that has a text.  Left out are the two fields that
\* onChangeAutoCancelOrderTs mixes up, of which the loss lock's is right as
\* long as its text is a loss lock.
StoredIsShown ==
    \A f \in Field \ {CancelField} :
        \/ storage[f] \in {NoText, otherConfig[f]}
        \/ f = LockField /\ storage[f].of = CancelField

\* The array of one field never comes back as another's, neither over
\* localStorage nor over the server, except that the loss lock may come back
\* as the array of the cancel time; and a refused number comes back nowhere.
FieldsNotMixed == \A f \in Field : StandsFor(otherConfig[f], f)

\* A user who waits for each answer sees in the server's column what the
\* server holds of each row's field, whatever was edited, restored or reloaded
\* between the saves.  Left out is the recommission row, whose column shows the
\* address.
ServerColumnCurrent ==
    orderly /\ jobs = {} /\ answers = {} /\ dialog = "mounted" =>
        LET held == FileRead["state_config_obj"]
        IN  \A f \in Field \ {RecommissionField} :
                Row(f).serverValue = IF held = NoConfig THEN NoText ELSE held[f]
=============================================================================
