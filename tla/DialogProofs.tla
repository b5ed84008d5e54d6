---------------------------- MODULE DialogProofs -----------------------------
(* The settings dialog (OtherConfig) and the hot-key dialog (HotKeys), with  *)
(* the server that keeps the configurations of both.                         *)
EXTENDS OtherConfig, HotKeys, UserConfigProofs

-----------------------------------------------------------------------------
(* The settings dialog.                                                     *)

SoundConfigs == {c \in Config : Sound(c)}
Held == SoundConfigs \cup {NoConfig}

\* What the three copies hold.
Settings ==
    /\ otherConfig \in SoundConfigs
    /\ storage \in [Field -> Array \cup {NoText}]
    /\ \A f \in Field : storage[f] # NoText => StandsFor(storage[f], f)
    /\ serverStateConfig \in Held
    /\ ContentsIn(Held, "state_config_obj")

\* What the server is asked for.
Asked ==
    /\ \A j \in jobs : j.asker => j.section = "state_config_obj"
    /\ \A a \in answers : a.section = "state_config_obj"

PageShape ==
    /\ dialog \in {"unmounted", "mounted", "crashed"}
    /\ formDataGlobal \in BOOLEAN /\ lossLocked \in BOOLEAN
    /\ edits \in Nat /\ pageLoads \in Nat

\* As long as requests wait for each other, an answer brings what the file
\* holds, and the copy is the file's once no answer is awaited.
CopyFollows ==
    orderly =>
        /\ jobs # {} => answers = {}
        /\ \A a, b \in answers : a = b
        /\ \A a \in answers : a.config = file["state_config_obj"]
        /\ \A j \in jobs : ~j.asker => j.section = "hot_key_config_obj"
        /\ dialog = "mounted" /\ answers = {} /\ (\A j \in jobs : ~j.asker) =>
               serverStateConfig = file["state_config_obj"]

OtherInv ==
    /\ ServerShape /\ OneAtATime /\ Settings /\ Asked /\ PageShape
    /\ StoredIsShown /\ CopyFollows

\* The fields that have handlers of their own are apart from the others.
LEMMA Fields ==
    /\ {LockField, CancelField, BnbField, StopField} \subseteq Field
    /\ "state_config_obj" \in Section /\ "hot_key_config_obj" \in Section
    /\ LockField # CancelField
    /\ \A f \in CountFields : f \in Field /\ f # LockField /\ f # CancelField
    /\ BnbField \notin CountFields /\ StopField \notin CountFields
    /\ \A f \in Field : f \in ViewFields \cup LimitFields => f \notin CountFields
  BY FieldAssumption DEF Field, Section, LockField, CancelField, BnbField, StopField

\* stateDefaultObj can be shown.
LEMMA DefaultIsSound == DefaultConfig \in SoundConfigs
  BY VersionAssumption DEF DefaultConfig, SoundConfigs, Sound, StandsFor, Config, Array

\* An edit of one field, of contents that the field's handler takes.
LEMMA EditedIsSound ==
    ASSUME otherConfig \in SoundConfigs, NEW f \in Field, NEW v \in Version,
           f \in CountFields => v \notin Refused
    PROVE  /\ Edited(f, v) \in Array
           /\ Edited(f, v).of = otherConfig[f].of
           /\ StandsFor(Edited(f, v), f)
  BY DEF SoundConfigs, Sound, StandsFor, Config, Array, Edited

\* Storing and showing an edit under the same key.
LEMMA PutKeeps ==
    ASSUME Settings, StoredIsShown, NEW f \in Field, NEW v \in Version,
           f \in CountFields => v \notin Refused,
           Put(f, f, Edited(f, v))
    PROVE  Settings' /\ StoredIsShown'
  <1> PICK arr : arr = Edited(f, v)
    OBVIOUS
  <1>1. arr \in Array /\ StandsFor(arr, f)
    BY EditedIsSound DEF Settings
  <1>2. /\ storage' = [storage EXCEPT ![f] = arr]
        /\ otherConfig' = [otherConfig EXCEPT ![f] = arr]
        /\ serverStateConfig' = serverStateConfig
        /\ UNCHANGED serverVars
    BY DEF Put
  <1>3. ContentsIn(Held, "state_config_obj")'
    BY <1>2 DEF Settings, ContentsIn, serverVars, Held, SoundConfigs, Sound,
                StandsFor, Config
  <1>4. otherConfig' \in SoundConfigs
    BY <1>1, <1>2 DEF Settings, SoundConfigs, Sound, Config
  <1>5. /\ storage' \in [Field -> Array \cup {NoText}]
        /\ \A g \in Field : storage'[g] # NoText => StandsFor(storage'[g], g)
    BY <1>1, <1>2 DEF Settings
  <1>6. StoredIsShown'
    BY <1>2 DEF StoredIsShown, Settings, SoundConfigs, Config
  <1> QED
    BY <1>2, <1>3, <1>4, <1>5, <1>6 DEF Settings

\* onChangeAutoCancelOrderTs: shown as the cancel time, stored as the lock.
LEMMA CancelTimeKeeps ==
    ASSUME Settings, StoredIsShown, NEW v \in Version,
           Put(CancelTimeKey, CancelField, Edited(CancelField, v))
    PROVE  Settings' /\ StoredIsShown'
  <1> PICK arr : arr = Edited(CancelField, v)
    OBVIOUS
  <1>1. arr \in Array /\ arr.of = CancelField
    <2>1. otherConfig[CancelField].of = CancelField
      BY Fields DEF Settings, SoundConfigs, Sound, StandsFor
    <2> QED
      BY <2>1, Fields, EditedIsSound DEF Settings
  <1>2. StandsFor(arr, CancelField) /\ StandsFor(arr, LockField)
    BY <1>1, Fields DEF StandsFor
  <1>3. /\ storage' = [storage EXCEPT ![LockField] = arr]
        /\ otherConfig' = [otherConfig EXCEPT ![CancelField] = arr]
        /\ serverStateConfig' = serverStateConfig
        /\ UNCHANGED serverVars
    BY DEF Put, CancelTimeKey
  <1>4. ContentsIn(Held, "state_config_obj")'
    BY <1>3 DEF Settings, ContentsIn, serverVars, Held, SoundConfigs, Sound,
                StandsFor, Config
  <1>5. otherConfig' \in SoundConfigs
    BY <1>1, <1>2, <1>3 DEF Settings, SoundConfigs, Sound, Config
  <1>6. /\ storage' \in [Field -> Array \cup {NoText}]
        /\ \A g \in Field : storage'[g] # NoText => StandsFor(storage'[g], g)
    BY <1>1, <1>2, <1>3 DEF Settings
  <1>7. StoredIsShown'
    BY <1>1, <1>3, Fields DEF StoredIsShown, Settings, SoundConfigs, Config
  <1> QED
    BY <1>3, <1>4, <1>5, <1>6, <1>7 DEF Settings

\* Restoring the server's copy, an empty one included, or the defaults.
LEMMA RestoreKeeps ==
    ASSUME Settings, StoredIsShown, NEW c \in Held, Restore(c)
    PROVE  Settings' /\ StoredIsShown'
  <1>1. /\ storage' = Texts(c) /\ otherConfig' = Shown(c)
        /\ serverStateConfig' = serverStateConfig /\ UNCHANGED serverVars
    BY DEF Restore
  <1>2. ContentsIn(Held, "state_config_obj")'
    BY <1>1 DEF Settings, ContentsIn, serverVars, Held, SoundConfigs, Sound,
                StandsFor, Config
  <1>3. CASE c = NoConfig
    BY <1>1, <1>2, <1>3 DEF Texts, Shown, Settings, StoredIsShown
  <1>4. CASE c \in SoundConfigs /\ c # NoConfig
    <2>1. /\ otherConfig' = c
          /\ storage' = [f \in Field |-> c[f]]
      BY <1>1, <1>4 DEF Texts, Shown
    <2>2. \A f \in Field : c[f] \in Array /\ StandsFor(c[f], f)
      BY <1>4 DEF SoundConfigs, Sound, Config
    <2> QED
      BY <1>1, <1>2, <1>4, <2>1, <2>2 DEF Settings, StoredIsShown
  <1> QED
    BY <1>3, <1>4 DEF Held

\* What the reducer makes of localStorage.
LEMMA ReloadedKeeps ==
    ASSUME Settings, StoredIsShown, otherConfig' = Reloaded, storage' = storage
    PROVE  otherConfig' \in SoundConfigs /\ StoredIsShown'
  <1>1. ASSUME NEW f \in Field
        PROVE  /\ Reloaded[f] \in Array /\ StandsFor(Reloaded[f], f)
               /\ storage[f] # NoText => Reloaded[f] = storage[f]
    BY DefaultIsSound DEF Reloaded, Settings, SoundConfigs, Sound, Config
  <1>2. Reloaded = [f \in Field |-> Reloaded[f]]
    BY DEF Reloaded
  <1>3. Reloaded \in SoundConfigs
    BY <1>1, <1>2 DEF SoundConfigs, Sound, Config
  <1> QED
    BY <1>1, <1>3 DEF StoredIsShown

\* What leaves the server and the copy alone leaves what relates them.
LEMMA ServerUntouched ==
    ASSUME ServerShape, OneAtATime, Asked, CopyFollows,
           UNCHANGED serverVars, UNCHANGED <<serverStateConfig, dialog>>
    PROVE  ServerShape' /\ OneAtATime' /\ Asked' /\ CopyFollows'
  BY DEF ServerShape, OneAtATime, Asked, CopyFollows, serverVars

-----------------------------------------------------------------------------
(* Steps of the server.                                                    *)

\* The server answers what it was asked.
LEMMA ServerKeepsAsked ==
    ASSUME ServerShape, Asked, ServerNext
    PROVE  Asked'
  <1>1. \A k \in jobs' : k.asker => k.section = "state_config_obj"
    BY JobsAfter DEF Asked, SameRequest
  <1>2. \A a \in answers' : a.section = "state_config_obj"
    <2>1. ASSUME NEW j \in jobs, Get(j) \/ Dump(j)
          PROVE  \A a \in answers' : a.section = "state_config_obj"
      BY <2>1 DEF Asked, Get, Dump, Answer
    <2> QED
      BY <2>1 DEF Asked, ServerNext, Load, Truncate, RequestFails, AnswerLost,
                  ServerRestarts
  <1> QED
    BY <1>1, <1>2 DEF Asked

\* When an answer leaves the server the file holds what it brings.
LEMMA ServerKeepsCopy ==
    ASSUME ServerShape, OneAtATime, Asked, CopyFollows, ServerNext,
           UNCHANGED <<serverStateConfig, dialog>>
    PROVE  CopyFollows'
  <1>1. ASSUME NEW j \in jobs, Get(j), orderly
        PROVE  CopyFollows'
    <2>1. j.pc = "load"
      BY <1>1 DEF Get, ServerShape, IsJob
    <2>2. jobs = {j} /\ ~torn /\ answers = {}
      BY <1>1, <2>1 DEF OneAtATime, ServerShape, CopyFollows
    <2>3. jobs' = {} /\ UNCHANGED file /\ FileRead = file
      BY <1>1, <2>2 DEF Get, FileRead
    <2>4. CASE j.asker
      <3>1. j.section = "state_config_obj"
        BY <2>4 DEF Asked
      <3>2. PICK a : a = [id |-> j.id, op |-> j.op, section |-> j.section,
                          config |-> file["state_config_obj"]]
        OBVIOUS
      <3>3. answers' = {a}
        BY <1>1, <2>2, <2>3, <2>4, <3>1, <3>2 DEF Get, Answer
      <3>4. a.config = file["state_config_obj"]
        BY <3>2
      <3> QED
        BY <2>3, <3>3, <3>4 DEF CopyFollows
    <2>5. CASE ~j.asker
      BY <1>1, <2>2, <2>3, <2>5 DEF Get, Answer, CopyFollows
    <2> QED
      BY <2>4, <2>5
  <1>2. ASSUME NEW j \in jobs, Dump(j), orderly
        PROVE  CopyFollows'
    <2>1. jobs = {j} /\ ~j.over /\ j.read = file /\ answers = {}
      BY <1>2 DEF Dump, OneAtATime, CopyFollows
    <2>2. jobs' = {}
      BY <1>2, <2>1 DEF Dump
    <2>3. file' = [file EXCEPT ![j.section] = j.body]
      BY <1>2, <2>1 DEF Dump, WithSection
    <2>4. IsFile(file) /\ j.section \in Section
      BY DEF ServerShape, IsJob
    <2>5. CASE j.asker
      <3>1. j.section = "state_config_obj"
        BY <2>5 DEF Asked
      <3>2. PICK a : a = [id |-> j.id, op |-> j.op, section |-> j.section,
                          config |-> j.body]
        OBVIOUS
      <3>3. answers' = {a}
        BY <1>2, <2>1, <2>5, <3>2 DEF Dump, Answer
      <3>4. a.config = j.body
        BY <3>2
      <3>5. file'["state_config_obj"] = j.body
        BY <2>3, <2>4, <3>1, FileChanged
      <3> QED
        BY <2>2, <3>3, <3>4, <3>5 DEF CopyFollows
    <2>6. CASE ~j.asker
      <3>1. answers' = {}
        BY <1>2, <2>1, <2>6 DEF Dump, Answer
      <3>2. j.section = "hot_key_config_obj"
        BY <1>2, <2>6 DEF CopyFollows
      <3>3. file'["state_config_obj"] = file["state_config_obj"]
        BY <2>3, <2>4, <3>2, FileChanged, Fields
      <3>4. dialog = "mounted" => serverStateConfig = file["state_config_obj"]
        BY <1>2, <2>1, <2>6 DEF CopyFollows
      <3> QED
        BY <2>2, <3>1, <3>3, <3>4 DEF CopyFollows
    <2> QED
      BY <2>5, <2>6
  <1>3. ASSUME NEW j \in jobs, Load(j) \/ Truncate(j), orderly
        PROVE  CopyFollows'
    <2>1. jobs = {j} /\ answers = {} /\ UNCHANGED <<file, answers>>
      BY <1>3 DEF OneAtATime, CopyFollows, Load, Truncate
    <2>2. jobs' # {}
      BY <1>3 DEF Load, Truncate, Becomes
    <2>3. (\A k \in jobs' : ~k.asker) => ~j.asker
      <3>1. PICK k : k \in jobs'
        BY <2>2
      <3>2. k.asker = j.asker
        BY <2>1, <3>1, JobsAfter DEF SameRequest
      <3> QED
        BY <3>1, <3>2
    <2>4. \A k \in jobs' : ~k.asker => k.section = "hot_key_config_obj"
      BY <1>3, JobsAfter DEF CopyFollows, SameRequest
    <2> QED
      BY <1>3, <2>1, <2>3, <2>4 DEF CopyFollows
  <1>4. ASSUME ServerRestarts
        PROVE  CopyFollows'
    BY <1>4 DEF ServerRestarts, CopyFollows
  <1>5. ASSUME ~orderly'
        PROVE  CopyFollows'
    BY <1>5 DEF CopyFollows
  <1>6. orderly \/ ~orderly'
    BY DEF ServerNext, Get, Load, Truncate, Dump, RequestFails, AnswerLost,
           ServerRestarts
  <1>7. /\ \A j \in jobs : RequestFails(j) => ~orderly'
        /\ \A a \in answers : AnswerLost(a) => ~orderly'
    BY DEF RequestFails, AnswerLost
  <1> QED
    BY <1>1, <1>2, <1>3, <1>4, <1>5, <1>6, <1>7 DEF ServerNext

-----------------------------------------------------------------------------
(* Steps of the page.                                                      *)

\* A request ends the order of requests or finds none under way.
LEMMA PostKeepsCopy ==
    ASSUME Asked, CopyFollows,
           NEW op \in {"get", "modify"}, NEW section \in Section, NEW body,
           NEW asker \in BOOLEAN, PostFor(op, section, body, asker),
           asker => section = "state_config_obj",
           ~asker => /\ section = "hot_key_config_obj"
                     /\ UNCHANGED <<serverStateConfig, dialog>>
    PROVE  Asked' /\ CopyFollows'
  <1> PICK k : k = Request(op, section, body, asker)
    OBVIOUS
  <1>1. k.section = section /\ k.asker = asker
    BY DEF Request
  <1>2. /\ jobs' = jobs \cup {k} /\ UNCHANGED <<file, answers>>
        /\ orderly' = (orderly /\ jobs = {} /\ answers = {})
    BY DEF PostFor
  <1>3. Asked'
    BY <1>1, <1>2 DEF Asked
  <1>4. CASE asker
    <2>1. k.asker
      BY <1>1, <1>4
    <2>2. orderly' => orderly /\ jobs' = {k} /\ answers' = {}
      BY <1>2
    <2> QED
      BY <1>3, <2>1, <2>2 DEF CopyFollows
  <1>5. CASE ~asker
    <2>1. section = "hot_key_config_obj" /\ UNCHANGED <<serverStateConfig, dialog>>
      BY <1>5
    <2>2. k.section = "hot_key_config_obj"
      BY <1>1, <2>1
    <2>3. orderly' => orderly /\ jobs = {} /\ jobs' = {k} /\ answers' = {} /\ answers = {}
      BY <1>2
    <2> QED
      BY <1>2, <1>3, <2>1, <2>2, <2>3 DEF CopyFollows
  <1> QED
    BY <1>3, <1>4, <1>5

\* An answer becomes the dialog's copy.
LEMMA AnswerKeeps ==
    ASSUME OtherInv, NEW a \in answers, AnswerArrives(a)
    PROVE  OtherInv'
  <1> USE DEF OtherInv
  <1>1. /\ answers' = answers \ {a} /\ serverStateConfig' = a.config
        /\ UNCHANGED <<otherConfig, storage, dialog, formDataGlobal, lossLocked,
                       edits, pageLoads>>
        /\ UNCHANGED <<file, torn, jobs, sent, mishaps, orderly, saved>>
    BY DEF AnswerArrives, Taken
  <1>2. a.config \in Held
    BY DEF Settings, ContentsIn, Asked
  <1>3. ContentsIn(Held, "state_config_obj")'
    <2>1. ContentsIn(Held, "state_config_obj")
      BY DEF Settings
    <2>2. UNCHANGED Held
      BY DEF Held, SoundConfigs, Sound, StandsFor, Config
    <2> QED
      BY <1>1, <2>1, <2>2 DEF ContentsIn
  <1>4. Settings' /\ StoredIsShown'
    BY <1>1, <1>2, <1>3 DEF Settings, StoredIsShown
  <1>5. ServerShape' /\ OneAtATime' /\ Asked' /\ PageShape'
    BY <1>1 DEF ServerShape, OneAtATime, Asked, PageShape
  <1>6. CopyFollows'
    BY <1>1 DEF CopyFollows
  <1> QED
    BY <1>4, <1>5, <1>6

\* A step of the server under the settings dialog.
LEMMA ServerStepKeeps ==
    ASSUME OtherInv, ServerNext, UNCHANGED pageVars
    PROVE  OtherInv'
  <1> USE DEF OtherInv
  <1>1. UNCHANGED <<otherConfig, storage, serverStateConfig, dialog,
                    formDataGlobal, lossLocked, edits, pageLoads>>
    BY DEF pageVars
  <1>2. ContentsIn(Held, "state_config_obj")'
    <2>1. Nothing["state_config_obj"] \in Held
      BY DEF Held, NoConfig
    <2> QED
      BY <2>1, ServerKeepsContents, Fields DEF Settings
  <1>3. Settings' /\ StoredIsShown' /\ PageShape'
    BY <1>1, <1>2 DEF Settings, StoredIsShown, PageShape
  <1>4. ServerShape' /\ OneAtATime' /\ Asked' /\ CopyFollows'
    BY <1>1, ServerKeepsShape, ServerKeepsOrder, ServerKeepsAsked, ServerKeepsCopy
  <1> QED
    BY <1>3, <1>4

\* The steps that send a request.
LEMMA PostStepKeeps ==
    ASSUME OtherInv, Mount \/ ModifyStateConfig \/ HotKeysSavedElsewhere
    PROVE  OtherInv'
  <1> USE DEF OtherInv
  <1>1. UNCHANGED <<otherConfig, storage, serverStateConfig>>
    BY DEF Mount, ModifyStateConfig, HotKeysSavedElsewhere, pageVars
  <1>2. PageShape'
    BY DEF Mount, ModifyStateConfig, HotKeysSavedElsewhere, pageVars, PageShape
  <1>3. ASSUME NEW op \in {"get", "modify"}, NEW section \in Section, NEW body,
               NEW asker \in BOOLEAN, PostFor(op, section, body, asker),
               section = "state_config_obj" /\ op = "modify" => body \in Held,
               asker => section = "state_config_obj",
               ~asker => /\ section = "hot_key_config_obj"
                         /\ UNCHANGED <<serverStateConfig, dialog>>
        PROVE  OtherInv'
    <2>1. ServerShape' /\ OneAtATime'
      BY <1>3, PostKeeps
    <2>2. ContentsIn(Held, "state_config_obj")'
      <3>1. Nothing["state_config_obj"] \in Held
        BY DEF Held, NoConfig
      <3> QED
        BY <1>3, <3>1, PostKeepsContents, Fields DEF Settings
    <2>3. Asked' /\ CopyFollows'
      BY <1>3, PostKeepsCopy
    <2>4. Settings' /\ StoredIsShown'
      BY <1>1, <2>2 DEF Settings, StoredIsShown
    <2> QED
      BY <1>2, <2>1, <2>3, <2>4
  <1>4. CASE Mount /\ formDataGlobal
    <2>1. PostFor("get", "state_config_obj", NoConfig, TRUE)
      BY <1>4 DEF Mount, Post
    <2> QED
      BY <1>3, <2>1, Fields
  <1>5. CASE Mount /\ ~formDataGlobal
    <2>1. UNCHANGED serverVars /\ dialog' = "crashed"
      BY <1>5 DEF Mount
    <2> QED
      BY <1>1, <1>2, <2>1 DEF serverVars, ServerShape, OneAtATime, Asked, CopyFollows,
           Settings, StoredIsShown, ContentsIn
  <1>6. CASE ModifyStateConfig
    <2>1. PostFor("modify", "state_config_obj", otherConfig, TRUE)
      BY <1>6 DEF ModifyStateConfig, Post
    <2>2. otherConfig \in Held
      BY DEF Settings, Held
    <2> QED
      BY <1>3, <2>1, <2>2, Fields
  <1>7. CASE HotKeysSavedElsewhere
    <2>1. PostFor("modify", "hot_key_config_obj", HotKeysElsewhere, FALSE)
      BY <1>7 DEF HotKeysSavedElsewhere
    <2>2. UNCHANGED <<serverStateConfig, dialog>>
      BY <1>7 DEF HotKeysSavedElsewhere, pageVars
    <2> QED
      BY <1>3, <2>1, <2>2, Fields
  <1> QED
    BY <1>4, <1>5, <1>6, <1>7

\* A handler of the table, whatever it stores.
LEMMA HandlerKeeps ==
    ASSUME OtherInv, Settings' /\ StoredIsShown', edits' \in Nat,
           UNCHANGED <<serverStateConfig, dialog, formDataGlobal, lossLocked,
                       pageLoads, serverVars>>
    PROVE  OtherInv'
  <1>1. PageShape'
    BY DEF OtherInv, PageShape
  <1> QED
    BY <1>1, ServerUntouched DEF OtherInv

\* A handler that stores and shows under one key.
LEMMA EditKeeps ==
    ASSUME OtherInv, NEW f \in Field, NEW v \in Version, edits' \in Nat,
           f \in CountFields => v \notin Refused,
           Put(f, f, Edited(f, v))
    PROVE  OtherInv'
  <1>1. Settings' /\ StoredIsShown'
    BY PutKeeps DEF OtherInv
  <1> QED
    BY <1>1, HandlerKeeps DEF Put

\* The page is loaded again.
LEMMA ReloadKeeps ==
    ASSUME OtherInv, Reload
    PROVE  OtherInv'
  <1> USE DEF OtherInv
  <1>1. /\ otherConfig' = Reloaded /\ storage' = storage
        /\ serverStateConfig' = NoConfig /\ dialog' = "unmounted" /\ Forget
        /\ pageLoads' = pageLoads + 1
        /\ UNCHANGED <<formDataGlobal, lossLocked, edits>>
    BY DEF Reload
  <1>2. otherConfig' \in SoundConfigs /\ StoredIsShown'
    BY <1>1, ReloadedKeeps
  <1>3. ServerShape' /\ OneAtATime'
    BY <1>1, ForgetKeeps
  <1>4. ContentsIn(Held, "state_config_obj")'
    BY <1>1, ForgetKeepsContents, Fields DEF Settings
  <1>5. Settings'
    BY <1>1, <1>2, <1>4 DEF Settings, Held
  <1>6. Asked' /\ CopyFollows'
    <2>1. answers' = {} /\ (orderly' => jobs' = {})
      BY <1>1 DEF Forget
    <2>2. \A k \in jobs' : ~k.asker
      <3>1. ASSUME NEW k \in jobs' PROVE ~k.asker
        <4>1. PICK j \in jobs : k = [j EXCEPT !.asker = FALSE]
          BY <1>1 DEF Forget
        <4> QED
          BY <4>1 DEF ServerShape, IsJob
      <3> QED
        BY <3>1
    <2> QED
      BY <1>1, <2>1, <2>2 DEF Asked, CopyFollows
  <1>7. PageShape'
    BY <1>1 DEF PageShape
  <1> QED
    BY <1>2, <1>3, <1>5, <1>6, <1>7

\* The invariant of the settings dialog holds at first.
LEMMA OtherStarts == OtherInit => OtherInv
  <1> SUFFICES ASSUME OtherInit PROVE OtherInv
    OBVIOUS
  <1>1. PageInit /\ ServerInit
    BY DEF OtherInit
  <1>2. file["state_config_obj"] \in Held
    BY <1>1, SavedAssumption DEF ServerInit, Held, SoundConfigs, Sound
  <1>3. Settings
    BY <1>1, <1>2, DefaultIsSound DEF PageInit, ServerInit, Settings, Held, ContentsIn
  <1>4. StoredIsShown /\ PageShape
    BY <1>1 DEF PageInit, StoredIsShown, PageShape
  <1>5. Asked /\ CopyFollows
    BY <1>1 DEF PageInit, ServerInit, Asked, CopyFollows
  <1> QED
    BY <1>1, <1>3, <1>4, <1>5, ServerStarts DEF OtherInv

\* It holds after every step.
LEMMA OtherKeeps == OtherInv /\ [OtherNext]_otherVars => OtherInv'
  <1> SUFFICES ASSUME OtherInv, [OtherNext]_otherVars PROVE OtherInv'
    OBVIOUS
  <1>1. edits \in Nat /\ edits + 1 \in Nat
    BY DEF OtherInv, PageShape
  <1>2. ASSUME NEW f \in ViewFields, NEW v \in Version, ChangeView(f, v)
        PROVE  OtherInv'
    BY <1>1, <1>2, EditKeeps, Fields DEF ChangeView, Edits, Field
  <1>3. ASSUME NEW f \in LimitFields, NEW v \in Version, ChangeLimit(f, v)
        PROVE  OtherInv'
    BY <1>1, <1>3, EditKeeps, Fields DEF ChangeLimit, Edits, Field
  <1>4. ASSUME NEW f \in CountFields, NEW v \in Version, ChangeCount(f, v)
        PROVE  OtherInv'
    BY <1>1, <1>4, EditKeeps, Fields DEF ChangeCount, Edits, Accepts
  <1>5. ASSUME NEW f \in {LeverField, DepthField}, NEW v \in Version, ChangeDisplay(f, v)
        PROVE  OtherInv'
    BY <1>1, <1>5, EditKeeps DEF ChangeDisplay, Edits, Accepts
  <1>6. ASSUME NEW v \in Version, ChangeBnbSwitch(v)
        PROVE  OtherInv'
    BY <1>1, <1>6, EditKeeps, Fields DEF ChangeBnbSwitch, Edits
  <1>7. ASSUME NEW v \in Version, ChangeStopLoss(v)
        PROVE  OtherInv'
    BY <1>1, <1>7, EditKeeps, Fields DEF ChangeStopLoss, Edits
  <1>8. ASSUME NEW v \in Version, ChangeLossLock(v) \/ ChangeLossLockMins(v)
        PROVE  OtherInv'
    BY <1>1, <1>8, EditKeeps, Fields DEF ChangeLossLock, ChangeLossLockMins, Edits
  <1>9. ASSUME NEW v \in Version, ChangeCancelTime(v)
        PROVE  OtherInv'
    <2>1. Settings' /\ StoredIsShown'
      BY <1>9, CancelTimeKeeps DEF ChangeCancelTime, OtherInv
    <2> QED
      BY <1>1, <1>9, <2>1, HandlerKeeps DEF ChangeCancelTime, Edits, Put
  <1>10. ASSUME NEW v \in Version, ChangeCancelSwitch(v)
         PROVE  OtherInv'
    BY <1>1, <1>10, EditKeeps, Fields DEF ChangeCancelSwitch, Edits
  <1>11. ASSUME ChangeBnbAmount \/ LossLock \/ UNCHANGED otherVars
         PROVE  OtherInv'
    <2>1. UNCHANGED <<otherConfig, storage, serverStateConfig, dialog, serverVars>>
      BY <1>11 DEF ChangeBnbAmount, LossLock, otherVars, pageVars
    <2>2. Settings' /\ StoredIsShown'
      BY <2>1 DEF OtherInv, Settings, StoredIsShown, ContentsIn, serverVars
    <2>3. PageShape'
      BY <1>1, <1>11 DEF ChangeBnbAmount, LossLock, otherVars, pageVars, Edits,
                         OtherInv, PageShape
    <2> QED
      BY <2>1, <2>2, <2>3, ServerUntouched DEF OtherInv
  <1>12. ASSUME RestoreServerStateConfig \/ RestoreDefaultStateConfig
         PROVE  OtherInv'
    <2>1. PICK c \in Held : Restore(c)
      BY <1>12, DefaultIsSound DEF RestoreServerStateConfig, OtherInv, Settings,
                                   RestoreDefaultStateConfig, Held
    <2>2. Settings' /\ StoredIsShown'
      BY <2>1, RestoreKeeps DEF OtherInv
    <2> QED
      BY <1>1, <1>12, <2>1, <2>2, HandlerKeeps
      DEF RestoreServerStateConfig, RestoreDefaultStateConfig, Edits, Restore
  <1>13. ASSUME Mount \/ ModifyStateConfig \/ HotKeysSavedElsewhere
         PROVE  OtherInv'
    BY <1>13, PostStepKeeps
  <1>14. ASSUME NEW a \in answers, AnswerArrives(a)
         PROVE  OtherInv'
    BY <1>14, AnswerKeeps
  <1>15. ASSUME ServerNext, UNCHANGED pageVars
         PROVE  OtherInv'
    BY <1>15, ServerStepKeeps
  <1>16. ASSUME Reload
         PROVE  OtherInv'
    BY <1>16, ReloadKeeps
  <1> QED
    BY <1>2, <1>3, <1>4, <1>5, <1>6, <1>7, <1>8, <1>9, <1>10, <1>11, <1>12,
       <1>13, <1>14, <1>15, <1>16 DEF OtherNext

-----------------------------------------------------------------------------
(* The theorems.                                                           *)

\* So it always holds.
LEMMA OtherInvariant == OtherSpec => []OtherInv
  BY OtherStarts, OtherKeeps, PTL DEF OtherSpec

\* What the invariant says of the page and the server.
LEMMA OtherInvShows ==
    ASSUME OtherInv
    PROVE  /\ OtherTypeOK /\ SerialSavesKept /\ StoredIsShown
           /\ FieldsNotMixed /\ ServerColumnCurrent
  <1>1. OtherTypeOK
    BY DEF OtherInv, Settings, PageShape, Held, SoundConfigs, OtherTypeOK
  <1>2. SerialSavesKept
    BY DEF OtherInv, OneAtATime, ServerShape, SerialSavesKept
  <1>3. StoredIsShown /\ FieldsNotMixed
    BY DEF OtherInv, Settings, SoundConfigs, Sound, FieldsNotMixed
  <1>4. ASSUME orderly, jobs = {}, answers = {}, dialog = "mounted"
        PROVE  ServerColumnCurrent
    <2>1. serverStateConfig = file["state_config_obj"]
      BY <1>4 DEF OtherInv, CopyFollows
    <2>2. FileRead = file
      BY <1>4 DEF OtherInv, OneAtATime, ServerShape, FileRead
    <2> QED
      BY <2>1, <2>2 DEF ServerColumnCurrent, Row, ServerFieldOf
  <1> QED
    BY <1>1, <1>2, <1>3, <1>4 DEF ServerColumnCurrent

\* The settings and the server's file keep their types (config.py,
\* OtherConfigModal.js).
THEOREM OtherTypes == OtherSpec => []OtherTypeOK
  BY OtherInvShows, OtherInvariant, PTL

\* Saving hot keys loses no settings and the other way round, for any
\* contents and any number of requests, restarts and losses, as long as
\* nobody asks while another is being answered (load_user_config,
\* save_user_config).
THEOREM SavesDoNotLose == OtherSpec => []SerialSavesKept
  BY OtherInvShows, OtherInvariant, PTL

\* What localStorage holds is what the page shows after every order of
\* edits, restores, saves, losses and loads of the page.
THEOREM StorageFollowsPage == OtherSpec => []StoredIsShown
  BY OtherInvShows, OtherInvariant, PTL

\* No field's array comes back as another's, neither from localStorage nor
\* from the server, and no refused number comes back at all.
THEOREM SettingsKeepTheirFields == OtherSpec => []FieldsNotMixed
  BY OtherInvShows, OtherInvariant, PTL

\* The server's column of the dialog shows a user who waits for each answer
\* what the server holds of each row's field, in every row but the
\* recommission's, which shows the address.
THEOREM ColumnShowsServer == OtherSpec => []ServerColumnCurrent
  BY OtherInvShows, OtherInvariant, PTL

-----------------------------------------------------------------------------
(* The hot-key dialog.                                                      *)

GoodKeys == {c \in HotConfig : WellFormed(c)}

\* Everything on the way to and from the server can be drawn.
Drawable ==
    /\ hotKeyConfigObj \in GoodKeys
    /\ ContentsIn(GoodKeys, "hot_key_config_obj")
    /\ \A j \in jobs : j.section = "hot_key_config_obj" /\ j.body \in GoodKeys
    /\ \A a \in answers : a.section = "hot_key_config_obj"

\* The page waits for the configuration at most once, and until it has come
\* the page has none and no modal.
LoadsOnce ==
    /\ \A j, k \in jobs : j.op = "get" /\ j.asker /\ k.op = "get" /\ k.asker => j = k
    /\ \A a, b \in answers : a.op = "get" /\ b.op = "get" => a = b
    /\ (\E j \in jobs : j.op = "get" /\ j.asker) => \A a \in answers : a.op # "get"
    /\ loaded => /\ \A j \in jobs : ~(j.op = "get" /\ j.asker)
                 /\ \A a \in answers : a.op # "get"
    /\ ~loaded => ~modalVisible /\ hotKeyConfigObj = NoHotKeys

\* Where the edits of a careful user are: in the file, or underway, in the
\* configuration that was asked for and in the page that has not edited yet.
EditsKept ==
    orderly /\ careful =>
        /\ (\A j \in jobs : j.op = "get") => file["hot_key_config_obj"] = wanted
        /\ \A j \in jobs : j.op = "modify" => j.body = wanted
        /\ \A a \in answers : a.op = "get" => a.config = wanted
        /\ loaded /\ ~editedSince => hotKeyConfigObj = wanted

HotInv ==
    /\ ServerShape /\ OneAtATime /\ HotTypeOK
    /\ Drawable /\ LoadsOnce /\ ModalDrawable /\ EditsKept

\* The hot keys have a section of the file.
LEMMA HotSection == "hot_key_config_obj" \in Section
  BY DEF Section

\* A file without hot keys can be drawn.
LEMMA EmptyIsGood == NoHotKeys \in GoodKeys /\ \A k \in Key : NoHotKeys[k] = NoBinding
  BY NoHotKeysAssumption DEF GoodKeys, HotConfig, WellFormed

\* reDefaultConfig's table fits the functions.
LEMMA DefaultsAreGood == DefaultHotKeys \in GoodKeys
  <1>1. ASSUME NEW k \in Key
        PROVE  /\ DefaultHotKeys[k] \in Binding \cup {NoBinding}
               /\ DefaultHotKeys[k] # NoBinding =>
                      /\ k \in Bindable
                      /\ DefaultHotKeys[k].paras = Arity[DefaultHotKeys[k].index]
    <2>1. CASE \E b \in DefaultBindings : b[1] = k
      <3>1. PICK b : /\ b = CHOOSE c \in DefaultBindings : c[1] = k
                     /\ b \in DefaultBindings /\ b[1] = k
        BY <2>1
      <3>2. DefaultHotKeys[k] = [index |-> b[2], paras |-> b[3]]
        BY <2>1, <3>1 DEF DefaultHotKeys
      <3>3. k \in Bindable /\ b[2] \in Function /\ b[3] = Arity[b[2]]
        BY <3>1, DefaultsAssumption
      <3>4. b[3] \in Nat
        BY <3>3, ArityAssumption
      <3> QED
        BY <3>2, <3>3, <3>4 DEF Binding
    <2>2. CASE ~\E b \in DefaultBindings : b[1] = k
      BY <2>2 DEF DefaultHotKeys
    <2> QED
      BY <2>1, <2>2
  <1>2. DefaultHotKeys = [k \in Key |-> DefaultHotKeys[k]]
    BY DEF DefaultHotKeys
  <1> QED
    BY <1>1, <1>2 DEF GoodKeys, HotConfig, WellFormed

\* Binding a key to a function with the parameters it takes.
LEMMA BoundIsGood ==
    ASSUME NEW c \in GoodKeys, NEW k \in Key, k \in Bindable,
           NEW f \in Function, NEW n \in Nat, n = Arity[f]
    PROVE  /\ Bound(f, n) \in Binding
           /\ [c EXCEPT ![k] = Bound(f, n)] \in GoodKeys
  <1> PICK b : b = Bound(f, n)
    OBVIOUS
  <1>1. b \in Binding /\ b.index = f /\ b.paras = n
    BY DEF Bound, Binding
  <1> QED
    BY <1>1 DEF GoodKeys, HotConfig, WellFormed

\* Taking the function from a key.
LEMMA DeletedIsGood ==
    ASSUME NEW c \in GoodKeys, NEW k \in Key
    PROVE  [c EXCEPT ![k] = NoBinding] \in GoodKeys
  BY DEF GoodKeys, HotConfig, WellFormed

\* Any binding makes a configuration, if not one that can be drawn.
LEMMA BoundIsConfig ==
    ASSUME NEW c \in HotConfig, NEW k \in Key, NEW b \in Binding \cup {NoBinding}
    PROVE  [c EXCEPT ![k] = b] \in HotConfig
  BY DEF HotConfig

\* The first function under a heading is one of the table.
LEMMA FirstFunctions == \A h \in Headings : FirstFunction[h] \in Function
  <1>1. DOMAIN FirstFunction = {"all", "other", "trade", "open", "close", "stop"}
    BY DEF FirstFunction
  <1> QED
    BY <1>1, HeadingsAssumption DEF FirstFunction, Function

-----------------------------------------------------------------------------
(* Steps of the forms, which only the page's own state sees.               *)

\* A step of the add form that keeps the types.
LEMMA AddFormKeeps ==
    ASSUME HotInv, HotTypeOK', KeepForAdd
    PROVE  HotInv'
  BY DEF HotInv, KeepForAdd, modifyForm, intent, serverVars, ServerShape,
         OneAtATime, Drawable, ContentsIn, GoodKeys, LoadsOnce, ModalDrawable,
         ModalShown, EditsKept

\* The inputs of the add form.
LEMMA AddForm ==
    ASSUME HotInv,
           \/ FocusKeyCode
           \/ \E k \in Key : OnKeyDown(k)
           \/ \E f \in Chosen : OnChangeAddConfigFun(f)
           \/ \E h \in Headings : OnChangeAddSelectType(h)
           \/ \E i \in 1 .. 8 : OnChangePara(i)
    PROVE  HotInv'
  <1>1. HotTypeOK
    BY DEF HotInv
  <1>2. KeepForAdd
    BY DEF FocusKeyCode, OnKeyDown, OnChangeAddConfigFun, OnChangeAddSelectType,
           OnChangePara
  <1>3. /\ UNCHANGED <<hotKeyConfigObj, modalVisible, modifyConfigKey,
                       modifyConfigParaArr, hotLoads, loaded, editedSince,
                       careful, wanted>>
        /\ inputs' \in Nat
    BY <1>1, <1>2 DEF KeepForAdd, Input, modifyForm, intent, HotTypeOK
  <1>4. /\ addConfigKeyCodeChange' \in BOOLEAN
        /\ addConfigKeyCode' \in (Key \cap Bindable) \cup {NoKey}
    BY <1>1 DEF FocusKeyCode, OnKeyDown, OnChangeAddConfigFun,
                OnChangeAddSelectType, OnChangePara, HotTypeOK
  <1>5. /\ addConfigFunIndex' \in Function /\ storedFunIndex' \in Function
        /\ addConfigParaArr' \in Nat
    BY <1>1, FirstFunctions, ArityAssumption, ChosenAssumption
    DEF FocusKeyCode, OnKeyDown, OnChangeAddConfigFun, OnChangeAddSelectType,
        OnChangePara, Longer, HotTypeOK
  <1>6. HotTypeOK'
    BY <1>1, <1>3, <1>4, <1>5 DEF HotTypeOK, HotConfig, Binding
  <1> QED
    BY <1>2, <1>6, AddFormKeeps

\* A modal opens on a key that has a function, and no step of the forms
\* takes it away.
LEMMA ModalSteps ==
    ASSUME HotInv,
           \/ \E k \in Key : OpenModal(k)
           \/ CloseModal
           \/ \E i \in 1 .. 8 : OnChangeModifyPara(i)
    PROVE  HotInv'
  <1>1. HotTypeOK /\ LoadsOnce /\ ModalDrawable
    BY DEF HotInv
  <1>2. /\ UNCHANGED <<hotKeyConfigObj, addConfigKeyCodeChange, addConfigKeyCode,
                       addConfigFunIndex, addConfigParaArr, storedFunIndex,
                       hotLoads, loaded, editedSince, careful, wanted>>
        /\ UNCHANGED serverVars
        /\ inputs' \in Nat
    BY <1>1 DEF OpenModal, CloseModal, OnChangeModifyPara, KeepForModify, Input,
                addForm, intent, HotTypeOK
  <1> DEFINE ModalFits ==
        /\ modalVisible' \in BOOLEAN /\ modifyConfigKey' \in Key \cup {NoKey}
        /\ modifyConfigParaArr' \in Nat
        /\ ModalShown' => hotKeyConfigObj[modifyConfigKey'] # NoBinding
        /\ ~loaded => ~modalVisible'
  <1>3. ModalFits
    <2>1. ASSUME NEW k \in Key, OpenModal(k)
          PROVE  ModalFits
      <3>1. hotKeyConfigObj[k] \in Binding
        BY <1>1, <2>1 DEF OpenModal, HotTypeOK, HotConfig
      <3>2. loaded
        BY <1>1, <2>1, EmptyIsGood DEF OpenModal, LoadsOnce
      <3> QED
        BY <2>1, <3>1, <3>2 DEF OpenModal, Binding, HotTypeOK
    <2>2. CASE CloseModal
      BY <1>1, <2>2 DEF CloseModal, HotTypeOK, ModalShown
    <2>3. ASSUME NEW i \in 1 .. 8, OnChangeModifyPara(i)
          PROVE  ModalFits
      BY <1>1, <2>3 DEF OnChangeModifyPara, Longer, HotTypeOK, ModalShown,
                        ModalDrawable, LoadsOnce
    <2> QED
      BY <2>1, <2>2, <2>3
  <1>4. HotTypeOK'
    BY <1>1, <1>2, <1>3 DEF HotTypeOK, HotConfig, Binding
  <1>5. ModalDrawable'
    BY <1>2, <1>3 DEF ModalDrawable
  <1>6. LoadsOnce'
    BY <1>1, <1>2, <1>3 DEF LoadsOnce, serverVars
  <1> QED
    BY <1>2, <1>4, <1>5, <1>6 DEF HotInv, serverVars, ServerShape, OneAtATime,
       Drawable, ContentsIn, GoodKeys, EditsKept

-----------------------------------------------------------------------------
(* Edits.                                                                  *)

\* Sending an edit: of a careful user it is made from what the page shows,
\* and makes what is wanted.
LEMMA ModifyKeeps ==
    ASSUME HotInv, HotTypeOK', NEW config \in GoodKeys, NEW meant,
           ModifyHotKey(config, meant),
           hotKeyConfigObj = wanted => config = meant,
           modalVisible' = modalVisible,
           modifyConfigKey' \in {modifyConfigKey, NoKey}
    PROVE  HotInv'
  <1>1. /\ PostFor("modify", "hot_key_config_obj", config, TRUE)
        /\ editedSince' = TRUE /\ careful' = (careful /\ loaded /\ ~editedSince)
        /\ wanted' = meant /\ UNCHANGED <<hotKeyConfigObj, loaded>>
    BY DEF ModifyHotKey, Post
  <1> PICK k : k = Request("modify", "hot_key_config_obj", config, TRUE)
    OBVIOUS
  <1>2. k.op = "modify" /\ k.section = "hot_key_config_obj" /\ k.body = config
    BY DEF Request
  <1>3. /\ jobs' = jobs \cup {k} /\ UNCHANGED <<file, answers>>
        /\ orderly' = (orderly /\ jobs = {} /\ answers = {})
    BY <1>1 DEF PostFor
  <1>4. ServerShape' /\ OneAtATime'
    BY <1>1, HotSection, PostKeeps DEF HotInv
  <1>5. ContentsIn(GoodKeys, "hot_key_config_obj")'
    <2>1. ContentsIn(GoodKeys, "hot_key_config_obj") /\ NoHotKeys \in GoodKeys
      BY EmptyIsGood DEF HotInv, Drawable
    <2> QED
      BY <1>1, <2>1, HotSection, PostKeepsContents DEF NoHotKeys
  <1>6. Drawable'
    BY <1>1, <1>2, <1>3, <1>5 DEF HotInv, Drawable
  <1>7. LoadsOnce' /\ ModalDrawable'
    BY <1>1, <1>2, <1>3 DEF HotInv, LoadsOnce, ModalDrawable, ModalShown
  <1>8. EditsKept'
    <2> SUFFICES ASSUME orderly', careful'
                 PROVE  EditsKept'
      BY DEF EditsKept
    <2>1. /\ orderly /\ careful /\ loaded /\ ~editedSince
          /\ jobs' = {k} /\ answers' = {}
      BY <1>1, <1>3
    <2>2. hotKeyConfigObj = wanted
      BY <2>1 DEF HotInv, EditsKept
    <2>3. k.body = wanted'
      BY <1>1, <1>2, <2>2
    <2> QED
      BY <1>1, <1>2, <2>1, <2>3 DEF EditsKept
  <1> QED
    BY <1>4, <1>6, <1>7, <1>8 DEF HotInv

\* The three edits, each of the configuration that the page shows:
LEMMA Binds ==
    ASSUME HotInv, BindKeyboardToFun
    PROVE  HotInv'
  <1> PICK b, k : b = Bound(addConfigFunIndex, addConfigParaArr) /\ k = addConfigKeyCode
    OBVIOUS
  <1>1. /\ k # NoKey /\ ParasFit(addConfigFunIndex, addConfigParaArr)
        /\ ModifyHotKey([hotKeyConfigObj EXCEPT ![k] = b], [wanted EXCEPT ![k] = b])
        /\ addConfigKeyCode' = NoKey /\ addConfigFunIndex' = 0
        /\ addConfigParaArr' = 0
        /\ UNCHANGED <<addConfigKeyCodeChange, storedFunIndex, modifyForm>>
    BY DEF BindKeyboardToFun
  <1>2. HotTypeOK /\ hotKeyConfigObj \in GoodKeys
    BY DEF HotInv, Drawable
  <1>3. /\ k \in Key /\ k \in Bindable /\ addConfigFunIndex \in Function
        /\ addConfigParaArr \in Nat /\ addConfigParaArr = Arity[addConfigFunIndex]
    BY <1>1, <1>2 DEF HotTypeOK, ParasFit
  <1>4. b \in Binding /\ [hotKeyConfigObj EXCEPT ![k] = b] \in GoodKeys
    BY <1>2, <1>3, BoundIsGood
  <1>5. [wanted EXCEPT ![k] = b] \in HotConfig
    BY <1>2, <1>3, <1>4, BoundIsConfig DEF HotTypeOK
  <1>6. HotTypeOK'
    BY <1>1, <1>2, <1>5 DEF HotTypeOK, ModifyHotKey, modifyForm, Function, HotConfig, Binding
  <1>7. UNCHANGED <<modalVisible, modifyConfigKey>>
    BY <1>1 DEF modifyForm
  <1> QED
    BY <1>1, <1>4, <1>6, <1>7, ModifyKeeps

\* deleteConfig,
LEMMA Deletes ==
    ASSUME HotInv, NEW k \in Key, DeleteConfig(k)
    PROVE  HotInv'
  <1>1. /\ ModifyHotKey([hotKeyConfigObj EXCEPT ![k] = NoBinding],
                        [wanted EXCEPT ![k] = NoBinding])
        /\ UNCHANGED <<addForm, modifyForm>>
    BY DEF DeleteConfig, Deleted
  <1>2. HotTypeOK /\ hotKeyConfigObj \in GoodKeys
    BY DEF HotInv, Drawable
  <1>3. [hotKeyConfigObj EXCEPT ![k] = NoBinding] \in GoodKeys
    BY <1>2, DeletedIsGood
  <1>4. [wanted EXCEPT ![k] = NoBinding] \in HotConfig
    BY <1>2, BoundIsConfig DEF HotTypeOK
  <1>5. HotTypeOK'
    BY <1>1, <1>2, <1>4
    DEF HotTypeOK, ModifyHotKey, addForm, modifyForm, HotConfig, Binding
  <1>6. UNCHANGED <<modalVisible, modifyConfigKey>>
    BY <1>1 DEF modifyForm
  <1> QED
    BY <1>1, <1>3, <1>5, <1>6, ModifyKeeps

\* reDefaultConfig,
LEMMA ReDefaults ==
    ASSUME HotInv, ReDefaultConfig
    PROVE  HotInv'
  <1>1. /\ ModifyHotKey(DefaultHotKeys, DefaultHotKeys)
        /\ UNCHANGED <<addForm, modifyForm>>
    BY DEF ReDefaultConfig
  <1>2. HotTypeOK
    BY DEF HotInv
  <1>3. HotTypeOK'
    BY <1>1, <1>2, DefaultsAreGood
    DEF HotTypeOK, ModifyHotKey, addForm, modifyForm, GoodKeys, HotConfig, Binding
  <1>4. UNCHANGED <<modalVisible, modifyConfigKey>>
    BY <1>1 DEF modifyForm
  <1> QED
    BY <1>1, <1>3, <1>4, DefaultsAreGood, ModifyKeeps

\* and modifyHotkeyPara.
LEMMA Modifies ==
    ASSUME HotInv, ModifyHotkeyPara
    PROVE  HotInv'
  <1> PICK k, f, b : /\ k = modifyConfigKey
                     /\ f = hotKeyConfigObj[k].index
                     /\ b = Bound(f, modifyConfigParaArr)
    OBVIOUS
  <1>1. /\ ModalShown /\ ParasFit(f, modifyConfigParaArr)
        /\ ModifyHotKey([hotKeyConfigObj EXCEPT ![k] = b], [wanted EXCEPT ![k] = b])
        /\ modifyConfigKey' = NoKey /\ modifyConfigParaArr' = 0
        /\ UNCHANGED <<addForm, modalVisible>>
    BY DEF ModifyHotkeyPara
  <1>2. HotTypeOK /\ hotKeyConfigObj \in GoodKeys /\ ModalDrawable
    BY DEF HotInv, Drawable
  <1>3. k \in Key /\ hotKeyConfigObj[k] # NoBinding
    BY <1>1, <1>2 DEF ModalShown, ModalDrawable, HotTypeOK
  <1>4. /\ f \in Function /\ k \in Bindable
        /\ modifyConfigParaArr \in Nat /\ modifyConfigParaArr = Arity[f]
    BY <1>1, <1>2, <1>3 DEF HotTypeOK, ParasFit, GoodKeys, HotConfig, Binding, WellFormed
  <1>5. b \in Binding /\ [hotKeyConfigObj EXCEPT ![k] = b] \in GoodKeys
    BY <1>2, <1>3, <1>4, BoundIsGood
  <1>6. [wanted EXCEPT ![k] = b] \in HotConfig
    BY <1>2, <1>3, <1>5, BoundIsConfig DEF HotTypeOK
  <1>7. HotTypeOK'
    BY <1>1, <1>2, <1>6 DEF HotTypeOK, ModifyHotKey, addForm, HotConfig, Binding
  <1> QED
    BY <1>1, <1>5, <1>7, ModifyKeeps

-----------------------------------------------------------------------------
(* Loading and answers.                                                    *)

\* The page is loaded and asks for the configuration.
LEMMA Loads ==
    ASSUME HotInv, HotLoad
    PROVE  HotInv'
  <1>1. /\ hotKeyConfigObj' = NoHotKeys /\ loaded' = FALSE /\ editedSince' = FALSE
        /\ answers' = {} /\ hotLoads' = hotLoads + 1
        /\ orderly' = (orderly /\ jobs = {} /\ answers = {})
        /\ UNCHANGED <<inputs, storedFunIndex, careful, wanted, file, torn, saved>>
    BY DEF HotLoad
  <1>2. /\ addConfigKeyCodeChange' = FALSE /\ addConfigKeyCode' = NoKey
        /\ addConfigFunIndex' = storedFunIndex /\ addConfigParaArr' = 0
        /\ modalVisible' = FALSE /\ modifyConfigKey' = NoKey
        /\ modifyConfigParaArr' = 0
    BY DEF HotLoad, FormsReset
  <1> PICK k : k = Request("get", "hot_key_config_obj", NoHotKeys, TRUE)
    OBVIOUS
  <1>3. /\ IsJob(k) /\ k.op = "get" /\ k.section = "hot_key_config_obj"
        /\ k.body = NoHotKeys /\ k.pc = "load" /\ k.over = FALSE /\ k.read = Nothing
    BY FilesAssumption, HotSection DEF Request, IsJob, IsFile
  <1>4. ASSUME NEW i \in jobs', i # k
        PROVE  \E j \in jobs : /\ IsJob(i) /\ ~i.asker
                               /\ i.section = j.section /\ i.op = j.op
                               /\ i.body = j.body /\ i.read = j.read
    <2>1. PICK j \in jobs : i = [j EXCEPT !.asker = FALSE]
      BY <1>4 DEF HotLoad
    <2>2. IsJob(j)
      BY DEF HotInv, ServerShape
    <2> QED
      BY <2>1, <2>2, FALSE \in BOOLEAN, JobForgotten
  <1>5. k \in jobs' /\ (jobs = {} => jobs' = {k})
    BY DEF HotLoad
  <1>6. ServerShape'
    BY <1>1, <1>3, <1>4 DEF HotInv, ServerShape
  <1>7. OneAtATime'
    <2>1. ASSUME orderly'
          PROVE  jobs' = {k} /\ ~torn' /\ file' = saved'
      BY <1>1, <1>5, <2>1 DEF HotInv, OneAtATime, ServerShape
    <2> QED
      BY <1>3, <2>1, <1>6 DEF OneAtATime, ServerShape
  <1>8. Drawable'
    <2>1. \A i \in jobs' : /\ i.section = "hot_key_config_obj" /\ i.body \in GoodKeys
                           /\ i.read["hot_key_config_obj"] \in GoodKeys
      BY <1>3, <1>4, EmptyIsGood DEF HotInv, Drawable, ContentsIn, NoHotKeys
    <2> QED
      BY <1>1, <2>1, EmptyIsGood DEF HotInv, Drawable, ContentsIn
  <1>9. HotTypeOK'
    <2>1. HotTypeOK
      BY DEF HotInv
    <2>2. hotKeyConfigObj' \in HotConfig /\ hotLoads' \in Nat
      BY <1>1, <2>1, EmptyIsGood DEF HotTypeOK, GoodKeys
    <2> QED
      BY <1>1, <1>2, <2>1, <2>2 DEF HotTypeOK, HotConfig, Binding
  <1>10. LoadsOnce' /\ ModalDrawable'
    <2>1. \A i \in jobs' : i.asker => i = k
      BY <1>4
    <2>2. \A i, j \in jobs' : i.op = "get" /\ i.asker /\ j.op = "get" /\ j.asker => i = j
      BY <2>1
    <2> QED
      BY <1>1, <1>2, <2>2 DEF LoadsOnce, ModalDrawable, ModalShown
  <1>11. EditsKept'
    <2> SUFFICES ASSUME orderly', careful'
                 PROVE  EditsKept'
      BY DEF EditsKept
    <2>1. jobs = {} /\ orderly /\ careful /\ jobs' = {k}
      BY <1>1, <1>5
    <2>2. file["hot_key_config_obj"] = wanted
      BY <2>1 DEF HotInv, EditsKept
    <2> QED
      BY <1>1, <1>3, <2>1, <2>2 DEF EditsKept
  <1> QED
    BY <1>6, <1>7, <1>8, <1>9, <1>10, <1>11 DEF HotInv

\* The only answer that changes the configuration finds no modal open.
LEMMA HotAnswers ==
    ASSUME HotInv, NEW a \in answers, HotAnswer(a)
    PROVE  HotInv'
  <1>1. /\ answers' = answers \ {a} /\ hotKeyConfigObj' = Received(a)
        /\ loaded' = (loaded \/ a.op = "get")
        /\ UNCHANGED <<addForm, modifyForm, hotLoads, inputs, intent>>
        /\ UNCHANGED <<file, torn, jobs, orderly, saved>>
    BY DEF HotAnswer
  <1>2. /\ HotTypeOK /\ LoadsOnce /\ a.section = "hot_key_config_obj"
        /\ a.config \in GoodKeys /\ hotKeyConfigObj \in GoodKeys
    BY DEF HotInv, Drawable, ContentsIn
  <1>3. ServerShape' /\ OneAtATime'
    BY <1>1 DEF HotInv, ServerShape, OneAtATime
  <1>4. hotKeyConfigObj' \in GoodKeys
    BY <1>1, <1>2 DEF Received
  <1>5. Drawable'
    BY <1>1, <1>4 DEF HotInv, Drawable, ContentsIn
  <1>6. HotTypeOK'
    <2>1. hotKeyConfigObj' \in HotConfig /\ loaded' \in BOOLEAN
      BY <1>1, <1>2, <1>4 DEF GoodKeys, HotTypeOK
    <2> QED
      BY <1>1, <1>2, <2>1 DEF HotTypeOK, addForm, modifyForm, intent, HotConfig, Binding
  <1>7. CASE a.op = "get"
    <2>1. ~loaded /\ ~modalVisible /\ \A b \in answers' : b.op # "get"
      BY <1>1, <1>2, <1>7 DEF LoadsOnce
    <2>2. \A j \in jobs : ~(j.op = "get" /\ j.asker)
      BY <1>2, <1>7 DEF LoadsOnce
    <2>3. LoadsOnce' /\ ModalDrawable'
      BY <1>1, <1>7, <2>1, <2>2 DEF LoadsOnce, ModalDrawable, ModalShown, modifyForm
    <2>4. EditsKept'
      <3>1. orderly /\ careful => a.config = wanted
        BY <1>7 DEF HotInv, EditsKept
      <3> QED
        BY <1>1, <1>7, <3>1 DEF HotInv, EditsKept, Received, intent
    <2> QED
      BY <1>3, <1>5, <1>6, <2>3, <2>4 DEF HotInv
  <1>8. CASE a.op # "get"
    <2>1. hotKeyConfigObj' = hotKeyConfigObj /\ loaded' = loaded
      BY <1>1, <1>2, <1>8 DEF Received, HotTypeOK
    <2>2. LoadsOnce'
      BY <1>1, <1>2, <2>1 DEF LoadsOnce, modifyForm
    <2>3. ModalDrawable'
      BY <1>1, <2>1 DEF HotInv, ModalDrawable, ModalShown, modifyForm
    <2>4. EditsKept'
      BY <1>1, <2>1 DEF HotInv, EditsKept, intent
    <2> QED
      BY <1>3, <1>5, <1>6, <2>2, <2>3, <2>4 DEF HotInv
  <1> QED
    BY <1>7, <1>8

\* An answer goes to the page for a request that the page waits for.
LEMMA AnswersAfter ==
    ASSUME ServerShape, ServerNext, NEW a \in answers', a \notin answers
    PROVE  \E j \in jobs :
               /\ j.asker /\ a.op = j.op /\ a.section = j.section
               /\ \/ Get(j) /\ a.config = FileRead[j.section]
                  \/ Dump(j) /\ j.op = "modify" /\ a.config = j.body
  <1>1. ASSUME NEW j \in jobs, Get(j)
        PROVE  /\ j.asker /\ a.op = j.op /\ a.section = j.section
               /\ a.config = FileRead[j.section]
    BY <1>1 DEF Get, Answer
  <1>2. ASSUME NEW j \in jobs, Dump(j)
        PROVE  /\ j.asker /\ a.op = j.op /\ a.section = j.section
               /\ j.op = "modify" /\ a.config = j.body
    BY <1>2 DEF Dump, Answer, ServerShape, IsJob
  <1>3. \E j \in jobs : Get(j) \/ Dump(j)
    BY DEF ServerNext, Load, Truncate, RequestFails, AnswerLost, ServerRestarts
  <1> QED
    BY <1>1, <1>2, <1>3

\* The server answers the page's request for the configuration once.
LEMMA ServerKeepsLoads ==
    ASSUME HotInv, ServerNext, UNCHANGED hotPage
    PROVE  LoadsOnce'
  <1>1. UNCHANGED <<hotKeyConfigObj, modalVisible, loaded>>
    BY DEF hotPage, modifyForm
  <1>2. ServerShape /\ LoadsOnce
    BY DEF HotInv
  <1> DEFINE Awaited(j) == j.op = "get" /\ j.asker
  <1>3. \A k \in jobs' : Awaited(k) => k \in jobs
    <2>1. ASSUME NEW k \in jobs', Awaited(k)
          PROVE  k \in jobs
      <3>1. ASSUME NEW j \in jobs, Load(j)
            PROVE  k \in jobs
        <4>1. PICK r : r = FileRead
          OBVIOUS
        <4>2. k \in jobs \/ k = [j EXCEPT !.pc = "open", !.read = r]
          BY <3>1, <4>1 DEF Load, Becomes
        <4>3. IsJob(j) /\ j.op = "modify"
          BY <1>2, <3>1 DEF ServerShape, Load
        <4> QED
          BY <2>1, <4>2, <4>3 DEF IsJob
      <3>2. ASSUME NEW j \in jobs, Truncate(j)
            PROVE  k \in jobs
        <4>1. k \in jobs \/ k = [j EXCEPT !.pc = "dump"]
          BY <3>2 DEF Truncate, Becomes
        <4>2. IsJob(j) /\ j.op = "modify"
          BY <1>2, <3>2 DEF ServerShape, Truncate, IsJob
        <4> QED
          BY <2>1, <4>1, <4>2 DEF IsJob
      <3>3. ASSUME NEW j \in jobs, Dump(j)
            PROVE  k \in jobs
        <4>1. PICK i \in jobs : \/ k = i
                                \/ i.pc = "dump" /\ k = [i EXCEPT !.over = TRUE]
          BY <3>3 DEF Dump
        <4>2. IsJob(i)
          BY <1>2 DEF ServerShape
        <4>3. i.pc = "dump" => i.op = "modify"
          BY <4>2 DEF IsJob
        <4> QED
          BY <2>1, <4>1, <4>2, <4>3 DEF IsJob
      <3> QED
        BY <3>1, <3>2, <3>3
        DEF ServerNext, Get, RequestFails, AnswerLost, ServerRestarts
    <2> QED
      BY <2>1
  <1>4. ASSUME NEW a \in answers', a \notin answers, a.op = "get"
        PROVE  /\ \A j \in jobs' : ~Awaited(j)
               /\ ~loaded /\ \A b \in answers' : b.op = "get" => b = a
    <2>1. PICK j \in jobs : Get(j) /\ Awaited(j)
      BY <1>2, <1>4, AnswersAfter DEF Get
    <2>2. jobs' = jobs \ {j} /\ \A i \in jobs : Awaited(i) => i = j
      BY <1>2, <2>1 DEF Get, LoadsOnce
    <2>3. ~loaded /\ \A b \in answers : b.op # "get"
      BY <1>2, <2>1 DEF LoadsOnce
    <2>4. \A b \in answers' : b \in answers \/ b = a
      BY <1>4, <2>1 DEF Get, Answer
    <2> QED
      BY <2>2, <2>3, <2>4
  <1> HIDE DEF Awaited
  <1>5. LoadsOnce' <=>
            /\ \A j, k \in jobs' : Awaited(j) /\ Awaited(k) => j = k
            /\ \A a, b \in answers' : a.op = "get" /\ b.op = "get" => a = b
            /\ (\E j \in jobs' : Awaited(j)) => \A a \in answers' : a.op # "get"
            /\ loaded => /\ \A j \in jobs' : ~Awaited(j)
                         /\ \A a \in answers' : a.op # "get"
            /\ ~loaded => ~modalVisible /\ hotKeyConfigObj = NoHotKeys
    BY <1>1 DEF LoadsOnce, Awaited
  <1>6. /\ \A j, k \in jobs : Awaited(j) /\ Awaited(k) => j = k
        /\ \A a, b \in answers : a.op = "get" /\ b.op = "get" => a = b
        /\ (\E j \in jobs : Awaited(j)) => \A a \in answers : a.op # "get"
        /\ loaded => /\ \A j \in jobs : ~Awaited(j)
                     /\ \A a \in answers : a.op # "get"
        /\ ~loaded => ~modalVisible /\ hotKeyConfigObj = NoHotKeys
    BY <1>2 DEF LoadsOnce, Awaited
  <1> QED
    BY <1>3, <1>4, <1>5, <1>6

\* An edit on its way through the server stays what it was meant to be.
LEMMA ServerKeepsEdits ==
    ASSUME HotInv, ServerNext, UNCHANGED hotPage
    PROVE  EditsKept'
  <1>1. UNCHANGED <<hotKeyConfigObj, loaded, editedSince, careful, wanted>>
    BY DEF hotPage, intent
  <1> SUFFICES ASSUME orderly', careful
               PROVE  EditsKept'
    BY <1>1 DEF EditsKept
  <1>2. orderly
    BY DEF ServerNext, Get, Load, Truncate, Dump, RequestFails, AnswerLost,
           ServerRestarts
  <1>3. ServerShape /\ OneAtATime
    BY DEF HotInv
  <1>4. /\ (\A j \in jobs : j.op = "get") => file["hot_key_config_obj"] = wanted
        /\ \A j \in jobs : j.op = "modify" => j.body = wanted
        /\ \A a \in answers : a.op = "get" => a.config = wanted
        /\ loaded /\ ~editedSince => hotKeyConfigObj = wanted
    BY <1>2 DEF HotInv, EditsKept
  <1>5. \A j \in jobs : j.section = "hot_key_config_obj"
    BY DEF HotInv, Drawable
  <1>6. ASSUME NEW j \in jobs, Get(j)
        PROVE  EditsKept'
    <2>1. jobs = {j} /\ j.pc = "load"
      BY <1>2, <1>3, <1>6 DEF OneAtATime, ServerShape, IsJob, Get
    <2>2. FileRead = file
      BY <1>2, <1>3, <2>1 DEF OneAtATime, ServerShape, FileRead
    <2>3. file["hot_key_config_obj"] = wanted
      BY <1>4, <1>6, <2>1 DEF Get
    <2>4. \A a \in answers' : a.op = "get" => a.config = wanted
      BY <1>4, <1>5, <1>6, <2>2, <2>3 DEF Get, Answer
    <2>5. jobs' = {} /\ file' = file
      BY <1>6, <2>1 DEF Get
    <2> QED
      BY <1>1, <1>4, <2>3, <2>4, <2>5 DEF EditsKept
  <1>7. ASSUME NEW j \in jobs, Dump(j)
        PROVE  EditsKept'
    <2>1. jobs = {j}
      BY <1>2, <1>3 DEF OneAtATime
    <2>2. IsJob(j) /\ j.op = "modify" /\ j.body = wanted
      BY <1>3, <1>4, <1>7 DEF ServerShape, IsJob, Dump
    <2>3. file'["hot_key_config_obj"] = wanted
      BY <1>5, <1>7, <2>2, HotSection, FileChanged DEF Dump, WithSection, IsJob
    <2>4. \A a \in answers' : a.op = "get" => a.config = wanted
      BY <1>4, <1>7, <2>2 DEF Dump, Answer
    <2>5. jobs' = {}
      BY <1>7, <2>1 DEF Dump
    <2> QED
      BY <1>1, <1>4, <2>3, <2>4, <2>5 DEF EditsKept
  <1>8. ASSUME NEW j \in jobs, Load(j) \/ Truncate(j)
        PROVE  EditsKept'
    <2>1. jobs = {j} /\ j.op = "modify" /\ UNCHANGED <<file, answers>>
      BY <1>2, <1>3, <1>8 DEF OneAtATime, ServerShape, IsJob, Load, Truncate
    <2>2. \A k \in jobs' : k.op = "modify" /\ k.body = wanted
      BY <1>3, <1>4, <2>1, JobsAfter DEF SameRequest
    <2>3. jobs' # {}
      BY <1>8 DEF Load, Truncate, Becomes
    <2> QED
      BY <1>1, <1>4, <2>1, <2>2, <2>3 DEF EditsKept
  <1>9. ASSUME ServerRestarts
        PROVE  EditsKept'
    BY <1>1, <1>4, <1>9 DEF ServerRestarts, EditsKept
  <1> QED
    BY <1>6, <1>7, <1>8, <1>9 DEF ServerNext, RequestFails, AnswerLost

\* A step of the server under the hot-key dialog.
LEMMA ServerStepKeepsHot ==
    ASSUME HotInv, ServerNext, UNCHANGED hotPage
    PROVE  HotInv'
  <1>1. UNCHANGED <<hotKeyConfigObj, addForm, modifyForm, hotLoads, inputs, loaded,
                    intent>>
    BY DEF hotPage
  <1>2. HotTypeOK' /\ ModalDrawable'
    BY <1>1 DEF HotInv, HotTypeOK, ModalDrawable, ModalShown, addForm, modifyForm,
                intent, HotConfig, Binding
  <1>3. ServerShape /\ OneAtATime
    BY DEF HotInv
  <1>4. ServerShape' /\ OneAtATime'
    BY <1>3, ServerKeepsShape, ServerKeepsOrder
  <1>5. ContentsIn(GoodKeys, "hot_key_config_obj")'
    <2>1. Nothing["hot_key_config_obj"] \in GoodKeys
      BY EmptyIsGood DEF NoHotKeys
    <2>2. ContentsIn(GoodKeys, "hot_key_config_obj")
      BY DEF HotInv, Drawable
    <2> QED
      BY <1>3, <2>1, <2>2, HotSection, ServerKeepsContents
  <1>6. Drawable'
    <2>1. \A j \in jobs : j.section = "hot_key_config_obj" /\ j.body \in GoodKeys
      BY DEF HotInv, Drawable
    <2>2. \A k \in jobs' : k.section = "hot_key_config_obj" /\ k.body \in GoodKeys
      BY <1>3, <2>1, JobsAfter DEF SameRequest
    <2>3. \A a \in answers' : a.section = "hot_key_config_obj"
      BY <1>3, <2>1, AnswersAfter DEF HotInv, Drawable
    <2> QED
      BY <1>1, <1>5, <2>2, <2>3 DEF HotInv, Drawable
  <1> QED
    BY <1>2, <1>4, <1>6, ServerKeepsLoads, ServerKeepsEdits DEF HotInv

-----------------------------------------------------------------------------
(* The theorems.                                                           *)

\* The invariant of the hot-key dialog holds at first.
LEMMA HotStarts == HotInit => HotInv
  <1> SUFFICES ASSUME HotInit PROVE HotInv
    OBVIOUS
  <1>1. file["hot_key_config_obj"] \in GoodKeys
    BY SavedHotKeysAssumption DEF HotInit, ServerInit, GoodKeys
  <1>2. HotTypeOK
    <2>1. NoHotKeys \in HotConfig /\ file["hot_key_config_obj"] \in HotConfig
      BY <1>1, EmptyIsGood DEF GoodKeys
    <2>2. 0 \in Function
      BY DEF Function
    <2> QED
      BY <2>1, <2>2 DEF HotInit, HotTypeOK
  <1>3. Drawable
    BY <1>1, EmptyIsGood DEF HotInit, ServerInit, Drawable, ContentsIn
  <1>4. LoadsOnce /\ ModalDrawable /\ EditsKept
    BY DEF HotInit, ServerInit, LoadsOnce, ModalDrawable, ModalShown, EditsKept
  <1> QED
    BY <1>2, <1>3, <1>4, ServerStarts DEF HotInit, HotInv

\* It holds after every step.
LEMMA HotKeeps == HotInv /\ [HotNext]_hotVars => HotInv'
  <1> SUFFICES ASSUME HotInv, [HotNext]_hotVars PROVE HotInv'
    OBVIOUS
  <1>1. ASSUME UNCHANGED hotVars
        PROVE  HotInv'
    <2>1. /\ UNCHANGED <<hotKeyConfigObj, addForm, modifyForm, hotLoads, inputs,
                         loaded, intent>>
          /\ UNCHANGED <<file, torn, jobs, answers, orderly, saved>>
      BY <1>1 DEF hotVars, hotPage, serverVars
    <2>2. ServerShape' /\ OneAtATime' /\ Drawable'
      BY <2>1 DEF HotInv, ServerShape, OneAtATime, Drawable, ContentsIn
    <2>3. HotTypeOK' /\ ModalDrawable'
      BY <2>1 DEF HotInv, HotTypeOK, HotConfig, Binding, addForm, modifyForm, intent,
                  ModalDrawable, ModalShown
    <2>4. LoadsOnce' /\ EditsKept'
      BY <2>1 DEF HotInv, LoadsOnce, EditsKept, modifyForm, intent
    <2> QED
      BY <2>2, <2>3, <2>4 DEF HotInv
  <1>2. ASSUME HotLoad
        PROVE  HotInv'
    BY <1>2, Loads
  <1>3. ASSUME NEW a \in answers, HotAnswer(a)
        PROVE  HotInv'
    BY <1>3, HotAnswers
  <1>4. ASSUME \/ FocusKeyCode
               \/ \E k \in Key : OnKeyDown(k)
               \/ \E f \in Chosen : OnChangeAddConfigFun(f)
               \/ \E h \in Headings : OnChangeAddSelectType(h)
               \/ \E i \in 1 .. 8 : OnChangePara(i)
        PROVE  HotInv'
    BY <1>4, AddForm
  <1>5. ASSUME \/ \E k \in Key : OpenModal(k)
               \/ CloseModal
               \/ \E i \in 1 .. 8 : OnChangeModifyPara(i)
        PROVE  HotInv'
    BY <1>5, ModalSteps
  <1>6. ASSUME NEW k \in Key, DeleteConfig(k)
        PROVE  HotInv'
    BY <1>6, Deletes
  <1>7. ASSUME BindKeyboardToFun \/ ReDefaultConfig \/ ModifyHotkeyPara
        PROVE  HotInv'
    BY <1>7, Binds, ReDefaults, Modifies
  <1>8. ASSUME ServerNext, UNCHANGED hotPage
        PROVE  HotInv'
    BY <1>8, ServerStepKeepsHot
  <1> QED
    BY <1>1, <1>2, <1>3, <1>4, <1>5, <1>6, <1>7, <1>8 DEF HotNext

\* So it always holds.
LEMMA HotInvariant == HotSpec => []HotInv
  BY HotStarts, HotKeeps, PTL DEF HotSpec

\* What the invariant says of the dialog and the server.
LEMMA HotInvShows ==
    ASSUME HotInv
    PROVE  /\ HotTypeOK /\ ConfigDrawable /\ ModalDrawable /\ CarefulEditsAddUp
           /\ SerialSavesKept
  <1>1. HotTypeOK /\ ModalDrawable
    BY DEF HotInv
  <1>2. ConfigDrawable
    BY DEF HotInv, Drawable, ContentsIn, GoodKeys, ConfigDrawable
  <1>3. CarefulEditsAddUp
    <2> SUFFICES ASSUME orderly, careful, ~HotKeysUnderway
                 PROVE  file["hot_key_config_obj"] = wanted
      BY DEF CarefulEditsAddUp
    <2>1. \A j \in jobs : j.op = "get"
      BY DEF HotInv, ServerShape, IsJob, Drawable, HotKeysUnderway
    <2> QED
      BY <2>1 DEF HotInv, EditsKept
  <1>4. SerialSavesKept
    BY DEF HotInv, OneAtATime, ServerShape, SerialSavesKept
  <1> QED
    BY <1>1, <1>2, <1>3, <1>4

\* The dialog, its forms and the configuration keep their types.
THEOREM HotTypes == HotSpec => []HotTypeOK
  BY HotInvShows, HotInvariant, PTL

\* Every configuration that the page shows, sends or is sent can be drawn,
\* whatever was edited, lost or loaded again: getHotKeyChinese finds a rule
\* for every parameter.
THEOREM ConfigurationsDrawable == HotSpec => []ConfigDrawable
  BY HotInvShows, HotInvariant, PTL

\* No answer takes away the binding that a modal changes
\* (getModifyHotKeyParaModal).
THEOREM ModalAlwaysDrawable == HotSpec => []ModalDrawable
  BY HotInvShows, HotInvariant, PTL

\* A user who waits for the configuration, makes one edit and loads the page
\* again before the next loses no edit (modifyHotKey, modify_hot_key).
THEOREM CarefulEditsKept == HotSpec => []CarefulEditsAddUp
  BY HotInvShows, HotInvariant, PTL
==============================================================================
