------------------------------ MODULE HotKeys -------------------------------
(* The hot-key dialog of the legacy front end (HotKeyModal.js), the user's *)
(* configuration it edits (reducers/userInfo.js, loadConfig) and, through  *)
(* UserConfig, the server that keeps it.  Every edit sends the whole       *)
(* configuration.  Of the parameters of a binding only their number is     *)
(* modelled.                                                               *)
EXTENDS UserConfig, HotKeyTable

CONSTANTS
    Key,            \* codes of the keys the user presses
    Chosen,         \* functions the user chooses in the add form
    Headings,       \* headings the user chooses in the add form
    NoBinding,      \* a key without a function
    MaxInputs,      \* bound: inputs to the forms
    MaxHotLoads     \* bound: loads of the page

ASSUME KeyAssumption == Key \subseteq Nat
ASSUME ChosenAssumption == Chosen \subseteq Function
ASSUME HeadingsAssumption == Headings \subseteq DOMAIN FirstFunction

Binding == [index : Function, paras : Nat]
ASSUME NoBindingAssumption == NoBinding \notin Binding

\* Only keys of keyboardObj get into a configuration.
HotConfig == [Key -> Binding \cup {NoBinding}]
NoKey == 0

DefaultHotKeys ==
    [k \in Key |->
        IF \E b \in DefaultBindings : b[1] = k
        THEN LET b == CHOOSE b \in DefaultBindings : b[1] = k
             IN  [index |-> b[2], paras |-> b[3]]
        ELSE NoBinding]

VARIABLES
    hotKeyConfigObj,          \* redux
    addConfigKeyCodeChange,   \* the key field has the focus
    addConfigKeyCode,
    addConfigFunIndex,
    addConfigParaArr,         \* number of entries
    storedFunIndex,           \* localStorage.addConfigFunIndex
    modalVisible,             \* modifyHotKeyConfigModalVisible
    modifyConfigKey,
    modifyConfigParaArr,      \* number of entries
    hotLoads, inputs,
    loaded,                   \* history: the configuration has arrived
    editedSince,              \* history: an edit was sent since the load
    careful,                  \* history: each edit was the first since a load
    wanted                    \* history: what the edits were meant to make

addForm    == <<addConfigKeyCodeChange, addConfigKeyCode, addConfigFunIndex,
                addConfigParaArr, storedFunIndex>>
modifyForm == <<modalVisible, modifyConfigKey, modifyConfigParaArr>>
intent     == <<editedSince, careful, wanted>>
hotPage    == <<hotKeyConfigObj, addForm, modifyForm, hotLoads, inputs, loaded,
                intent>>
hotVars    == <<hotPage, serverVars>>

NoHotKeys == Nothing["hot_key_config_obj"]
ASSUME NoHotKeysAssumption == NoHotKeys = [k \in Key |-> NoBinding]

\* getHotKeyChinese looks up a rule for every parameter of a binding.
WellFormed(config) ==
    \A k \in Key : config[k] # NoBinding =>
        k \in Bindable /\ config[k].paras = Arity[config[k].index]

\* What the server starts with was saved by this page.
ASSUME SavedHotKeysAssumption ==
    \A x \in InitialFiles :
        x["hot_key_config_obj"] \in HotConfig /\ WellFormed(x["hot_key_config_obj"])

HotTypeOK ==
    /\ hotKeyConfigObj \in HotConfig
    /\ addConfigKeyCodeChange \in BOOLEAN
    /\ addConfigKeyCode \in (Key \cap Bindable) \cup {NoKey}
    /\ addConfigFunIndex \in Function /\ storedFunIndex \in Function
    /\ addConfigParaArr \in Nat
    /\ modalVisible \in BOOLEAN
    /\ modifyConfigKey \in Key \cup {NoKey}
    /\ modifyConfigParaArr \in Nat
    /\ hotLoads \in Nat /\ inputs \in Nat
    /\ loaded \in BOOLEAN /\ editedSince \in BOOLEAN /\ careful \in BOOLEAN
    /\ wanted \in HotConfig

\* constructor; the parameters in localStorage are read and not used.
FormsReset(fun) ==
    /\ addConfigKeyCodeChange' = FALSE /\ addConfigKeyCode' = NoKey
    /\ addConfigFunIndex' = fun /\ addConfigParaArr' = 0
    /\ modalVisible' = FALSE /\ modifyConfigKey' = NoKey
    /\ modifyConfigParaArr' = 0

HotInit ==
    /\ ServerInit
    /\ hotKeyConfigObj = NoHotKeys
    /\ addConfigKeyCodeChange = FALSE /\ addConfigKeyCode = NoKey
    /\ addConfigFunIndex = 0 /\ addConfigParaArr = 0 /\ storedFunIndex = 0
    /\ modalVisible = FALSE /\ modifyConfigKey = NoKey /\ modifyConfigParaArr = 0
    /\ hotLoads = 0 /\ inputs = 0
    /\ loaded = FALSE /\ editedSince = FALSE /\ careful = TRUE
    /\ wanted = file["hot_key_config_obj"]

-----------------------------------------------------------------------------
(* Loading the configuration.                                              *)

\* The page is loaded, the dialog opened, and loadConfig asks.
HotLoad ==
    /\ hotLoads < MaxHotLoads
    /\ hotLoads' = hotLoads + 1
    /\ hotKeyConfigObj' = NoHotKeys
    /\ FormsReset(storedFunIndex)
    /\ loaded' = FALSE /\ editedSince' = FALSE
    /\ sent < MaxRequests
    /\ jobs' = {[j EXCEPT !.asker = FALSE] : j \in jobs} \cup
               {Request("get", "hot_key_config_obj", NoHotKeys, TRUE)}
    /\ sent' = sent + 1
    /\ answers' = {}
    /\ orderly' = (orderly /\ jobs = {} /\ answers = {})
    /\ UNCHANGED <<inputs, storedFunIndex, careful, wanted, file, torn, mishaps, saved>>

\* Mutant of Received: the answer to an edit replaces the configuration.
ReceivedAlways(a) == a.config

\* changeUserInfo.  The answer to an edit is parsed as if it were text; it is
\* an object, so that parsing raises and the page keeps what it had.
Received(a) == IF a.op = "get" THEN a.config ELSE hotKeyConfigObj

HotAnswer(a) ==
    /\ a \in answers
    /\ answers' = answers \ {a}
    /\ hotKeyConfigObj' = Received(a)
    /\ loaded' = (loaded \/ a.op = "get")
    /\ UNCHANGED <<addForm, modifyForm, hotLoads, inputs, intent, file, torn, jobs, sent,
                   mishaps, orderly, saved>>

\* modifyHotKey: sends the configuration; meant is what the edit is for.
ModifyHotKey(config, meant) ==
    /\ Post("modify", "hot_key_config_obj", config)
    /\ editedSince' = TRUE
    /\ careful' = (careful /\ loaded /\ ~editedSince)
    /\ wanted' = meant
    /\ UNCHANGED <<hotKeyConfigObj, hotLoads, inputs, loaded>>

-----------------------------------------------------------------------------
(* The add form.                                                           *)

\* The forms are followed as long as a request may come of them, and while
\* the server rests: its steps and theirs have nothing in common.
Input ==
    /\ sent < MaxRequests /\ jobs = {}
    /\ inputs < MaxInputs /\ inputs' = inputs + 1

KeepForAdd ==
    /\ Input
    /\ UNCHANGED <<hotKeyConfigObj, modifyForm, hotLoads, loaded, intent, serverVars>>

\* onfocusConfigKeyCode, onblurConfigKeyCode.
FocusKeyCode ==
    /\ addConfigKeyCodeChange' = ~addConfigKeyCodeChange
    /\ UNCHANGED <<addConfigKeyCode, addConfigFunIndex, addConfigParaArr,
                   storedFunIndex>>
    /\ KeepForAdd

\* Mutant of OnKeyDown: any key is taken.
OnKeyDownAny(k) ==
    /\ addConfigKeyCodeChange
    /\ hotKeyConfigObj[k] = NoBinding
    /\ addConfigKeyCode' = k
    /\ UNCHANGED <<addConfigKeyCodeChange, addConfigFunIndex, addConfigParaArr,
                   storedFunIndex>>
    /\ KeepForAdd

\* onKeyDown.
OnKeyDown(k) ==
    /\ addConfigKeyCodeChange
    /\ hotKeyConfigObj[k] = NoBinding
    /\ k \in Bindable
    /\ addConfigKeyCode' = k
    /\ UNCHANGED <<addConfigKeyCodeChange, addConfigFunIndex, addConfigParaArr,
                   storedFunIndex>>
    /\ KeepForAdd

\* onChangeAddConfigFun: one empty entry per parameter.
OnChangeAddConfigFun(f) ==
    /\ addConfigFunIndex' = f /\ storedFunIndex' = f
    /\ addConfigParaArr' = Arity[f]
    /\ UNCHANGED <<addConfigKeyCodeChange, addConfigKeyCode>>
    /\ KeepForAdd

\* onChangeAddSelectType: the first function of the heading; the parameters
\* of the function before it stay.
OnChangeAddSelectType(h) ==
    /\ addConfigFunIndex' = FirstFunction[h]
    /\ storedFunIndex' = FirstFunction[h]
    /\ UNCHANGED <<addConfigKeyCodeChange, addConfigKeyCode, addConfigParaArr>>
    /\ KeepForAdd

\* Entry i of an array of n is set.
Longer(n, i) == IF n < i THEN i ELSE n

\* onChangeParaInput, onChangeParaSelect.
OnChangePara(i) ==
    /\ i \in 1 .. Arity[addConfigFunIndex]
    /\ addConfigParaArr' = Longer(addConfigParaArr, i)
    /\ UNCHANGED <<addConfigKeyCodeChange, addConfigKeyCode, addConfigFunIndex,
                   storedFunIndex>>
    /\ KeepForAdd

\* Mutant of ParasFit: parameters that are missing are let through.
ParasFitAtMost(f, n) == n <= Arity[f]

ParasFit(f, n) == n = Arity[f]

Bound(f, n) == [index |-> f, paras |-> n]

\* bindKeyboardToFun.  Entries left empty are let through: the tests of the
\* values look for a type "input" that no parameter has.
BindKeyboardToFun ==
    LET b == Bound(addConfigFunIndex, addConfigParaArr)
        k == addConfigKeyCode
    IN  /\ k # NoKey
        /\ ParasFit(addConfigFunIndex, addConfigParaArr)
        /\ hotKeyConfigObj[k] = NoBinding
        /\ ModifyHotKey([hotKeyConfigObj EXCEPT ![k] = b], [wanted EXCEPT ![k] = b])
        /\ addConfigKeyCode' = NoKey /\ addConfigFunIndex' = 0
        /\ addConfigParaArr' = 0
        /\ UNCHANGED <<addConfigKeyCodeChange, storedFunIndex, modifyForm>>

\* Mutant of Deleted: the key is taken out of another copy than is sent.
DeletedElsewhere(config, k) == config

Deleted(config, k) == [config EXCEPT ![k] = NoBinding]

\* deleteConfig, for a key that is shown.
DeleteConfig(k) ==
    /\ hotKeyConfigObj[k] # NoBinding
    /\ ModifyHotKey(Deleted(hotKeyConfigObj, k), [wanted EXCEPT ![k] = NoBinding])
    /\ UNCHANGED <<addForm, modifyForm>>

\* reDefaultConfig.
ReDefaultConfig ==
    /\ ModifyHotKey(DefaultHotKeys, DefaultHotKeys)
    /\ UNCHANGED <<addForm, modifyForm>>

-----------------------------------------------------------------------------
(* The modal that changes the parameters of a binding.                     *)

KeepForModify ==
    /\ Input
    /\ UNCHANGED <<hotKeyConfigObj, addForm, hotLoads, loaded, intent, serverVars>>

\* The edit icon of getConfigContent.
OpenModal(k) ==
    /\ hotKeyConfigObj[k] # NoBinding
    /\ hotKeyConfigObj[k].paras # 0
    /\ modalVisible' = TRUE
    /\ modifyConfigKey' = k
    /\ modifyConfigParaArr' = hotKeyConfigObj[k].paras
    /\ KeepForModify

CloseModal ==
    /\ modalVisible
    /\ modalVisible' = FALSE
    /\ UNCHANGED <<modifyConfigKey, modifyConfigParaArr>>
    /\ KeepForModify

ModalShown == modalVisible /\ modifyConfigKey # NoKey

\* onChangeModifyParaInput and onChangeModifyParaSelect, of which the second
\* makes an array that is too short anew.
OnChangeModifyPara(i) ==
    /\ ModalShown
    /\ i \in 1 .. Arity[hotKeyConfigObj[modifyConfigKey].index]
    /\ modifyConfigParaArr' = Longer(modifyConfigParaArr, i)
    /\ UNCHANGED <<modalVisible, modifyConfigKey>>
    /\ KeepForModify

\* modifyHotkeyPara.
ModifyHotkeyPara ==
    LET k == modifyConfigKey
        f == hotKeyConfigObj[k].index
        b == Bound(f, modifyConfigParaArr)
    IN  /\ ModalShown
        /\ ParasFit(f, modifyConfigParaArr)
        /\ ModifyHotKey([hotKeyConfigObj EXCEPT ![k] = b], [wanted EXCEPT ![k] = b])
        /\ modifyConfigKey' = NoKey /\ modifyConfigParaArr' = 0
        /\ UNCHANGED <<addForm, modalVisible>>

HotNext ==
    \/ HotLoad
    \/ \E a \in answers : HotAnswer(a)
    \/ FocusKeyCode
    \/ \E k \in Key : OnKeyDown(k) \/ DeleteConfig(k) \/ OpenModal(k)
    \/ \E f \in Chosen : OnChangeAddConfigFun(f)
    \/ \E h \in Headings : OnChangeAddSelectType(h)
    \/ \E i \in 1 .. 8 : OnChangePara(i) \/ OnChangeModifyPara(i)
    \/ BindKeyboardToFun \/ ReDefaultConfig
    \/ CloseModal \/ ModifyHotkeyPara
    \/ ServerNext /\ UNCHANGED hotPage

HotSpec == HotInit /\ [][HotNext]_hotVars

-----------------------------------------------------------------------------
(* Properties.                                                             *)

\* Every configuration the page shows, sends or is sent can be drawn: a
\* binding has the parameters its function has rules for.  Otherwise drawing
\* raises, the error boundary loads the page again, and the page that reads
\* the same configuration from the server raises again.  The add form can
\* hold parameters of another function, see onChangeAddSelectType.
ConfigDrawable ==
    /\ WellFormed(hotKeyConfigObj)
    /\ WellFormed(file["hot_key_config_obj"])
    /\ \A j \in jobs : j.section = "hot_key_config_obj" => WellFormed(j.body)

\* The modal is drawn only for a key that still has a function
\* (getModifyHotKeyParaModal reads its index): no answer takes the binding
\* away while it is being changed.
ModalDrawable == ModalShown => hotKeyConfigObj[modifyConfigKey] # NoBinding

HotKeysUnderway ==
    \E j \in jobs : j.section = "hot_key_config_obj" /\ j.op = "modify"

\* A user who waits for the configuration, makes one edit and loads the page
\* again before the next gets all edits, each on top of the others.  Without
\* the load the second edit is made from the configuration before the first
\* and undoes it.
CarefulEditsAddUp ==
    hotLoads > 0 /\ orderly /\ careful /\ ~HotKeysUnderway => file["hot_key_config_obj"] = wanted
=============================================================================
