------------------------------ MODULE FrontEnd -------------------------------
(* The front ends together: a browser has one of their pages open, and the *)
(* others rest as they are when they are loaded.  The two dialogs post to  *)
(* one server.  The board's two other files and the names of times are     *)
(* looked at on their own as well.                                         *)
EXTENDS OtherConfig, HotKeys, ShowBoard, WebDashboard, ChartFeed, BoardFiles,
        TimeNames

\* Hot keys that another browser saves are of the same dialog.
ASSUME ElsewhereAssumption ==
    HotKeysElsewhere \in HotConfig /\ WellFormed(HotKeysElsewhere)

VARIABLE page

Page == {"settings", "hotKeys", "board", "dashboard", "chart",
         "records", "income", "times"}

filesVars == <<recordVars, incomeVars, namesVars>>
frontVars == <<page, pageVars, hotPage, serverVars, boardVars, webVars, feedVars,
               filesVars>>

\* What a page may find when it is loaded is varied only for the open one.
FrontInit ==
    /\ page \in Page
    /\ PageInit /\ HotInit /\ BoardInit /\ WebInit /\ FeedInit
    /\ FilesInit /\ NamesInit
    /\ page # "settings" => formDataGlobal
    /\ page # "board" => storedIncomeType = "bar"
    /\ page # "dashboard" => strict /\ slots = CHOOSE f \in Follow : TRUE
    /\ page # "chart" => stored = CHOOSE r \in Resolution : TRUE
    /\ page # "times" => named = CHOOSE t \in NamedTime : TRUE

SettingsStep ==
    /\ page = "settings" /\ OtherNext
    /\ UNCHANGED <<page, hotPage, boardVars, webVars, feedVars, filesVars>>

HotKeysStep ==
    /\ page = "hotKeys" /\ HotNext
    /\ UNCHANGED <<page, pageVars, boardVars, webVars, feedVars, filesVars>>

BoardStep ==
    /\ page = "board" /\ BoardNext
    /\ UNCHANGED <<page, pageVars, hotPage, serverVars, webVars, feedVars, filesVars>>

DashboardStep ==
    /\ page = "dashboard" /\ WebNext
    /\ UNCHANGED <<page, pageVars, hotPage, serverVars, boardVars, feedVars,
                   filesVars>>

ChartStep ==
    /\ page = "chart" /\ FeedNext
    /\ UNCHANGED <<page, pageVars, hotPage, serverVars, boardVars, webVars, filesVars>>

PagesRest == UNCHANGED <<page, pageVars, hotPage, serverVars, boardVars, webVars, feedVars>>

RecordsStep ==
    page = "records" /\ RecordsNext /\ PagesRest /\ UNCHANGED <<incomeVars, namesVars>>

IncomeStep ==
    page = "income" /\ IncomeNext /\ PagesRest /\ UNCHANGED <<recordVars, namesVars>>

TimesStep ==
    page = "times" /\ Later /\ PagesRest /\ UNCHANGED <<recordVars, incomeVars>>

FrontNext ==
    \/ SettingsStep \/ HotKeysStep \/ BoardStep \/ DashboardStep \/ ChartStep
    \/ RecordsStep \/ IncomeStep \/ TimesStep

\* The fairness of the page that is open (BoardFairness, WebFairness,
\* FeedFairness).
FrontFairness ==
    /\ WF_boardVars(page = "board" /\ BoardTick)
    /\ WF_boardVars(page = "board" /\ QuantArrives)
    /\ WF_boardVars(page = "board" /\ RecordsArrive(1))
    /\ WF_boardVars(page = "board" /\ IncomeArrives)
    /\ WF_webVars(page = "dashboard" /\ StatusAges)
    /\ WF_webVars(page = "dashboard" /\ SpinnerEnds)
    /\ \A k \in Kind :
           /\ WF_webVars(page = "dashboard" /\ Poll(k))
           /\ WF_webVars(page = "dashboard" /\ CacheAges(k))
           /\ \A s \in Slot : WF_webVars(page = "dashboard" /\ Handled(k, s))
    /\ WF_feedVars(page = "chart" /\ Tick)

FrontSpec == FrontInit /\ [][FrontNext]_frontVars /\ FrontFairness

\* When the board is the open page, its charts settle on the range of the
\* select (RangeSettles): answers that overtake each other or are lost do
\* not keep another range on them.
BoardSettles == page = "board" => RangeSettles

\* Every page's state has its type, the server's answers included.
FrontTypeOK ==
    /\ OtherTypeOK /\ HotTypeOK /\ BoardTypeOK /\ WebTypeOK /\ FeedTypeOK
    /\ FilesTypeOK /\ NamesTypeOK
=============================================================================
