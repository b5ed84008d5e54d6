----------------------------- MODULE UserConfig -----------------------------
(* web_server/routers/config.py: the hot keys and the settings of the      *)
(* legacy front end live in one JSON file.  Every request that changes one *)
(* section reads the whole file, opens it for writing (which empties it)   *)
(* and dumps it; the handlers are plain functions, so that FastAPI runs    *)
(* them in threads that interleave.                                        *)
EXTENDS Naturals, FiniteSets

CONSTANTS
    Nothing,            \* the section {} of a file without it, per section
    InitialFiles,       \* what the file may hold to begin with
    MaxRequests,        \* bound: requests sent
    MaxMishaps          \* bound: lost requests and answers, restarts of the server

Section == {"hot_key_config_obj", "state_config_obj"}

\* Files have both sections.
ASSUME FilesAssumption ==
    \A f \in InitialFiles \cup {Nothing} : f = [s \in Section |-> f[s]]

VARIABLES
    file,            \* the sections in the file
    torn,            \* the file is no JSON text: emptied, or two texts mixed
    jobs,            \* requests the server is working on
    answers,         \* answers on their way to the page that asked
    sent,            \* number of requests so far
    mishaps,         \* number of mishaps so far
    orderly,         \* history: every request found none still unanswered
    saved            \* history: the last text dumped for each section

serverVars == <<file, torn, jobs, answers, sent, mishaps, orderly, saved>>

ServerInit ==
    /\ file \in InitialFiles /\ torn = FALSE
    /\ jobs = {} /\ answers = {} /\ sent = 0 /\ mishaps = 0
    /\ orderly = TRUE /\ saved = file

\* asker says whether the page that the model follows asked and still waits
\* for the answer; over, that another thread wrote the file since
\* this one opened it.
Request(op, section, body, asker) ==
    [id |-> sent, op |-> op, section |-> section, body |-> body,
     pc |-> "load", read |-> Nothing, over |-> FALSE, asker |-> asker]

PostFor(op, section, body, asker) ==
    /\ sent < MaxRequests
    /\ jobs' = jobs \cup {Request(op, section, body, asker)}
    /\ sent' = sent + 1
    /\ orderly' = (orderly /\ jobs = {} /\ answers = {})
    /\ UNCHANGED <<file, torn, answers, mishaps, saved>>

Post(op, section, body) == PostFor(op, section, body, TRUE)

Becomes(j, k) == jobs' = (jobs \ {j}) \cup {k}

Answer(j, config) ==
    IF j.asker
    THEN answers' = answers \cup
             {[id |-> j.id, op |-> j.op, section |-> j.section, config |-> config]}
    ELSE UNCHANGED answers

\* load_user_config: an unreadable file counts as an empty one.
FileRead == IF torn THEN Nothing ELSE file

\* get_config and get_state_config.
Get(j) ==
    /\ j.op = "get"
    /\ jobs' = jobs \ {j}
    /\ Answer(j, FileRead[j.section])
    /\ UNCHANGED <<file, torn, sent, mishaps, orderly, saved>>

\* modify_hot_key and modify_state_config: load_user_config.
Load(j) ==
    /\ j.op = "modify" /\ j.pc = "load"
    /\ Becomes(j, [j EXCEPT !.pc = "open", !.read = FileRead])
    /\ UNCHANGED <<file, torn, answers, sent, mishaps, orderly, saved>>

\* save_user_config: open(path, "w").
Truncate(j) ==
    /\ j.pc = "open"
    /\ torn' = TRUE
    /\ Becomes(j, [j EXCEPT !.pc = "dump"])
    /\ UNCHANGED <<file, answers, sent, mishaps, orderly, saved>>

\* Mutant of WithSection: writes the section that was changed only.
WithSectionOnly(j) == [Nothing EXCEPT ![j.section] = j.body]

WithSection(j) == [j.read EXCEPT ![j.section] = j.body]

\* json.dump.  A text over a longer one that another thread wrote after
\* this one's open leaves the end of the longer one behind.
Dump(j) ==
    /\ j.pc = "dump"
    /\ file' = WithSection(j)
    /\ \/ torn' = FALSE
       \/ j.over /\ torn' = TRUE
    /\ jobs' = {IF k.pc = "dump" THEN [k EXCEPT !.over = TRUE] ELSE k :
                    k \in jobs \ {j}}
    /\ saved' = [saved EXCEPT ![j.section] = j.body]
    /\ Answer(j, j.body)
    /\ UNCHANGED <<sent, mishaps, orderly>>

Mishap == mishaps < MaxMishaps /\ mishaps' = mishaps + 1

\* A request fails before it changes anything.
RequestFails(j) ==
    /\ j.pc = "load"
    /\ Mishap
    /\ jobs' = jobs \ {j}
    /\ orderly' = FALSE
    /\ UNCHANGED <<file, torn, answers, sent, saved>>

\* The answer is lost, or is not ok.
AnswerLost(a) ==
    /\ Mishap
    /\ answers' = answers \ {a}
    /\ orderly' = FALSE
    /\ UNCHANGED <<file, torn, jobs, sent, saved>>

\* The process ends between any two steps of its threads; the file stays as
\* it is.
ServerRestarts ==
    /\ Mishap
    /\ orderly' = (orderly /\ jobs = {})
    /\ jobs' = {}
    /\ UNCHANGED <<file, torn, answers, sent, saved>>

ServerNext ==
    \/ \E j \in jobs : Get(j) \/ Load(j) \/ Truncate(j) \/ Dump(j) \/ RequestFails(j)
    \/ \E a \in answers : AnswerLost(a)
    \/ ServerRestarts

\* The page is loaded again: what it asked for is answered to nobody.
Forget ==
    /\ jobs' = {[j EXCEPT !.asker = FALSE] : j \in jobs}
    /\ answers' = {}
    /\ UNCHANGED <<file, torn, sent, mishaps, saved>>
    /\ orderly' = (orderly /\ jobs = {} /\ answers = {})

-----------------------------------------------------------------------------
\* As long as requests wait for each other, the file keeps what was saved
\* last in both sections: saving hot keys does not lose the settings saved
\* before, nor the other way round (load_user_config, save_user_config).
\* Requests that overlap do lose them: two threads read the same file, or
\* one reads while the other has emptied it.
SerialSavesKept ==
    orderly /\ (\A j \in jobs : j.pc # "dump") => ~torn /\ file = saved
=============================================================================
