-------------------------- MODULE UserConfigProofs --------------------------
(* Proofs about the server's file (UserConfig): requests that do not       *)
(* overlap lose nothing, whatever is saved.                                *)
EXTENDS UserConfig, TLAPS

IsFile(x) == x = [s \in Section |-> x[s]]

\* A request in progress, of any body.
IsJob(j) ==
    /\ j = [id |-> j.id, op |-> j.op, section |-> j.section, body |-> j.body,
            pc |-> j.pc, read |-> j.read, over |-> j.over, asker |-> j.asker]
    /\ j.op \in {"get", "modify"} /\ j.section \in Section
    /\ j.pc \in {"load", "open", "dump"} /\ IsFile(j.read)
    /\ j.pc # "load" => j.op = "modify"
    /\ j.over \in BOOLEAN /\ j.asker \in BOOLEAN

\* A file with one section replaced.
LEMMA FileChanged ==
    ASSUME NEW x, IsFile(x), NEW s \in Section, NEW v
    PROVE  /\ IsFile([x EXCEPT ![s] = v])
           /\ [x EXCEPT ![s] = v][s] = v
           /\ \A t \in Section : t # s => [x EXCEPT ![s] = v][t] = x[t]
  BY DEF IsFile

\* A request at another stage,
LEMMA JobAtStage ==
    ASSUME NEW j, IsJob(j), NEW p \in {"load", "open", "dump"}, j.op = "modify"
    PROVE  LET k == [j EXCEPT !.pc = p]
           IN  /\ IsJob(k)
               /\ k.op = j.op /\ k.section = j.section /\ k.body = j.body
               /\ k.pc = p /\ k.read = j.read /\ k.over = j.over /\ k.asker = j.asker
  BY DEF IsJob

\* with what it read,
LEMMA JobWithRead ==
    ASSUME NEW j, IsJob(j), NEW r, IsFile(r)
    PROVE  LET k == [j EXCEPT !.read = r]
           IN  /\ IsJob(k)
               /\ k.op = j.op /\ k.section = j.section /\ k.body = j.body
               /\ k.pc = j.pc /\ k.read = r /\ k.over = j.over /\ k.asker = j.asker
  BY DEF IsJob

\* overtaken,
LEMMA JobOver ==
    ASSUME NEW j, IsJob(j), NEW v \in BOOLEAN
    PROVE  LET k == [j EXCEPT !.over = v]
           IN  /\ IsJob(k)
               /\ k.op = j.op /\ k.section = j.section /\ k.body = j.body
               /\ k.pc = j.pc /\ k.read = j.read /\ k.over = v /\ k.asker = j.asker
  BY DEF IsJob

\* or forgotten by the page is a request like it.
LEMMA JobForgotten ==
    ASSUME NEW j, IsJob(j), NEW v \in BOOLEAN
    PROVE  LET k == [j EXCEPT !.asker = v]
           IN  /\ IsJob(k)
               /\ k.op = j.op /\ k.section = j.section /\ k.body = j.body
               /\ k.pc = j.pc /\ k.read = j.read /\ k.over = j.over
               /\ k.asker = v
  BY DEF IsJob

\* A request that has read the file.
LEMMA JobLoaded ==
    ASSUME NEW j, IsJob(j), j.op = "modify", NEW r, IsFile(r)
    PROVE  LET k == [j EXCEPT !.pc = "open", !.read = r]
           IN  /\ IsJob(k)
               /\ k.op = j.op /\ k.section = j.section /\ k.body = j.body
               /\ k.pc = "open" /\ k.read = r /\ k.over = j.over /\ k.asker = j.asker
  <1> DEFINE k0 == [j EXCEPT !.pc = "open"]
  <1>1. [j EXCEPT !.pc = "open", !.read = r] = [k0 EXCEPT !.read = r]
    OBVIOUS
  <1>2. /\ IsJob(k0)
        /\ k0.op = j.op /\ k0.section = j.section /\ k0.body = j.body
        /\ k0.pc = "open" /\ k0.over = j.over /\ k0.asker = j.asker
    BY JobAtStage
  <1> HIDE DEF k0
  <1> QED
    BY <1>1, <1>2, JobWithRead

\* The requests that the server works on, and the flags.
ServerShape ==
    /\ IsFile(file) /\ IsFile(saved)
    /\ \A j \in jobs : IsJob(j)
    /\ torn \in BOOLEAN /\ orderly \in BOOLEAN

\* As long as requests wait for each other there is at most one, which read
\* the file as it is and is the only one to have emptied it.
OneAtATime ==
    orderly =>
        /\ \A j, k \in jobs : j = k
        /\ \A j \in jobs : ~j.over /\ (j.pc # "load" => j.read = saved)
        /\ file = saved
        /\ torn <=> \E j \in jobs : j.pc = "dump"

\* Whatever holds a value of section s holds one of G.
ContentsIn(G, s) ==
    /\ file[s] \in G
    /\ \A j \in jobs :
           /\ j.read[s] \in G
           /\ j.section = s /\ j.op = "modify" => j.body \in G
    /\ \A a \in answers : a.section = s => a.config \in G

\* An unreadable file counts as an empty one.
LEMMA FileReadIsFile == ASSUME ServerShape PROVE IsFile(FileRead)
  BY FilesAssumption DEF ServerShape, FileRead, IsFile

\* The server's steps keep the shape of its state,
LEMMA ServerKeepsShape ==
    ASSUME ServerShape, ServerNext
    PROVE  ServerShape'
  <1> USE DEF ServerShape
  <1>1. ASSUME NEW j \in jobs, Get(j)
        PROVE  ServerShape'
    BY <1>1 DEF Get
  <1>2. ASSUME NEW j \in jobs, Load(j)
        PROVE  ServerShape'
    <2>1. PICK r : r = FileRead
      OBVIOUS
    <2>2. IsFile(r)
      BY <2>1, FileReadIsFile
    <2> DEFINE k == [j EXCEPT !.pc = "open", !.read = r]
    <2>3. IsJob(k)
      BY <1>2, <2>2, JobLoaded DEF Load
    <2>4. jobs' = (jobs \ {j}) \cup {k}
      BY <1>2, <2>1 DEF Load, Becomes
    <2> HIDE DEF k
    <2> QED
      BY <1>2, <2>3, <2>4 DEF Load
  <1>3. ASSUME NEW j \in jobs, Truncate(j)
        PROVE  ServerShape'
    <2> DEFINE k == [j EXCEPT !.pc = "dump"]
    <2>1. IsJob(k)
      BY <1>3, JobAtStage DEF Truncate, IsJob
    <2>2. jobs' = (jobs \ {j}) \cup {k}
      BY <1>3 DEF Truncate, Becomes
    <2> HIDE DEF k
    <2> QED
      BY <1>3, <2>1, <2>2 DEF Truncate
  <1>4. ASSUME NEW j \in jobs, Dump(j)
        PROVE  ServerShape'
    <2>1. IsFile(file')
      BY <1>4, FileChanged DEF Dump, WithSection, IsJob
    <2>2. IsFile(saved')
      BY <1>4, FileChanged DEF Dump, IsJob
    <2>3. ASSUME NEW k \in jobs' PROVE IsJob(k)
      <3>1. PICK i \in jobs : k = i \/ k = [i EXCEPT !.over = TRUE]
        BY <1>4 DEF Dump
      <3> QED
        BY <3>1, TRUE \in BOOLEAN, JobOver
    <2>4. torn' \in BOOLEAN /\ orderly' \in BOOLEAN
      BY <1>4 DEF Dump
    <2> QED
      BY <2>1, <2>2, <2>3, <2>4
  <1>5. ASSUME NEW j \in jobs, RequestFails(j)
        PROVE  ServerShape'
    BY <1>5 DEF RequestFails
  <1>6. ASSUME NEW a \in answers, AnswerLost(a)
        PROVE  ServerShape'
    BY <1>6 DEF AnswerLost
  <1>7. ASSUME ServerRestarts
        PROVE  ServerShape'
    BY <1>7 DEF ServerRestarts
  <1> QED
    BY <1>1, <1>2, <1>3, <1>4, <1>5, <1>6, <1>7 DEF ServerNext

\* the order of requests that wait for each other,
LEMMA ServerKeepsOrder ==
    ASSUME ServerShape, OneAtATime, ServerNext
    PROVE  OneAtATime'
  <1>1. ASSUME NEW j \in jobs, Get(j)
        PROVE  OneAtATime'
    <2>1. j.pc = "load"
      BY <1>1 DEF Get, ServerShape, IsJob, OneAtATime
    <2>2. orderly => jobs = {j} /\ ~torn
      BY <2>1 DEF ServerShape, OneAtATime
    <2>3. orderly' => jobs' = {} /\ ~torn' /\ file' = saved'
      BY <1>1, <2>2 DEF Get, OneAtATime
    <2> QED
      BY <2>3 DEF OneAtATime
  <1>2. ASSUME NEW j \in jobs, Load(j), orderly
        PROVE  OneAtATime'
    <2>1. file = saved /\ jobs = {j} /\ ~j.over /\ j.pc = "load"
      BY <1>2 DEF Load, OneAtATime
    <2>2. torn = FALSE
      BY <1>2, <2>1 DEF ServerShape, OneAtATime
    <2>3. FileRead = file
      BY <2>2 DEF FileRead, OneAtATime
    <2>4. IsFile(file) /\ IsJob(j) /\ j.op = "modify"
      BY <1>2 DEF ServerShape, Load, OneAtATime
    <2> DEFINE k == [j EXCEPT !.pc = "open", !.read = file]
    <2>5. k.pc = "open" /\ k.read = file /\ k.over = j.over
      BY <2>4, JobLoaded
    <2>6. jobs' = {k} /\ UNCHANGED <<file, torn, saved>>
      BY <1>2, <2>1, <2>3 DEF Load, Becomes
    <2> HIDE DEF k
    <2> QED
      BY <2>1, <2>5, <2>6, <2>2 DEF OneAtATime
  <1>3. ASSUME NEW j \in jobs, Truncate(j), orderly
        PROVE  OneAtATime'
    <2>1. file = saved /\ jobs = {j} /\ ~j.over /\ j.read = saved
      BY <1>3 DEF Truncate, OneAtATime
    <2> DEFINE k == [j EXCEPT !.pc = "dump"]
    <2>2. k.pc = "dump" /\ k.read = j.read /\ k.over = j.over
      BY <1>3, JobAtStage DEF ServerShape, Truncate, IsJob
    <2>3. jobs' = {k} /\ torn' = TRUE /\ UNCHANGED <<file, saved>>
      BY <1>3, <2>1 DEF Truncate, Becomes
    <2> HIDE DEF k
    <2> QED
      BY <2>1, <2>2, <2>3 DEF OneAtATime
  <1>4. ASSUME NEW j \in jobs, Dump(j), orderly
        PROVE  OneAtATime'
    <2>1. jobs = {j} /\ ~j.over /\ j.read = saved
      BY <1>4 DEF Dump, OneAtATime
    <2>2. jobs' = {} /\ torn' = FALSE
      BY <1>4, <2>1 DEF Dump, OneAtATime
    <2>3. file' = saved'
      BY <1>4, <2>1 DEF Dump, WithSection, OneAtATime
    <2> QED
      BY <2>2, <2>3 DEF OneAtATime
  <1>5. ASSUME NEW j \in jobs, RequestFails(j)
        PROVE  OneAtATime'
    BY <1>5 DEF RequestFails, OneAtATime
  <1>6. ASSUME NEW a \in answers, AnswerLost(a)
        PROVE  OneAtATime'
    BY <1>6 DEF AnswerLost, OneAtATime
  <1>7. ASSUME ServerRestarts
        PROVE  OneAtATime'
    BY <1>7 DEF ServerRestarts, ServerShape, OneAtATime
  <1>8. ASSUME ~orderly, NEW j \in jobs, Load(j) \/ Truncate(j) \/ Dump(j)
        PROVE  OneAtATime'
    BY <1>8 DEF Load, Truncate, Dump, OneAtATime
  <1> QED
    BY <1>1, <1>2, <1>3, <1>4, <1>5, <1>6, <1>7, <1>8 DEF ServerNext, OneAtATime

\* and, whatever set the contents of a section are from, that set.
LEMMA ServerKeepsContents ==
    ASSUME ServerShape, ServerNext,
           NEW s \in Section, NEW G, Nothing[s] \in G, ContentsIn(G, s)
    PROVE  ContentsIn(G, s)'
  <1>1. FileRead[s] \in G
    BY DEF FileRead, ContentsIn
  <1>2. ASSUME NEW j \in jobs, Get(j)
        PROVE  ContentsIn(G, s)'
    BY <1>1, <1>2 DEF Get, Answer, ContentsIn
  <1>3. ASSUME NEW j \in jobs, Load(j)
        PROVE  ContentsIn(G, s)'
    <2>1. PICK r : r = FileRead
      OBVIOUS
    <2>2. IsFile(r) /\ IsJob(j) /\ j.op = "modify"
      BY <1>3, <2>1, FileReadIsFile DEF ServerShape, Load
    <2> DEFINE k == [j EXCEPT !.pc = "open", !.read = r]
    <2>3. k.read = r /\ k.op = j.op /\ k.section = j.section /\ k.body = j.body
      BY <2>2 DEF IsJob
    <2>4. jobs' = (jobs \ {j}) \cup {k} /\ UNCHANGED <<file, answers>>
      BY <1>3, <2>1 DEF Load, Becomes
    <2> HIDE DEF k
    <2> QED
      BY <1>1, <2>1, <2>3, <2>4 DEF ContentsIn
  <1>4. ASSUME NEW j \in jobs, Truncate(j)
        PROVE  ContentsIn(G, s)'
    <2> DEFINE k == [j EXCEPT !.pc = "dump"]
    <2>1. k.read = j.read /\ k.op = j.op /\ k.section = j.section /\ k.body = j.body
      BY <1>4, JobAtStage DEF ServerShape, Truncate, IsJob
    <2>2. jobs' = (jobs \ {j}) \cup {k} /\ UNCHANGED <<file, answers>>
      BY <1>4 DEF Truncate, Becomes
    <2> HIDE DEF k
    <2> QED
      BY <2>1, <2>2 DEF ContentsIn
  <1>5. ASSUME NEW j \in jobs, Dump(j)
        PROVE  ContentsIn(G, s)'
    <2>1. file'[s] \in G
      <3>1. IsFile(j.read) /\ j.section \in Section /\ j.op = "modify"
        BY <1>5 DEF ServerShape, IsJob, Dump
      <3> QED
        BY <1>5, <3>1, FileChanged DEF Dump, WithSection, ContentsIn
    <2>2. ASSUME NEW k \in jobs'
          PROVE  k.read[s] \in G /\ (k.section = s /\ k.op = "modify" => k.body \in G)
      <3>1. PICK i \in jobs : k = i \/ k = [i EXCEPT !.over = TRUE]
        BY <1>5 DEF Dump
      <3>2. k.read = i.read /\ k.section = i.section /\ k.op = i.op /\ k.body = i.body
        BY <3>1, TRUE \in BOOLEAN, JobOver DEF ServerShape
      <3> QED
        BY <3>2 DEF ContentsIn
    <2>3. \A a \in answers' : a.section = s => a.config \in G
      BY <1>5 DEF Dump, Answer, ServerShape, IsJob, ContentsIn
    <2> QED
      BY <2>1, <2>2, <2>3 DEF ContentsIn
  <1>6. ASSUME NEW j \in jobs, RequestFails(j)
        PROVE  ContentsIn(G, s)'
    BY <1>6 DEF RequestFails, ContentsIn
  <1>7. ASSUME NEW a \in answers, AnswerLost(a)
        PROVE  ContentsIn(G, s)'
    BY <1>7 DEF AnswerLost, ContentsIn
  <1>8. ASSUME ServerRestarts
        PROVE  ContentsIn(G, s)'
    BY <1>8 DEF ServerRestarts, ContentsIn
  <1> QED
    BY <1>2, <1>3, <1>4, <1>5, <1>6, <1>7, <1>8 DEF ServerNext, ContentsIn

\* The first state, of any file the server starts with.
LEMMA ServerStarts ==
    ASSUME ServerInit
    PROVE  ServerShape /\ OneAtATime
  BY FilesAssumption DEF ServerInit, ServerShape, OneAtATime, IsFile

\* Sending a request, whoever sends it.
LEMMA PostKeeps ==
    ASSUME ServerShape, OneAtATime,
           NEW op \in {"get", "modify"}, NEW section \in Section, NEW body,
           NEW asker \in BOOLEAN, PostFor(op, section, body, asker)
    PROVE  ServerShape' /\ OneAtATime'
  <1> DEFINE k == Request(op, section, body, asker)
  <1>1. IsJob(k) /\ k.pc = "load" /\ k.over = FALSE
    BY FilesAssumption DEF Request, IsJob, IsFile
  <1>2. /\ jobs' = jobs \cup {k}
        /\ orderly' = (orderly /\ jobs = {} /\ answers = {})
        /\ UNCHANGED <<file, torn, saved>>
    BY DEF PostFor
  <1> HIDE DEF k
  <1>3. ServerShape'
    BY <1>1, <1>2 DEF ServerShape
  <1>4. OneAtATime'
    <2>1. ASSUME orderly'
          PROVE  jobs' = {k} /\ ~torn' /\ file' = saved'
      BY <1>2, <2>1 DEF OneAtATime, ServerShape
    <2> QED
      BY <1>1, <1>2, <2>1 DEF OneAtATime, ServerShape
  <1> QED
    BY <1>3, <1>4

\* So does a request, if what it brings is from the set,
LEMMA PostKeepsContents ==
    ASSUME NEW s \in Section, NEW G, Nothing[s] \in G, ContentsIn(G, s),
           NEW op \in {"get", "modify"}, NEW section \in Section, NEW body,
           NEW asker \in BOOLEAN, PostFor(op, section, body, asker),
           section = s /\ op = "modify" => body \in G
    PROVE  ContentsIn(G, s)'
  <1> DEFINE k == Request(op, section, body, asker)
  <1>1. k.read = Nothing /\ k.op = op /\ k.section = section /\ k.body = body
    BY FilesAssumption DEF Request, IsJob, IsFile
  <1>2. jobs' = jobs \cup {k} /\ UNCHANGED <<file, answers>>
    BY DEF PostFor
  <1> HIDE DEF k
  <1> QED
    BY <1>1, <1>2 DEF ContentsIn

\* The page is loaded again.
LEMMA ForgetKeeps ==
    ASSUME ServerShape, OneAtATime, Forget
    PROVE  ServerShape' /\ OneAtATime'
  <1>1. ServerShape'
    <2>1. ASSUME NEW k \in jobs' PROVE IsJob(k)
      <3>1. PICK j \in jobs : k = [j EXCEPT !.asker = FALSE]
        BY DEF Forget
      <3> QED
        BY <3>1, FALSE \in BOOLEAN, JobForgotten DEF ServerShape
    <2> QED
      BY <2>1 DEF Forget, ServerShape
  <1>2. OneAtATime'
    <2>1. ASSUME orderly'
          PROVE  jobs' = {} /\ ~torn' /\ file' = saved'
      BY <2>1 DEF Forget, OneAtATime, ServerShape
    <2> QED
      BY <2>1 DEF OneAtATime
  <1> QED
    BY <1>1, <1>2

\* and loading the page again.
LEMMA ForgetKeepsContents ==
    ASSUME ServerShape, NEW s \in Section, NEW G, ContentsIn(G, s), Forget
    PROVE  ContentsIn(G, s)'
  <1>1. ASSUME NEW k \in jobs'
        PROVE  k.read[s] \in G /\ (k.section = s /\ k.op = "modify" => k.body \in G)
    <2>1. PICK j \in jobs : k = [j EXCEPT !.asker = FALSE]
      BY DEF Forget
    <2>2. k.read = j.read /\ k.section = j.section /\ k.op = j.op /\ k.body = j.body
      BY <2>1, FALSE \in BOOLEAN, JobForgotten DEF ServerShape
    <2> QED
      BY <2>2 DEF ContentsIn
  <1> QED
    BY <1>1 DEF Forget, ContentsIn

\* A step on a job leaves who asks for what.
SameRequest(j, k) ==
    k.asker = j.asker /\ k.section = j.section /\ k.op = j.op /\ k.body = j.body

\* The requests after a step were there before.
LEMMA JobsAfter ==
    ASSUME ServerShape, ServerNext, NEW k \in jobs'
    PROVE  \E j \in jobs : SameRequest(j, k)
  <1>1. ASSUME NEW j \in jobs, Load(j)
        PROVE  \E i \in jobs : SameRequest(i, k)
    <2>1. IsJob(j) /\ k \in (jobs \ {j}) \cup
                               {[j EXCEPT !.pc = "open", !.read = FileRead]}
      BY <1>1 DEF Load, Becomes, ServerShape
    <2>2. PICK r : r = FileRead
      OBVIOUS
    <2>3. k \in jobs \/ k = [j EXCEPT !.pc = "open", !.read = r]
      BY <2>1, <2>2
    <2>4. CASE k = [j EXCEPT !.pc = "open", !.read = r]
      BY <2>1, <2>4 DEF IsJob, SameRequest
    <2> QED
      BY <2>3, <2>4 DEF SameRequest
  <1>2. ASSUME NEW j \in jobs, Truncate(j)
        PROVE  \E i \in jobs : SameRequest(i, k)
    <2>1. IsJob(j) /\ (k \in jobs \/ k = [j EXCEPT !.pc = "dump"])
      BY <1>2 DEF Truncate, Becomes, ServerShape
    <2>2. CASE k = [j EXCEPT !.pc = "dump"]
      BY <2>1, <2>2 DEF IsJob, SameRequest
    <2> QED
      BY <2>1, <2>2 DEF SameRequest
  <1>3. ASSUME NEW j \in jobs, Dump(j)
        PROVE  \E i \in jobs : SameRequest(i, k)
    <2>1. PICK i \in jobs : k = i \/ k = [i EXCEPT !.over = TRUE]
      BY <1>3 DEF Dump
    <2>2. IsJob(i)
      BY DEF ServerShape
    <2>3. SameRequest(i, k)
      BY <2>1, <2>2 DEF IsJob, SameRequest
    <2> QED
      BY <2>3
  <1>4. ASSUME jobs' \subseteq jobs
        PROVE  \E i \in jobs : SameRequest(i, k)
    BY <1>4 DEF SameRequest
  <1> QED
    BY <1>1, <1>2, <1>3, <1>4
    DEF ServerNext, Get, RequestFails, AnswerLost, ServerRestarts
=============================================================================
