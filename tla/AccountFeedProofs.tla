------------------------- MODULE AccountFeedProofs --------------------------
(***************************************************************************)
(* What AccountFeed's labels promise, for any symbols, amounts and bounds: *)
(* the poller never labels a reading with more than it shows, and as long  *)
(* as nothing was lost and no refresh thread stored a reading older than   *)
(* an event already merged, neither does the hub.                          *)
(***************************************************************************)
EXTENDS AccountFeed, TLAPS

\* AccountFeed's slot is the hub's: the payloads are positions.
LEMMA Frames == /\ Frame = [update_ts : Nat, data : Positions]
                /\ Hub!NewSlot = [update_ts |-> 0, data |-> Flat]
                /\ Hub!NewSlot \in Frame
                /\ Flat \in Positions
  <1>1. Flat \in Positions
    BY AmountAssumption DEF Flat, Positions
  <1>2. Nat \cup {0} = Nat
    OBVIOUS
  <1> QED
    BY <1>1, <1>2 DEF Frame, Hub!TimestampedData, Hub!NewSlot

\* The hub's slot holds what it held or the frame it was offered.
LEMMA TakenFrame ==
    ASSUME NEW s \in Frame, NEW f \in Frame
    PROVE  Hub!TryUpdate(s, f.update_ts, f.data) \in {s, f}
  <1>1. f = [update_ts |-> f.update_ts, data |-> f.data]
    BY Frames
  <1> QED
    BY <1>1 DEF Hub!TryUpdate

\* A sequence with one more element.
LEMMA Appended ==
    ASSUME NEW S, NEW q \in Seq(S), NEW e \in S
    PROVE  Append(q, e) \in Seq(S)
  OBVIOUS

\* What a poller reads has its type.
LEMMA ReadTyped ==
    ASSUME TypeOK PROVE Snapshot \in Snapshots
  BY DEF TypeOK, Snapshot, Snapshots

\* Starting a refresh, or not, keeps the threads' types.
LEMMA StartTyped ==
    ASSUME TypeOK, StartRefresh
    PROVE  /\ young' \in BOOLEAN /\ asked' \subseteq Thread
           /\ refresh' \subseteq Reading
  <1>1. asked' = asked \/ \E t \in Thread : asked' = asked \cup {t}
    BY DEF StartRefresh, IdleThread
  <1> QED
    BY <1>1 DEF TypeOK, StartRefresh

-----------------------------------------------------------------------------
\* The types hold at first, and after every step.
LEMMA TypeInit == Init => TypeOK
  <1> SUFFICES ASSUME Init PROVE TypeOK
    OBVIOUS
  <1> USE DEF Init
  <1>1. account \in Positions /\ changed \in [Symbol -> Nat]
    BY Frames
  <1>2. known \in Snapshots
    BY <1>1 DEF Snapshot, Snapshots
  <1>3. toHub \in [Writers -> Seq(Frame)] /\ slot \in Frame
    BY Frames
  <1>4. events \in Seq(Event)
    OBVIOUS
  <1> QED
    BY <1>1, <1>2, <1>3, <1>4 DEF TypeOK

\* One step per action.
LEMMA TypeStep == TypeOK /\ [Next]_feedVars => TypeOK'
  <1> SUFFICES ASSUME TypeOK, [Next]_feedVars PROVE TypeOK'
    OBVIOUS
  <1> USE DEF TypeOK, exchange, poller, stream, threads, history, copy, hub
  <1>1. ASSUME NEW s \in Symbol, NEW amt \in Amount, Change(s, amt)
        PROVE  TypeOK'
    <2>1. /\ clock' \in Nat /\ account' \in Positions
          /\ changed' \in [Symbol -> Nat] /\ missed' \in Nat
      BY <1>1 DEF Change, Positions
    <2>2. events' \in Seq(Event)
      <3>1. [T |-> clock', s |-> s, amt |-> amt] \in Event
        BY <2>1 DEF Event
      <3>2. events' \in {events, Append(events, [T |-> clock', s |-> s, amt |-> amt])}
        BY <1>1 DEF Change
      <3> QED
        BY <3>1, <3>2, Appended
    <2> QED
      BY <1>1, <2>1, <2>2 DEF Change
  <1>2. CASE StreamBreaks
    <2>1. events' \in Seq(Event)
      BY <1>2 DEF StreamBreaks
    <2>2. missed' \in Nat
      <3>1. Len(events) \in Nat
        OBVIOUS
      <3> QED
        BY <1>2, <3>1 DEF StreamBreaks
    <2>3. connected' \in BOOLEAN
      BY <1>2 DEF StreamBreaks
    <2> QED
      BY <1>2, <2>1, <2>2, <2>3 DEF StreamBreaks
  <1>3. CASE StreamConnects
    BY <1>3 DEF StreamConnects
  <1>4. CASE PollReads
    <2>1. PICK ts \in 0 .. clock : reading' = {[update_ts |-> ts, data |-> account]}
      BY <1>4 DEF PollReads
    <2>2. reading' \subseteq Frame
      BY <2>1, Frames
    <2> QED
      BY <1>4, <2>2 DEF PollReads
  <1>5. CASE PollSends
    <2>1. PICK r \in reading :
            /\ reading' = {}
            /\ toHub' \in {toHub, [toHub EXCEPT !["poller"] = Append(@, r)]}
            /\ UNCHANGED <<exchange, stream, missed, copy, hub>>
      BY <1>5 DEF PollSends
    <2>2. toHub' \in [Writers -> Seq(Frame)]
      <3>1. r \in Frame /\ Append(toHub["poller"], r) \in Seq(Frame)
        BY Appended DEF Writers
      <3> QED
        BY <2>1, <3>1 DEF Writers
    <2> QED
      BY <2>1, <2>2
  <1>6. CASE OnMessage
    <2>1. /\ Head(events).T \in Nat /\ Head(events).s \in Symbol
          /\ Head(events).amt \in Amount
          /\ events' \in Seq(Event)
      <3>1. Head(events) \in Event /\ Tail(events) \in Seq(Event)
        BY <1>6 DEF OnMessage
      <3> QED
        BY <1>6, <3>1 DEF OnMessage, Event
    <2>2. known' \in Snapshots
      BY <1>6, <2>1 DEF OnMessage, Snapshots, Positions
    <2>3. /\ young' \in BOOLEAN /\ asked' \subseteq Thread
          /\ refresh' \subseteq Reading
      BY <1>6, StartTyped DEF OnMessage
    <2> QED
      BY <1>6, <2>1, <2>2, <2>3 DEF OnMessage, history
  <1>7. CASE Announces
    <2>1. known.amt \in Positions
      BY DEF Snapshots
    <2>2. [update_ts |-> announcing, data |-> known.amt] \in Frame
      BY <2>1, Frames
    <2>3. toHub' \in [Writers -> Seq(Frame)]
      BY <1>7, <2>2 DEF Announces, Writers
    <2> QED
      BY <1>7, <2>3 DEF Announces
  <1>8. CASE RefreshReads
    <2>1. PICK t \in asked :
            /\ asked' = asked \ {t}
            /\ refresh' = refresh \cup {ReadingOf(t)}
      BY <1>8 DEF RefreshReads
    <2>2. asked' \subseteq Thread /\ refresh' \subseteq Reading
      BY <2>1 DEF ReadingOf, Reading
    <2> QED
      BY <1>8, <2>2 DEF RefreshReads
  <1>9. CASE RefreshStores
    <2>1. PICK r \in refresh :
            /\ known' = [amt |-> r.amt, updateTime |-> r.updateTime]
            /\ refresh' = refresh \ {r}
            /\ overtaken' = (overtaken \/ ~Reaches(r, merged))
      BY <1>9 DEF RefreshStores
    <2>2. known' \in Snapshots /\ refresh' \subseteq Reading
      BY <2>1 DEF Reading, Snapshots
    <2>3. overtaken' \in BOOLEAN
      BY <2>1
    <2> QED
      BY <1>9, <2>2, <2>3 DEF RefreshStores
  <1>10. CASE RefreshFails
    BY <1>10 DEF RefreshFails
  <1>15. CASE OnOtherMessage
    BY <1>15, StartTyped DEF OnOtherMessage
  <1>16. CASE SecondPasses
    BY <1>16 DEF SecondPasses
  <1>11. ASSUME NEW w \in Writers, FrameLost(w)
         PROVE  TypeOK'
    BY <1>11 DEF FrameLost
  <1>12. ASSUME NEW w \in Writers, HubTakes(w)
         PROVE  TypeOK'
    <2>1. Head(toHub[w]) \in Frame /\ toHub' \in [Writers -> Seq(Frame)]
      BY <1>12 DEF HubTakes
    <2>2. slot' \in Frame
      BY <1>12, <2>1, TakenFrame DEF HubTakes
    <2> QED
      BY <1>12, <2>1, <2>2 DEF HubTakes
  <1>13. CASE HubRestarts
    BY <1>13, Frames DEF HubRestarts
  <1>14. CASE UNCHANGED feedVars
    BY <1>14 DEF feedVars
  <1> QED
    BY <1>1, <1>2, <1>3, <1>4, <1>5, <1>6, <1>7, <1>8, <1>9, <1>10, <1>11,
       <1>12, <1>13, <1>14, <1>15, <1>16 DEF Next

\* Every variable keeps its type: TypeOK is an invariant of the services.
THEOREM FeedTyped == Spec => []TypeOK
  BY TypeInit, TypeStep, PTL DEF Spec
-----------------------------------------------------------------------------
(* The poller: its label is the newest update time of an open position, so *)
(* that it is the time of reading at most.                                 *)

\* The pollers' invariant holds at first.
LEMMA PollerInit == Init => PollerInv
  BY DEF Init, PollerInv, PollFrames, Writers

\* It holds after every step.
LEMMA PollerStep == TypeOK /\ PollerInv /\ [Next]_feedVars => PollerInv'
  <1> SUFFICES ASSUME TypeOK, PollerInv, [Next]_feedVars PROVE PollerInv'
    OBVIOUS
  <1> USE DEF exchange, poller, stream, threads, history, copy, hub
  <1>0. /\ clock \in Nat /\ reading \subseteq Frame
        /\ toHub \in [Writers -> Seq(Frame)]
        /\ toHub["poller"] \in Seq(Frame)
    BY DEF TypeOK, Writers
  <1>f. \A f \in PollFrames : f.update_ts \in Nat
    <2>1. \A k \in DOMAIN toHub["poller"] : toHub["poller"][k] \in Frame
      BY <1>0
    <2>2. \A f \in PollFrames : f \in Frame
      BY <1>0, <2>1 DEF PollFrames
    <2> QED
      BY <2>2, Frames
  <1>1. ASSUME NEW s \in Symbol, NEW amt \in Amount, Change(s, amt)
        PROVE  PollerInv'
    <2>1. PollFrames' = PollFrames /\ clock' = clock + 1
      BY <1>1 DEF Change, PollFrames
    <2>2. ASSUME NEW f \in PollFrames PROVE Honest(f)'
      BY <1>0, <1>f, <2>1, <2>2 DEF PollerInv, Honest
    <2> QED
      BY <2>1, <2>2 DEF PollerInv
  <1>2. ASSUME PollFrames' \subseteq PollFrames, UNCHANGED <<clock, account>>
        PROVE  PollerInv'
    BY <1>2 DEF PollerInv, Honest
  <1>3. CASE PollReads
    <2>1. PICK ts \in 0 .. clock : reading' = {[update_ts |-> ts, data |-> account]}
      BY <1>3 DEF PollReads
    <2>2. UNCHANGED <<toHub, clock, account>>
      BY <1>3 DEF PollReads
    <2>3. \A f \in PollFrames' : f \in PollFrames \/ f = [update_ts |-> ts, data |-> account]
      BY <2>1, <2>2 DEF PollFrames
    <2>4. Honest([update_ts |-> ts, data |-> account])
      BY <1>0 DEF Honest
    <2> QED
      BY <2>2, <2>3, <2>4 DEF PollerInv, Honest
  <1>4. CASE PollSends
    <2>1. PICK r \in reading :
            /\ reading' = {}
            /\ toHub' \in {toHub, [toHub EXCEPT !["poller"] = Append(@, r)]}
      BY <1>4 DEF PollSends
    <2>2. \A k \in DOMAIN Append(toHub["poller"], r) :
            \/ Append(toHub["poller"], r)[k] = r
            \/ k \in DOMAIN toHub["poller"]
               /\ Append(toHub["poller"], r)[k] = toHub["poller"][k]
      BY <1>0
    <2>3. toHub'["poller"] \in {toHub["poller"], Append(toHub["poller"], r)}
      BY <1>0, <2>1 DEF Writers
    <2>4. PollFrames' \subseteq PollFrames
      BY <2>1, <2>2, <2>3 DEF PollFrames
    <2> QED
      BY <1>2, <1>4, <2>4 DEF PollSends
  <1>5. ASSUME NEW w \in Writers,
               toHub[w] # <<>>, toHub' = [toHub EXCEPT ![w] = Tail(@)],
               UNCHANGED <<reading, clock, account>>
        PROVE  PollerInv'
    <2>1. CASE w = "poller"
      <3>1. toHub'["poller"] = Tail(toHub["poller"])
        BY <1>0, <1>5, <2>1
      <3>2. \A k \in DOMAIN Tail(toHub["poller"]) :
              k + 1 \in DOMAIN toHub["poller"]
              /\ Tail(toHub["poller"])[k] = toHub["poller"][k + 1]
        BY <1>0, <1>5, <2>1
      <3>3. PollFrames' \subseteq PollFrames
        BY <1>5, <3>1, <3>2 DEF PollFrames
      <3> QED
        BY <1>2, <1>5, <3>3
    <2>2. CASE w # "poller"
      <3>1. toHub'["poller"] = toHub["poller"]
        BY <1>0, <1>5, <2>2
      <3>2. PollFrames' \subseteq PollFrames
        BY <1>5, <3>1 DEF PollFrames
      <3> QED
        BY <1>2, <1>5, <3>2
    <2> QED
      BY <2>1, <2>2
  <1>6. CASE Announces
    <2>1. toHub'["poller"] = toHub["poller"]
      BY <1>0, <1>6 DEF Announces
    <2>2. PollFrames' \subseteq PollFrames
      BY <1>6, <2>1 DEF Announces, PollFrames
    <2> QED
      BY <1>2, <1>6, <2>2 DEF Announces
  <1>7. CASE HubRestarts
    <2>1. toHub'["poller"] = <<>> /\ reading' = reading
      BY <1>7 DEF HubRestarts, Writers
    <2>2. PollFrames' \subseteq PollFrames
      BY <2>1 DEF PollFrames
    <2> QED
      BY <1>2, <1>7, <2>2 DEF HubRestarts
  <1>8. ASSUME UNCHANGED <<reading, toHub, clock, account>> PROVE PollerInv'
    BY <1>2, <1>8 DEF PollFrames
  <1>9. CASE \/ StreamBreaks \/ StreamConnects \/ OnMessage
             \/ OnOtherMessage \/ SecondPasses
             \/ RefreshReads \/ RefreshStores \/ RefreshFails
             \/ UNCHANGED feedVars
    BY <1>8, <1>9 DEF StreamBreaks, StreamConnects, OnMessage, OnOtherMessage,
       SecondPasses, RefreshReads, RefreshStores, RefreshFails, feedVars
  <1>10. ASSUME NEW w \in Writers, FrameLost(w) \/ HubTakes(w)
         PROVE  PollerInv'
    BY <1>5, <1>10 DEF FrameLost, HubTakes
  <1> QED
    BY <1>1, <1>3, <1>4, <1>6, <1>7, <1>9, <1>10 DEF Next

\* LabelsHonest is an invariant: what getBinancePosition labels with the time
\* of the newest change is the account, for any symbols and any delays.
THEOREM PollerHonest == Spec => []LabelsHonest
  <1>1. PollerInv => LabelsHonest
    BY DEF PollerInv, LabelsHonest, Honest
  <1> QED
    BY <1>1, TypeInit, TypeStep, PollerInit, PollerStep, PTL DEF Spec
-----------------------------------------------------------------------------
(* The stream: while nothing is lost and no event merged is undone, the    *)
(* copy and the events still to be merged add up to the account, and so    *)
(* does every reading that a thread may still put in the copy's place.     *)

\* What was disturbed before a step is so after it.
LEMMA StaysDisturbed ==
    ASSUME TypeOK, [Next]_feedVars, Undisturbed' PROVE Undisturbed
  <1> USE DEF Undisturbed, exchange, poller, stream, threads, history, copy, hub
  <1>0. missed \in Nat /\ Len(events) \in Nat
    BY DEF TypeOK
  <1>1. missed' = missed \/ (missed' \in Nat /\ missed' > missed)
    <2>1. CASE \E s \in Symbol, amt \in Amount : Change(s, amt)
      BY <1>0, <2>1 DEF Change
    <2>2. CASE StreamBreaks
      BY <1>0, <2>2 DEF StreamBreaks
    <2>3. CASE \E w \in Writers : FrameLost(w)
      BY <1>0, <2>3 DEF FrameLost
    <2>4. CASE \/ StreamConnects \/ PollReads \/ PollSends \/ OnMessage \/ Announces
               \/ OnOtherMessage \/ SecondPasses
               \/ RefreshReads \/ RefreshStores \/ RefreshFails \/ HubRestarts
               \/ (\E w \in Writers : HubTakes(w)) \/ UNCHANGED feedVars
      BY <2>4 DEF StreamConnects, PollReads, PollSends, OnMessage, Announces,
         OnOtherMessage, SecondPasses, RefreshReads, RefreshStores, RefreshFails,
         HubTakes, HubRestarts, feedVars
    <2> QED
      BY <2>1, <2>2, <2>3, <2>4 DEF Next
  <1>2. overtaken => overtaken'
    <2>1. CASE RefreshStores
      BY <2>1 DEF RefreshStores
    <2>2. CASE ~RefreshStores
      BY <2>2 DEF Next, Change, StreamBreaks, StreamConnects, PollReads, PollSends,
         OnMessage, Announces, OnOtherMessage, SecondPasses, RefreshReads,
         RefreshFails, FrameLost, HubTakes, HubRestarts, feedVars
    <2> QED
      BY <2>1, <2>2
  <1> QED
    BY <1>0, <1>1, <1>2

\* The entries of the rest are the later entries of the whole.
LEMMA TailAt ==
    ASSUME NEW S, NEW q \in Seq(S), q # <<>>
    PROVE  /\ Head(q) = q[1] /\ 1 \in DOMAIN q
           /\ \A k \in DOMAIN Tail(q) : k + 1 \in DOMAIN q /\ Tail(q)[k] = q[k + 1]
           /\ \A k \in DOMAIN q : k # 1 => k - 1 \in DOMAIN Tail(q) /\ Tail(q)[k - 1] = q[k]
  OBVIOUS

\* An entry of an extended sequence is an old one or the new one.
LEMMA AppendAt ==
    ASSUME NEW S, NEW q \in Seq(S), NEW e \in S
    PROVE  /\ DOMAIN Append(q, e) = DOMAIN q \cup {Len(q) + 1}
           /\ Append(q, e)[Len(q) + 1] = e
           /\ \A k \in DOMAIN q : k \in Nat /\ k < Len(q) + 1 /\ Append(q, e)[k] = q[k]
           /\ Len(q) \in Nat
  OBVIOUS

\* What the copy and the readings have in common.
IsCopy(c) == c.amt \in Positions /\ c.updateTime \in [Symbol -> Nat]

\* The copy and the readings are copies.
LEMMA Copies == TypeOK => IsCopy(known) /\ \A r \in refresh : IsCopy(r)
  <1> SUFFICES ASSUME TypeOK PROVE IsCopy(known) /\ \A r \in refresh : IsCopy(r)
    OBVIOUS
  <1>1. IsCopy(known)
    BY DEF TypeOK, Snapshots, IsCopy
  <1>2. ASSUME NEW r \in refresh PROVE IsCopy(r)
    <2>1. r \in Reading
      BY DEF TypeOK
    <2> QED
      BY <2>1 DEF Reading, IsCopy
  <1> QED
    BY <1>1, <1>2

\* The pending events have the types of events.
LEMMA EventAt ==
    ASSUME TypeOK, NEW k \in DOMAIN events
    PROVE  /\ events[k].T \in Nat /\ events[k].s \in Symbol
           /\ events[k].amt \in Amount /\ k \in Nat /\ k >= 1
  <1>1. events[k] \in Event
    BY DEF TypeOK
  <1>2. k \in Nat /\ k >= 1
    BY DEF TypeOK
  <1> QED
    BY <1>1, <1>2 DEF Event

\* The stream's invariant holds at first.
LEMMA StreamInit == Init => StreamInv
  <1> SUFFICES ASSUME Init PROVE StreamGood
    BY DEF StreamInv
  <1> USE DEF Init
  <1>1. DOMAIN events = {} /\ refresh = {} /\ DOMAIN toHub["stream"] = {}
    BY DEF Writers
  <1>2. EventsOrdered
    BY <1>1 DEF EventsOrdered
  <1>3. TimesRight(known) /\ CopyComplete(known)
    BY <1>1 DEF TimesRight, CopyComplete, Snapshot
  <1>4. Honest(slot)
    BY Frames DEF Honest
  <1> QED
    BY <1>1, <1>2, <1>3, <1>4 DEF StreamGood

-----------------------------------------------------------------------------
\* A copy and the events after a change that is not lost: its event merges
\* into every copy, as its time is later than any update time.
LEMMA ChangeCopy ==
    ASSUME TypeOK, NEW c, IsCopy(c), TimesRight(c),
           \A k \in DOMAIN events : events[k].T <= clock,
           NEW s \in Symbol, NEW amt \in Amount, Change(s, amt), missed' = missed
    PROVE  TimesRight(c)' /\ (CopyComplete(c) => CopyComplete(c)')
  <1> USE DEF exchange, poller, stream, threads, history, copy, hub
  <1> DEFINE e == [T |-> clock', s |-> s, amt |-> amt]
  <1>n. PICK n : n = Len(events) + 1
    OBVIOUS
  <1>1. /\ clock \in Nat /\ clock' = clock + 1 /\ missed \in Nat
        /\ account \in [Symbol -> Amount]
        /\ account' = [account EXCEPT ![s] = amt]
        /\ events \in Seq(Event)
    BY DEF TypeOK, Change, Positions
  <1>2. events' = Append(events, e) /\ e \in Event
    BY <1>1 DEF Change, Event
  <1>3. /\ DOMAIN events' = DOMAIN events \cup {n}
        /\ events'[n] = e /\ n \in Nat
        /\ \A k \in DOMAIN events :
              k \in Nat /\ k < n /\ events'[k] = events[k]
    BY <1>1, <1>2, <1>n, AppendAt
  <1>4. \A t \in Symbol : c.updateTime[t] \in Nat /\ c.updateTime[t] <= clock
    BY DEF IsCopy, TimesRight
  <1>5. \A k \in DOMAIN events : Merges(c, k)' <=> Merges(c, k)
    BY <1>3 DEF Merges
  <1>6. Merges(c, n)'
    <2>1. events'[n].T = clock + 1 /\ events'[n].s = s
      BY <1>1, <1>3
    <2>2. c.updateTime[s] < clock + 1
      BY <1>1, <1>4
    <2> QED
      BY <1>1, <1>4, <2>1, <2>2 DEF Merges
  <1>7. TimesRight(c)'
    <2>1. \A t \in Symbol : c.updateTime[t] <= clock'
      BY <1>1, <1>4
    <2>2. ASSUME NEW k \in DOMAIN events', Merges(c, k)', NEW t \in Symbol
          PROVE  c.updateTime[t] < events'[k].T
      <3>1. CASE k \in DOMAIN events
        BY <1>3, <1>5, <2>2, <3>1 DEF TimesRight
      <3>2. CASE k = n
        <4>1. events'[k].T = clock + 1
          BY <1>1, <1>3, <3>2
        <4> QED
          BY <1>1, <1>4, <4>1
      <3> QED
        BY <1>3, <3>1, <3>2
    <2> QED
      BY <2>1, <2>2 DEF TimesRight
  <1>8. ASSUME CopyComplete(c) PROVE CopyComplete(c)'
    <2> SUFFICES ASSUME NEW t \in Symbol
                 PROVE  \/ /\ c.amt[t] = account'[t]
                           /\ \A k \in DOMAIN events' : events'[k].s = t => ~Merges(c, k)'
                        \/ \E k \in DOMAIN events' :
                            /\ events'[k].s = t /\ Merges(c, k)'
                            /\ events'[k].amt = account'[t]
                            /\ \A j \in DOMAIN events' : j > k => events'[j].s # t
      BY DEF CopyComplete
    <2>1. CASE t = s
      <3>1. events'[n].s = t /\ events'[n].amt = account'[t]
        BY <1>1, <1>3, <2>1
      <3>2. \A j \in DOMAIN events' : ~(j > n)
        BY <1>3
      <3> QED
        BY <1>3, <1>6, <3>1, <3>2
    <2>2. CASE t # s
      <3>1. account'[t] = account[t] /\ events'[n].s # t
        BY <1>1, <1>3, <2>2
      <3>2. CASE /\ c.amt[t] = account[t]
                 /\ \A k \in DOMAIN events : events[k].s = t => ~Merges(c, k)
        BY <1>3, <1>5, <3>1, <3>2
      <3>3. CASE \E k \in DOMAIN events :
                    /\ events[k].s = t /\ Merges(c, k) /\ events[k].amt = account[t]
                    /\ \A j \in DOMAIN events : j > k => events[j].s # t
        <4>1. PICK k \in DOMAIN events :
                    /\ events[k].s = t /\ Merges(c, k) /\ events[k].amt = account[t]
                    /\ \A j \in DOMAIN events : j > k => events[j].s # t
          BY <3>3
        <4>2. /\ events'[k].s = t /\ Merges(c, k)' /\ events'[k].amt = account'[t]
              /\ k \in DOMAIN events'
          BY <1>3, <1>5, <3>1, <4>1
        <4>3. \A j \in DOMAIN events' : j > k => events'[j].s # t
          BY <1>3, <3>1, <4>1
        <4> QED
          BY <4>2, <4>3
      <3> QED
        BY <1>8, <3>2, <3>3 DEF CopyComplete
    <2> QED
      BY <2>1, <2>2
  <1> QED
    BY <1>7, <1>8

\* Honest frames stay honest: a new change has a time of its own.
LEMMA ChangeHonest ==
    ASSUME TypeOK, NEW s \in Symbol, NEW amt \in Amount, Change(s, amt),
           NEW f \in Frame, Honest(f)
    PROVE  Honest(f)'
  <1>1. clock \in Nat /\ clock' = clock + 1 /\ f.update_ts \in Nat
    BY Frames DEF TypeOK, Change
  <1> QED
    BY <1>1 DEF Honest

\* A change that is not lost joins the events with the newest time.
LEMMA StreamChange ==
    ASSUME TypeOK, StreamGood, NEW s \in Symbol, NEW amt \in Amount,
           Change(s, amt), missed' = missed
    PROVE  StreamGood'
  <1> USE DEF exchange, poller, stream, threads, history, copy, hub
  <1> DEFINE e == [T |-> clock', s |-> s, amt |-> amt]
  <1>n. PICK n : n = Len(events) + 1
    OBVIOUS
  <1>1. /\ clock \in Nat /\ clock' = clock + 1 /\ missed \in Nat
        /\ events \in Seq(Event)
        /\ changed \in [Symbol -> Nat] /\ changed' = [changed EXCEPT ![s] = clock']
        /\ merged \in Nat /\ merged' = merged /\ announcing' = announcing
        /\ known' = known /\ refresh' = refresh
        /\ toHub' = toHub /\ slot' = slot
    BY DEF TypeOK, Change
  <1>2. events' = Append(events, e) /\ e \in Event
    BY <1>1 DEF Change, Event
  <1>3. /\ DOMAIN events' = DOMAIN events \cup {n}
        /\ events'[n] = e /\ n \in Nat
        /\ \A k \in DOMAIN events :
              k \in Nat /\ k < n /\ events'[k] = events[k]
    BY <1>1, <1>2, <1>n, AppendAt
  <1>4. events'[n].T = clock + 1 /\ events'[n].s = s
    BY <1>1, <1>3
  <1>5. \A k \in DOMAIN events : events[k].T \in Nat /\ events[k].T <= clock
    BY EventAt DEF StreamGood, EventsOrdered
  <1>6. EventsOrdered'
    <2>1. merged' <= clock' /\ announcing' \in {0, merged'}
      BY <1>1 DEF StreamGood, EventsOrdered
    <2>2. ASSUME NEW k \in DOMAIN events'
          PROVE  merged' < events'[k].T /\ events'[k].T <= clock'
      <3>1. CASE k \in DOMAIN events
        BY <1>1, <1>3, <1>5, <3>1 DEF StreamGood, EventsOrdered
      <3>2. CASE k = n
        BY <1>1, <1>4, <3>2 DEF StreamGood, EventsOrdered
      <3> QED
        BY <1>3, <3>1, <3>2
    <2>3. ASSUME NEW j \in DOMAIN events', NEW k \in DOMAIN events', j < k
          PROVE  events'[j].T < events'[k].T
      <3>1. j \in DOMAIN events
        BY <1>3, <2>3
      <3>2. CASE k \in DOMAIN events
        BY <1>3, <2>3, <3>1, <3>2 DEF StreamGood, EventsOrdered
      <3>3. CASE k = n
        BY <1>1, <1>3, <1>4, <1>5, <3>1, <3>3
      <3> QED
        BY <1>3, <3>2, <3>3
    <2> QED
      BY <2>1, <2>2, <2>3 DEF EventsOrdered
  <1>7. (\A t \in Symbol : changed[t] <= clock)'
    <2>1. ASSUME NEW t \in Symbol PROVE changed'[t] <= clock'
      BY <1>1 DEF StreamGood
    <2> QED
      BY <2>1
  <1>8. (\A k \in DOMAIN events : events[k].T <= changed[events[k].s])'
    <2> SUFFICES ASSUME NEW k \in DOMAIN events'
                 PROVE  events'[k].T <= changed'[events'[k].s]
      OBVIOUS
    <2>1. CASE k \in DOMAIN events
      <3>1. events[k].s \in Symbol /\ events[k].T <= changed[events[k].s]
        BY <2>1, EventAt DEF StreamGood
      <3>2. changed'[events[k].s] \in {changed[events[k].s], clock'}
        BY <1>1, <3>1
      <3> QED
        BY <1>1, <1>3, <1>5, <2>1, <3>1, <3>2
    <2>2. CASE k = n
      BY <1>1, <1>4, <2>2
    <2> QED
      BY <1>3, <2>1, <2>2
  <1>9. TimesRight(known)' /\ CopyComplete(known)'
    <2>1. PICK c : c = known
      OBVIOUS
    <2>2. IsCopy(c) /\ TimesRight(c) /\ CopyComplete(c)
      BY <2>1, Copies DEF StreamGood
    <2>3. TimesRight(c)' /\ CopyComplete(c)'
      BY <1>5, <2>2, ChangeCopy
    <2> QED
      BY <1>1, <2>1, <2>3 DEF TimesRight, CopyComplete, Merges
  <1>10. (\A r \in refresh : TimesRight(r) /\ (Reaches(r, merged) => CopyComplete(r)))'
    <2> SUFFICES ASSUME NEW r \in refresh
                 PROVE  TimesRight(r)' /\ (Reaches(r, merged)' => CopyComplete(r)')
      BY <1>1
    <2>1. IsCopy(r) /\ TimesRight(r) /\ (Reaches(r, merged) => CopyComplete(r))
      BY Copies DEF StreamGood
    <2>2. Reaches(r, merged)' => Reaches(r, merged)
      BY <1>1 DEF Reaches
    <2> QED
      BY <1>5, <2>1, <2>2, ChangeCopy
  <1>11. Honest(slot)'
    <2>1. Honest(slot) /\ slot \in Frame
      BY DEF StreamGood, TypeOK
    <2>2. PICK f : f = slot
      OBVIOUS
    <2>3. Honest(f)'
      BY <2>1, <2>2, ChangeHonest
    <2> QED
      BY <1>1, <2>2, <2>3 DEF Honest
  <1>12. (\A k \in DOMAIN toHub["stream"] : Honest(toHub["stream"][k]))'
    <2> SUFFICES ASSUME NEW k \in DOMAIN toHub["stream"]
                 PROVE  Honest(toHub["stream"][k])'
      BY <1>1
    <2>1. PICK f : f = toHub["stream"][k]
      OBVIOUS
    <2>2. f \in Frame /\ Honest(f)
      BY <2>1 DEF StreamGood, TypeOK, Writers
    <2>3. Honest(f)'
      BY <2>2, ChangeHonest
    <2> QED
      BY <1>1, <2>1, <2>3 DEF Honest
  <1> QED
    BY <1>6, <1>7, <1>8, <1>9, <1>10, <1>11, <1>12 DEF StreamGood

-----------------------------------------------------------------------------
\* A copy and the events once the oldest, which does not merge into it, is gone.
LEMMA DropCopy ==
    ASSUME TypeOK, NEW c, IsCopy(c), TimesRight(c), events # <<>>, ~Merges(c, 1),
           events' = Tail(events), UNCHANGED <<clock, account>>
    PROVE  TimesRight(c)' /\ (CopyComplete(c) => CopyComplete(c)')
  <1>1. /\ 1 \in DOMAIN events
        /\ \A k \in DOMAIN events' : k + 1 \in DOMAIN events /\ events'[k] = events[k + 1]
        /\ \A k \in DOMAIN events : k # 1 => k - 1 \in DOMAIN events' /\ events'[k - 1] = events[k]
    BY TailAt DEF TypeOK
  <1>2. /\ \A k \in DOMAIN events : k \in Nat /\ k >= 1
        /\ \A k \in DOMAIN events' : k \in Nat /\ k >= 1
    BY DEF TypeOK
  <1>3. \A k \in DOMAIN events' : Merges(c, k)' <=> Merges(c, k + 1)
    BY <1>1 DEF Merges
  <1>4. TimesRight(c)'
    BY <1>1, <1>3 DEF TimesRight
  <1>5. ASSUME CopyComplete(c) PROVE CopyComplete(c)'
    <2> SUFFICES ASSUME NEW t \in Symbol
                 PROVE  \/ /\ c.amt[t] = account[t]
                           /\ \A k \in DOMAIN events' : events'[k].s = t => ~Merges(c, k)'
                        \/ \E k \in DOMAIN events' :
                            /\ events'[k].s = t /\ Merges(c, k)'
                            /\ events'[k].amt = account[t]
                            /\ \A j \in DOMAIN events' : j > k => events'[j].s # t
      BY DEF CopyComplete
    <2>1. CASE /\ c.amt[t] = account[t]
               /\ \A k \in DOMAIN events : events[k].s = t => ~Merges(c, k)
      BY <1>1, <1>3, <2>1
    <2>2. CASE \E k \in DOMAIN events :
                  /\ events[k].s = t /\ Merges(c, k) /\ events[k].amt = account[t]
                  /\ \A j \in DOMAIN events : j > k => events[j].s # t
      <3>1. PICK k \in DOMAIN events :
                  /\ events[k].s = t /\ Merges(c, k) /\ events[k].amt = account[t]
                  /\ \A j \in DOMAIN events : j > k => events[j].s # t
        BY <2>2
      <3>2. /\ k - 1 \in DOMAIN events' /\ events'[k - 1] = events[k]
            /\ (k - 1) + 1 = k
        BY <1>1, <1>2, <3>1
      <3>3. Merges(c, k - 1)'
        BY <3>1, <3>2 DEF Merges
      <3>4. \A j \in DOMAIN events' : j > k - 1 => j + 1 > k
        BY <1>2
      <3>5. \A j \in DOMAIN events' : j > k - 1 => events'[j].s # t
        BY <1>1, <3>1, <3>4
      <3> QED
        BY <3>1, <3>2, <3>3, <3>5
    <2> QED
      BY <1>5, <2>1, <2>2 DEF CopyComplete
  <1> QED
    BY <1>4, <1>5

\* The copy c becomes d by merging the oldest event.
LEMMA MergeCopy ==
    ASSUME TypeOK, NEW c, NEW d, IsCopy(c), TimesRight(c), CopyComplete(c),
           events # <<>>, Merges(c, 1),
           d.updateTime = c.updateTime,
           d.amt = [c.amt EXCEPT ![Head(events).s] = Head(events).amt],
           events' = Tail(events), UNCHANGED <<clock, account>>
    PROVE  TimesRight(d)' /\ CopyComplete(d)'
  <1>1. /\ 1 \in DOMAIN events /\ Head(events) = events[1]
        /\ \A k \in DOMAIN events' : k + 1 \in DOMAIN events /\ events'[k] = events[k + 1]
        /\ \A k \in DOMAIN events : k # 1 => k - 1 \in DOMAIN events' /\ events'[k - 1] = events[k]
    BY TailAt DEF TypeOK
  <1>2. /\ \A k \in DOMAIN events : k \in Nat /\ k >= 1
        /\ \A k \in DOMAIN events' : k \in Nat /\ k >= 1
    BY DEF TypeOK
  <1>3. \A k \in DOMAIN events' : Merges(d, k)' <=> Merges(c, k + 1)
    BY <1>1 DEF Merges
  <1>4. TimesRight(d)'
    BY <1>1, <1>3 DEF TimesRight
  <1>5. CopyComplete(d)'
    <2> SUFFICES ASSUME NEW t \in Symbol
                 PROVE  \/ /\ d.amt[t] = account[t]
                           /\ \A k \in DOMAIN events' : events'[k].s = t => ~Merges(d, k)'
                        \/ \E k \in DOMAIN events' :
                            /\ events'[k].s = t /\ Merges(d, k)'
                            /\ events'[k].amt = account[t]
                            /\ \A j \in DOMAIN events' : j > k => events'[j].s # t
      BY DEF CopyComplete
    <2>0. d.amt[t] = IF t = events[1].s THEN events[1].amt ELSE c.amt[t]
      BY <1>1 DEF IsCopy, Positions
    <2>1. CASE /\ c.amt[t] = account[t]
               /\ \A k \in DOMAIN events : events[k].s = t => ~Merges(c, k)
      <3>1. events[1].s # t
        BY <1>1, <2>1
      <3> QED
        BY <1>1, <1>3, <2>0, <2>1, <3>1
    <2>2. CASE \E k \in DOMAIN events :
                  /\ events[k].s = t /\ Merges(c, k) /\ events[k].amt = account[t]
                  /\ \A j \in DOMAIN events : j > k => events[j].s # t
      <3>1. PICK k \in DOMAIN events :
                  /\ events[k].s = t /\ Merges(c, k) /\ events[k].amt = account[t]
                  /\ \A j \in DOMAIN events : j > k => events[j].s # t
        BY <2>2
      <3>2. CASE k = 1
        <4>1. d.amt[t] = account[t]
          BY <2>0, <3>1, <3>2
        <4>2. \A j \in DOMAIN events' : j + 1 \in DOMAIN events /\ j + 1 > k
          BY <1>1, <1>2, <3>2
        <4>3. \A j \in DOMAIN events' : events'[j].s # t
          BY <1>1, <3>1, <4>2
        <4> QED
          BY <4>1, <4>3
      <3>3. CASE k # 1
        <4>1. /\ k - 1 \in DOMAIN events' /\ events'[k - 1] = events[k]
              /\ (k - 1) + 1 = k
          BY <1>1, <1>2, <3>1, <3>3
        <4>2. Merges(d, k - 1)'
          BY <1>3, <3>1, <4>1
        <4>3. \A j \in DOMAIN events' : j > k - 1 => j + 1 > k
          BY <1>2
        <4>4. \A j \in DOMAIN events' : j > k - 1 => events'[j].s # t
          BY <1>1, <3>1, <4>3
        <4> QED
          BY <3>1, <4>1, <4>2, <4>4
      <3> QED
        BY <3>2, <3>3
    <2> QED
      BY <2>1, <2>2 DEF CopyComplete
  <1> QED
    BY <1>4, <1>5

\* Merging the oldest event: it joins the copy, and a reading that was taken
\* when it had happened has it already.
LEMMA StreamMerge ==
    ASSUME TypeOK, StreamGood, OnMessage
    PROVE  StreamGood'
  <1> USE DEF exchange, poller, stream, threads, history, copy, hub
  <1> DEFINE e == Head(events)
  <1>1. /\ clock \in Nat /\ UNCHANGED <<clock, account, changed, refresh, toHub, slot>>
        /\ events \in Seq(Event) /\ events # <<>>
        /\ events' = Tail(events) /\ announcing' = e.T /\ merged' = e.T
        /\ merged \in Nat
    BY DEF TypeOK, OnMessage, StartRefresh
  <1>2. /\ e = events[1] /\ 1 \in DOMAIN events
        /\ \A k \in DOMAIN events' : k + 1 \in DOMAIN events /\ events'[k] = events[k + 1]
    BY <1>1, TailAt
  <1>3. \A k \in DOMAIN events' : k \in Nat /\ k >= 1
    BY <1>1
  <1>4. e.s \in Symbol /\ e.T \in Nat /\ e.amt \in Amount
    BY <1>2, EventAt
  <1>5. merged < e.T /\ e.T <= clock
    BY <1>2 DEF StreamGood, EventsOrdered
  <1>6. EventsOrdered'
    <2>1. merged' <= clock' /\ announcing' \in {0, merged'}
      BY <1>1, <1>5
    <2>2. ASSUME NEW k \in DOMAIN events'
          PROVE  merged' < events'[k].T /\ events'[k].T <= clock'
      <3>1. 1 < k + 1 /\ k + 1 \in DOMAIN events
        BY <1>2, <1>3
      <3>2. events[1].T < events[k + 1].T /\ events[k + 1].T <= clock
        BY <1>2, <3>1 DEF StreamGood, EventsOrdered
      <3> QED
        BY <1>1, <1>2, <3>2
    <2>3. ASSUME NEW j \in DOMAIN events', NEW k \in DOMAIN events', j < k
          PROVE  events'[j].T < events'[k].T
      <3>1. j + 1 < k + 1 /\ j + 1 \in DOMAIN events /\ k + 1 \in DOMAIN events
        BY <1>2, <1>3, <2>3
      <3>2. events[j + 1].T < events[k + 1].T
        BY <3>1 DEF StreamGood, EventsOrdered
      <3> QED
        BY <1>2, <3>2
    <2> QED
      BY <2>1, <2>2, <2>3 DEF EventsOrdered
  <1>7. (\A s \in Symbol : changed[s] <= clock)'
    BY <1>1 DEF StreamGood
  <1>8. (\A k \in DOMAIN events : events[k].T <= changed[events[k].s])'
    BY <1>1, <1>2 DEF StreamGood
  <1>9. TimesRight(known)' /\ CopyComplete(known)'
    <2>1. IsCopy(known) /\ TimesRight(known) /\ CopyComplete(known)
      BY Copies DEF StreamGood
    <2>2. PICK c : c = known
      OBVIOUS
    <2>3. PICK d : d = known'
      OBVIOUS
    <2>4. Merges(c, 1) <=> e.T > known.updateTime[e.s]
      BY <1>2, <2>2 DEF Merges
    <2>5. CASE e.T > known.updateTime[e.s]
      <3>1. known' = [known EXCEPT !.amt = [known.amt EXCEPT ![e.s] = e.amt]]
        BY <2>5 DEF OnMessage
      <3>2. /\ known'.updateTime = known.updateTime
            /\ known'.amt = [known.amt EXCEPT ![e.s] = e.amt]
        BY <3>1 DEF TypeOK, Snapshots
      <3>3. TimesRight(d)' /\ CopyComplete(d)'
        BY <1>1, <2>1, <2>2, <2>3, <2>4, <2>5, <3>2, MergeCopy
      <3> QED
        BY <2>3, <3>3 DEF TimesRight, CopyComplete, Merges
    <2>6. CASE ~(e.T > known.updateTime[e.s])
      <3>1. known' = known
        BY <2>6 DEF OnMessage
      <3>2. TimesRight(c)' /\ CopyComplete(c)'
        BY <1>1, <2>1, <2>2, <2>4, <2>6, DropCopy
      <3> QED
        BY <2>2, <3>1, <3>2 DEF TimesRight, CopyComplete, Merges
    <2> QED
      BY <2>5, <2>6
  <1>10. (\A r \in refresh : TimesRight(r) /\ (Reaches(r, merged) => CopyComplete(r)))'
    <2> SUFFICES ASSUME NEW r \in refresh
                 PROVE  TimesRight(r)' /\ (Reaches(r, merged)' => CopyComplete(r)')
      BY <1>1
    <2>1. IsCopy(r) /\ TimesRight(r) /\ (Reaches(r, merged) => CopyComplete(r))
      BY Copies DEF StreamGood
    <2>2. \A s \in Symbol : r.updateTime[s] \in Nat
      BY <2>1 DEF IsCopy
    <2>3. CASE Merges(r, 1)
      <3>1. \A s \in Symbol : r.updateTime[s] < e.T
        BY <1>2, <2>1, <2>3 DEF TimesRight
      <3>2. ~Reaches(r, merged)'
        BY <1>1, <1>4, <1>5, <2>2, <3>1 DEF Reaches
      <3>3. TimesRight(r)'
        BY <1>1, <1>2, <2>1 DEF TimesRight, Merges
      <3> QED
        BY <3>2, <3>3
    <2>4. CASE ~Merges(r, 1)
      <3>1. TimesRight(r)' /\ (CopyComplete(r) => CopyComplete(r)')
        BY <1>1, <2>1, <2>4, DropCopy
      <3>2. ASSUME Reaches(r, merged)' PROVE Reaches(r, merged)
        <4>1. PICK s \in Symbol : r.updateTime[s] >= e.T
          BY <1>1, <1>4, <1>5, <3>2 DEF Reaches
        <4>2. r.updateTime[s] >= merged
          BY <1>1, <1>4, <1>5, <2>2, <4>1
        <4> QED
          BY <4>2 DEF Reaches
      <3> QED
        BY <2>1, <3>1, <3>2
    <2> QED
      BY <2>3, <2>4
  <1>11. /\ Honest(slot)'
         /\ (\A k \in DOMAIN toHub["stream"] : Honest(toHub["stream"][k]))'
    BY <1>1 DEF StreamGood, Honest
  <1> QED
    BY <1>6, <1>7, <1>8, <1>9, <1>10, <1>11 DEF StreamGood

\* A step that leaves the exchange, its events and what was merged alone
\* leaves a copy as complete as it was.
LEMMA RestCopies ==
    ASSUME StreamGood, UNCHANGED <<exchange, events, known, refresh, merged>>
    PROVE  /\ TimesRight(known)' /\ CopyComplete(known)'
           /\ (\A r \in refresh : TimesRight(r) /\ (Reaches(r, merged) => CopyComplete(r)))'
           /\ (\A s \in Symbol : changed[s] <= clock)'
           /\ (\A k \in DOMAIN events : events[k].T <= changed[events[k].s])'
  BY DEF StreamGood, exchange, TimesRight, CopyComplete, Merges, Reaches

\* Announcing: when the label is the time of the newest change, no event is
\* left, so that the copy is the account.
LEMMA StreamAnnounce ==
    ASSUME TypeOK, StreamGood, Announces
    PROVE  StreamGood'
  <1> USE DEF exchange, poller, stream, threads, history, copy, hub
  <1> DEFINE f == [update_ts |-> announcing, data |-> known.amt]
  <1>1. /\ clock \in Nat
        /\ UNCHANGED <<clock, account, changed, events, known, slot, refresh, merged>>
        /\ account \in [Symbol -> Amount]
        /\ merged \in Nat
        /\ announcing # 0 /\ announcing' = 0
        /\ toHub' = [toHub EXCEPT !["stream"] = Append(@, f)]
        /\ toHub["stream"] \in Seq(Frame)
        /\ known.amt \in [Symbol -> Amount]
    BY DEF TypeOK, Announces, Positions, Snapshots, Writers
  <1>2. announcing = merged
    BY <1>1 DEF StreamGood, EventsOrdered
  <1>3. f \in Frame
    BY <1>1, <1>2, Frames DEF Positions
  <1>4. Honest(f)
    <2>1. announcing <= clock
      BY <1>2 DEF StreamGood, EventsOrdered
    <2>2. ASSUME announcing = clock PROVE known.amt = account
      <3>1. ASSUME NEW k \in DOMAIN events PROVE FALSE
        <4>1. events[k].T \in Nat /\ clock < events[k].T /\ events[k].T <= clock
          BY <1>2, <2>2, EventAt DEF StreamGood, EventsOrdered
        <4> QED
          BY <1>1, <4>1
      <3>2. \A s \in Symbol : known.amt[s] = account[s]
        BY <3>1 DEF StreamGood, CopyComplete
      <3> QED
        BY <1>1, <3>2
    <2> QED
      BY <2>1, <2>2 DEF Honest
  <1>5. toHub'["stream"] = Append(toHub["stream"], f)
    <2>1. "stream" \in DOMAIN toHub
      BY DEF TypeOK, Writers
    <2> QED
      BY <1>1, <2>1
  <1>6. \A k \in DOMAIN toHub'["stream"] :
            \/ toHub'["stream"][k] = f
            \/ k \in DOMAIN toHub["stream"] /\ toHub'["stream"][k] = toHub["stream"][k]
    BY <1>1, <1>3, <1>5, AppendAt
  <1>7. (\A k \in DOMAIN toHub["stream"] : Honest(toHub["stream"][k]))'
    BY <1>1, <1>4, <1>6 DEF StreamGood, Honest
  <1>8. EventsOrdered' /\ Honest(slot)'
    BY <1>1 DEF StreamGood, EventsOrdered, Honest
  <1> QED
    BY <1>1, <1>7, <1>8, RestCopies DEF StreamGood

\* The hub takes frames that never promise more than they carry.
LEMMA StreamTaken ==
    ASSUME TypeOK, PollerInv, StreamGood, NEW w \in Writers, HubTakes(w)
    PROVE  StreamGood'
  <1> USE DEF exchange, poller, stream, threads, history, copy, hub
  <1>1. /\ UNCHANGED <<clock, account, changed, events, known, announcing, refresh, merged>>
        /\ toHub[w] # <<>> /\ toHub[w] \in Seq(Frame)
        /\ toHub' = [toHub EXCEPT ![w] = Tail(@)]
        /\ slot \in Frame
        /\ slot' = Hub!TryUpdate(slot, Head(toHub[w]).update_ts, Head(toHub[w]).data)
        /\ toHub["stream"] \in Seq(Frame)
        /\ DOMAIN toHub = Writers
    BY DEF TypeOK, HubTakes, Writers
  <1>2. /\ Head(toHub[w]) = toHub[w][1] /\ 1 \in DOMAIN toHub[w]
        /\ \A k \in DOMAIN Tail(toHub[w]) :
              k + 1 \in DOMAIN toHub[w] /\ Tail(toHub[w])[k] = toHub[w][k + 1]
    BY <1>1, TailAt
  <1>3. toHub[w][1] \in Frame
    BY <1>1, <1>2
  <1>4. Honest(toHub[w][1])
    <2>1. CASE w = "poller"
      BY <1>2, <2>1 DEF PollerInv, PollFrames
    <2>2. CASE w = "stream"
      BY <1>2, <2>2 DEF StreamGood
    <2> QED
      BY <2>1, <2>2 DEF Writers
  <1>5. slot' \in {slot, toHub[w][1]}
    BY <1>1, <1>2, <1>3, TakenFrame
  <1>6. Honest(slot)'
    BY <1>1, <1>4, <1>5 DEF StreamGood, Honest
  <1>7. (\A k \in DOMAIN toHub["stream"] : Honest(toHub["stream"][k]))'
    <2>1. CASE w = "stream"
      <3>1. toHub'["stream"] = Tail(toHub["stream"])
        BY <1>1, <2>1
      <3> QED
        BY <1>1, <1>2, <2>1, <3>1 DEF StreamGood, Honest
    <2>2. CASE w # "stream"
      <3>1. toHub'["stream"] = toHub["stream"]
        BY <1>1, <2>2
      <3> QED
        BY <1>1, <3>1 DEF StreamGood, Honest
    <2> QED
      BY <2>1, <2>2
  <1>8. EventsOrdered'
    BY <1>1 DEF StreamGood, EventsOrdered
  <1> QED
    BY <1>1, <1>6, <1>7, <1>8, RestCopies DEF StreamGood

\* A REST reading is the account, and its update times leave nothing to merge.
LEMMA StreamReads ==
    ASSUME TypeOK, StreamGood, RefreshReads
    PROVE  StreamGood'
  <1> USE DEF exchange, poller, stream, threads, history, copy, hub
  <1>1. PICK t \in asked : refresh' = refresh \cup {ReadingOf(t)}
    BY DEF RefreshReads
  <1>2. UNCHANGED <<clock, account, changed, events, known, announcing, merged, toHub, slot>>
    BY DEF RefreshReads
  <1>3. changed \in [Symbol -> Nat]
    BY DEF TypeOK
  <1>4. ASSUME NEW k \in DOMAIN events PROVE ~Merges(ReadingOf(t), k)
    <2>1. /\ events[k].T \in Nat /\ events[k].s \in Symbol
          /\ events[k].T <= changed[events[k].s]
      BY EventAt DEF StreamGood
    <2> QED
      BY <1>3, <2>1 DEF Merges, ReadingOf
  <1>5. TimesRight(ReadingOf(t)) /\ CopyComplete(ReadingOf(t))
    BY <1>4 DEF TimesRight, CopyComplete, ReadingOf, StreamGood
  <1>6. ASSUME NEW r \in refresh'
        PROVE  TimesRight(r)' /\ (Reaches(r, merged)' => CopyComplete(r)')
    <2>1. TimesRight(r) /\ (Reaches(r, merged) => CopyComplete(r))
      BY <1>1, <1>5 DEF StreamGood
    <2> QED
      BY <1>2, <2>1 DEF TimesRight, CopyComplete, Merges, Reaches
  <1>7. TimesRight(known)' /\ CopyComplete(known)'
    BY <1>2 DEF StreamGood, TimesRight, CopyComplete, Merges
  <1> QED
    BY <1>2, <1>6, <1>7 DEF StreamGood, EventsOrdered, Honest

\* A reading that reaches what was merged takes the copy's place.
LEMMA StreamStores ==
    ASSUME TypeOK, StreamGood, RefreshStores, ~overtaken'
    PROVE  StreamGood'
  <1> USE DEF exchange, poller, stream, threads, history, copy, hub
  <1>1. PICK r \in refresh :
          /\ known' = [amt |-> r.amt, updateTime |-> r.updateTime]
          /\ refresh' = refresh \ {r}
          /\ overtaken' = (overtaken \/ ~Reaches(r, merged))
    BY DEF RefreshStores
  <1>2. UNCHANGED <<clock, account, changed, events, announcing, merged, toHub, slot>>
    BY DEF RefreshStores
  <1>3. Reaches(r, merged)
    BY <1>1
  <1>4. TimesRight(r) /\ CopyComplete(r)
    BY <1>3 DEF StreamGood
  <1>5. known'.amt = r.amt /\ known'.updateTime = r.updateTime
    BY <1>1
  <1>6. TimesRight(known)' /\ CopyComplete(known)'
    BY <1>2, <1>4, <1>5 DEF TimesRight, CopyComplete, Merges
  <1>7. ASSUME NEW q \in refresh'
        PROVE  TimesRight(q)' /\ (Reaches(q, merged)' => CopyComplete(q)')
    <2>1. TimesRight(q) /\ (Reaches(q, merged) => CopyComplete(q))
      BY <1>1 DEF StreamGood
    <2> QED
      BY <1>2, <2>1 DEF TimesRight, CopyComplete, Merges, Reaches
  <1> QED
    BY <1>2, <1>6, <1>7 DEF StreamGood, EventsOrdered, Honest

\* It holds after every step.
LEMMA StreamStep == TypeOK /\ PollerInv /\ StreamInv /\ [Next]_feedVars => StreamInv'
  <1> SUFFICES ASSUME TypeOK, PollerInv, StreamInv, [Next]_feedVars, Undisturbed'
               PROVE  StreamGood'
    BY DEF StreamInv
  <1> USE DEF exchange, poller, stream, threads, history, copy, hub
  <1>0. Undisturbed
    BY StaysDisturbed
  <1>1. StreamGood /\ missed = 0 /\ missed' = 0 /\ ~overtaken'
    BY <1>0 DEF StreamInv, Undisturbed
  <1>2. ASSUME NEW s \in Symbol, NEW amt \in Amount, Change(s, amt)
        PROVE  StreamGood'
    BY <1>1, <1>2, StreamChange
  <1>3. CASE OnMessage
    BY <1>1, <1>3, StreamMerge
  <1>4. CASE Announces
    BY <1>1, <1>4, StreamAnnounce
  <1>5. ASSUME NEW w \in Writers, HubTakes(w) PROVE StreamGood'
    BY <1>1, <1>5, StreamTaken
  <1>6. ASSUME UNCHANGED <<exchange, events, known, announcing, refresh, merged,
                           slot, toHub["stream"]>>
        PROVE  StreamGood'
    <2>1. /\ EventsOrdered' /\ Honest(slot)'
          /\ (\A k \in DOMAIN toHub["stream"] : Honest(toHub["stream"][k]))'
      BY <1>1, <1>6 DEF StreamGood, EventsOrdered, Honest
    <2> QED
      BY <1>1, <1>6, <2>1, RestCopies DEF StreamGood
  <1>7. CASE StreamBreaks
    <2>1. Len(events) \in Nat
      BY DEF TypeOK
    <2> QED
      BY <1>1, <1>7, <2>1 DEF StreamBreaks
  <1>8. CASE PollSends
    <2>1. toHub'["stream"] = toHub["stream"]
      BY <1>8 DEF PollSends, TypeOK, Writers
    <2> QED
      BY <1>6, <1>8, <2>1 DEF PollSends
  <1>9. CASE StreamConnects \/ PollReads \/ UNCHANGED feedVars
    BY <1>6, <1>9 DEF StreamConnects, PollReads, feedVars
  <1>10. CASE OnOtherMessage \/ SecondPasses \/ RefreshFails
    BY <1>6, <1>10 DEF OnOtherMessage, StartRefresh, SecondPasses, RefreshFails
  <1>11. ASSUME NEW w \in Writers, FrameLost(w) PROVE StreamGood'
    BY <1>1, <1>11 DEF FrameLost
  <1>12. CASE HubRestarts
    <2>1. /\ UNCHANGED <<exchange, events, known, announcing, refresh, merged>>
          /\ toHub'["stream"] = <<>> /\ slot' = [update_ts |-> 0, data |-> Flat]
      BY <1>12, Frames DEF HubRestarts, Writers
    <2>2. clock \in Nat
      BY DEF TypeOK
    <2>3. Honest(slot)' /\ (\A k \in DOMAIN toHub["stream"] : Honest(toHub["stream"][k]))'
      BY <2>1, <2>2 DEF Honest
    <2>4. EventsOrdered'
      BY <1>1, <2>1 DEF StreamGood, EventsOrdered
    <2> QED
      BY <1>1, <2>1, <2>3, <2>4, RestCopies DEF StreamGood
  <1>13. CASE RefreshReads
    BY <1>1, <1>13, StreamReads
  <1>14. CASE RefreshStores
    BY <1>1, <1>14, StreamStores
  <1> QED
    BY <1>2, <1>3, <1>4, <1>5, <1>7, <1>8, <1>9, <1>10, <1>11, <1>12, <1>13,
       <1>14 DEF Next

\* NewestShownRight is an invariant, for any symbols, amounts, threads and
\* delays: with nothing lost and no event undone by an older reading,
\* wsPosition's merging and refreshing and both connections add up to the
\* account at the exchange.
THEOREM StreamHonest == Spec => []NewestShownRight
  <1>1. StreamInv => NewestShownRight
    BY DEF StreamInv, StreamGood, NewestShownRight, Undisturbed, Honest
  <1> QED
    BY <1>1, TypeInit, TypeStep, PollerInit, PollerStep, StreamInit, StreamStep, PTL DEF Spec
=============================================================================
