-------------------------- MODULE StatusPage_proofs --------------------------
(***************************************************************************)
(* The page's copy of the event log, for every value of the constants and  *)
(* every order in which the answers to its polls arrive: it shows no entry *)
(* twice, the entries of one process in their order, and while nothing was *)
(* dropped or restarted it has skipped none.                               *)
(***************************************************************************)
EXTENDS StatusPage, SequenceTheorems, TLAPS

Entries == Nat \X Nat

\* The logs an answer could show on the page, now or later.
Snapshots == {m_logs} \union {a.status.logs : a \in answers}

Sorted(s) ==
    \A i, j \in 1..Len(s) : i < j /\ s[i][1] = s[j][1] => s[i][2] < s[j][2]

\* What s holds beyond its first k entries was written after t.
Newer(s, k, t) ==
    \A i \in 1..Len(s), j \in 1..Len(t) :
        i > k /\ s[i][1] = t[j][1] => t[j][2] < s[i][2]

TypeOK ==
    /\ life \in Nat /\ entries \in Nat /\ page.count \in Nat
    /\ overflowed \in BOOLEAN
    /\ logBox \in Seq(Entries) /\ Snapshots \subseteq Seq(Entries)

\* Nothing comes from a process or an entry that is yet to be, and a log is as
\* long as the server keeps it at most.
PastInv ==
    /\ \A s \in Snapshots \union {logBox} :
          \A i \in 1..Len(s) : s[i][1] <= life /\ s[i][2] <= entries
    /\ \A s \in Snapshots : Sorted(s) /\ Len(s) <= LogCap
    /\ \A i \in 1..Len(m_logs) : m_logs[i][1] = life

\* The log of a process only grows: of two states of it, what the longer one has
\* more is newer, and so is what the page has not shown yet.
GrowthInv ==
    /\ \A s \in Snapshots, i \in 1..LogCap :
          i <= Len(s) /\ s[i][1] = life => Len(s) <= Len(m_logs)
    /\ \A s, t \in Snapshots : Newer(s, Len(t), t)
    /\ \A s \in Snapshots : Newer(s, page.count, logBox)

\* The first entries of the first process.
Prefix(s) == \A i \in 1..Len(s) : s[i] = <<0, i>>

\* As long as there is only this process and its log is whole.
WholeInv ==
    life = 0 /\ ~overflowed =>
        /\ Len(m_logs) = entries
        /\ \A s \in Snapshots \union {logBox} : Prefix(s)
        /\ Len(logBox) = page.count

StatusInv ==
    TypeOK /\ PastInv /\ GrowthInv /\ Sorted(logBox) /\ WholeInv

-----------------------------------------------------------------------------
(***************************************************************************)
(* What a step does to the log, the answers and the page.                  *)
(***************************************************************************)
LogAdded ==
    /\ m_logs' = PushLog(m_logs, <<life, entries'>>) /\ entries' = entries + 1
    /\ overflowed' = (overflowed \/ Len(m_logs) = LogCap)
    /\ UNCHANGED <<life, answers, page, logBox>>

AnswerMade ==
    /\ \E id : answers' = answers \union {[id |-> id, status |-> Status]}
    /\ UNCHANGED <<life, entries, m_logs, overflowed, page, logBox>>

NothingLogged ==
    UNCHANGED <<life, entries, m_logs, overflowed, answers, page, logBox>>

LEMMA StepEffect ==
    ASSUME TypeOK, [Next]_vars
    PROVE  LogAdded \/ AnswerMade \/ NothingLogged \/ Restart \/ ShowStatus \/ Reload
<1> USE DEF loopVars, serverVars, netVars, pageVars, NothingLogged
<1>1. CASE LoopPass
  BY <1>1 DEF LoopPass, SearchFails, SearchSucceeds, HandshakeCompletes, Collect,
     NotificationCaptured, SessionLost, Pass
<1>2. CASE Call
  <2>1. CASE Head(calls)[1] = "log"
    BY <1>2, <2>1 DEF Call, LogAdded
  <2>2. CASE Head(calls)[1] # "log"
    <3>1. UNCHANGED overflowed
      BY <1>2, <2>2 DEF Call, TypeOK
    <3>2. QED
      BY <1>2, <2>2, <3>1 DEF Call
  <2>3. QED
    BY <2>1, <2>2
<1>3. CASE HandleClient
  BY <1>3 DEF HandleClient, AnswerMade
<1>4. CASE FetchStatus \/ Connect \/ HangUp
  BY <1>4 DEF FetchStatus, Connect, HangUp
<1>5. CASE UNCHANGED vars
  BY <1>5 DEF vars
<1>6. QED
  BY <1>1, <1>2, <1>3, <1>4, <1>5 DEF Next

LEMMA Pushed ==
    ASSUME NEW s \in Seq(Entries), NEW e \in Entries, Len(s) <= LogCap
    PROVE  LET new == PushLog(s, e) IN
           /\ new \in Seq(Entries)
           /\ Len(s) \in Nat /\ Len(new) \in Nat
           /\ Len(new) = IF Len(s) = LogCap THEN LogCap ELSE Len(s) + 1
           /\ new[Len(new)] = e
           /\ \A i \in 1..Len(new) - 1 :
                 new[i] = s[IF Len(s) = LogCap THEN i + 1 ELSE i]
<1> DEFINE all == Append(s, e)
<1>1. /\ all \in Seq(Entries) /\ Len(s) \in Nat /\ Len(all) = Len(s) + 1
      /\ all[Len(s) + 1] = e /\ \A i \in 1..Len(s) : all[i] = s[i]
  BY AppendProperties, LenProperties
<1>2. all # <<>> /\ LogCap \in Nat \ {0}
  BY AppendProperties, StatusAssumption
<1>3. PushLog(s, e) = IF Len(all) > LogCap THEN Tail(all) ELSE all
  BY DEF PushLog
<1> HIDE DEF all
<1>4. CASE Len(s) = LogCap
  <2>1. /\ Tail(all) \in Seq(Entries) /\ Len(Tail(all)) = LogCap
        /\ \A i \in 1..LogCap : Tail(all)[i] = all[i + 1]
    BY <1>1, <1>2, <1>4, HeadTailProperties
  <2>2. Tail(all)[LogCap] = e
    BY <1>1, <1>2, <1>4, <2>1
  <2>3. QED
    BY <1>1, <1>2, <1>3, <1>4, <2>1, <2>2
<1>5. CASE Len(s) # LogCap
  BY <1>1, <1>2, <1>3, <1>5
<1>6. QED
  BY <1>4, <1>5

\* The log after an entry was added, by the entries of the log before it.
LEMMA LogAfter ==
    ASSUME TypeOK, PastInv, LogAdded
    PROVE  /\ m_logs' \in Seq(Entries) /\ entries' = entries + 1 /\ entries \in Nat
           /\ life \in Nat
           /\ Len(m_logs) \in Nat /\ Len(m_logs') \in Nat /\ Len(m_logs) <= LogCap
           /\ LogCap \in Nat \ {0}
           /\ Len(m_logs') = IF Len(m_logs) = LogCap THEN LogCap ELSE Len(m_logs) + 1
           /\ m_logs'[Len(m_logs')] = <<life, entries + 1>>
           /\ \A i \in 1..Len(m_logs') - 1 :
                 m_logs'[i] = m_logs[IF Len(m_logs) = LogCap THEN i + 1 ELSE i]
<1>1. m_logs \in Snapshots
  BY DEF Snapshots
<1>2. /\ m_logs \in Seq(Entries) /\ Len(m_logs) <= LogCap
      /\ <<life, entries + 1>> \in Entries
  BY <1>1 DEF TypeOK, PastInv, Entries
<1>3. m_logs' = PushLog(m_logs, <<life, entries + 1>>) /\ entries' = entries + 1
  BY DEF LogAdded
<1>4. QED
  BY <1>2, <1>3, Pushed, StatusAssumption DEF TypeOK

LEMMA SnapshotLens ==
    ASSUME TypeOK, NEW s \in Snapshots \union {logBox}
    PROVE  s \in Seq(Entries) /\ Len(s) \in Nat
           /\ \A i \in 1..Len(s) : s[i][1] \in Nat /\ s[i][2] \in Nat
<1>1. s \in Seq(Entries)
  BY DEF TypeOK
<1>2. Len(s) \in Nat /\ \A i \in 1..Len(s) : s[i] \in Entries
  BY <1>1, LenProperties, ElementOfSeq
<1>3. QED
  BY <1>1, <1>2 DEF Entries

LEMMA AddedSnapshots ==
    ASSUME LogAdded
    PROVE  \A s \in Snapshots' : s = m_logs' \/ s \in Snapshots
BY DEF Snapshots, LogAdded

LEMMA LogAddedKeeps ==
    ASSUME StatusInv, LogAdded
    PROVE  StatusInv'
<1>1. TypeOK /\ PastInv /\ GrowthInv /\ Sorted(logBox) /\ WholeInv
  BY DEF StatusInv
<1>2. /\ UNCHANGED <<life, page, logBox>> /\ entries' = entries + 1
      /\ m_logs \in Snapshots
  BY DEF LogAdded, Snapshots
<1>3. TypeOK'
  <2>1. Snapshots' \subseteq Seq(Entries)
    BY <1>1, LogAfter, AddedSnapshots DEF TypeOK
  <2>2. overflowed' \in BOOLEAN
    BY DEF LogAdded
  <2>3. QED
    BY <1>1, <1>2, <2>1, <2>2 DEF TypeOK
<1>4. \A i \in 1..Len(m_logs') : \/ m_logs'[i] = <<life, entries + 1>>
                                 \/ \E k \in 1..Len(m_logs) : m_logs'[i] = m_logs[k] /\ k >= i
  <2> TAKE i \in 1..Len(m_logs')
  <2> DEFINE k == IF Len(m_logs) = LogCap THEN i + 1 ELSE i
  <2>1. CASE i = Len(m_logs')
    BY <1>1, <2>1, LogAfter
  <2>2. CASE i # Len(m_logs')
    <3>1. i \in 1..Len(m_logs') - 1
      BY <1>1, <2>2, LogAfter
    <3>2. k \in 1..Len(m_logs) /\ k >= i
      BY <1>1, <3>1, LogAfter
    <3>3. m_logs'[i] = m_logs[k]
      BY <1>1, <3>1, LogAfter
    <3>4. QED
      BY <3>2, <3>3
  <2>3. QED
    BY <2>1, <2>2
<1>5. \A i \in 1..Len(m_logs') : m_logs'[i][1] = life /\ m_logs'[i][2] <= entries + 1
  BY SMTT(30), <1>1, <1>2, <1>4, LogAfter, SnapshotLens DEF PastInv
<1>6. Sorted(m_logs')
  <2> SUFFICES ASSUME NEW i \in 1..Len(m_logs'), NEW j \in 1..Len(m_logs'), i < j
               PROVE  m_logs'[i][2] < m_logs'[j][2]
    BY DEF Sorted
  <2> DEFINE d == IF Len(m_logs) = LogCap THEN 1 ELSE 0
  <2>1. /\ d \in {0, 1} /\ i + d \in 1..Len(m_logs) /\ m_logs'[i] = m_logs[i + d]
        /\ j < Len(m_logs') => j + d \in 1..Len(m_logs) /\ m_logs'[j] = m_logs[j + d]
    BY <1>1, LogAfter
  <2> HIDE DEF d
  <2>2. CASE j = Len(m_logs')
    BY <1>1, <1>2, <2>1, <2>2, LogAfter, SnapshotLens DEF PastInv
  <2>3. CASE j < Len(m_logs')
    BY <1>1, <1>2, <2>1, <2>3 DEF PastInv, Sorted
  <2>4. QED
    BY <1>1, <2>2, <2>3, LogAfter
<1>7. PastInv'
  <2>1. ASSUME NEW s \in Snapshots \union {logBox}, NEW i \in 1..Len(s)
        PROVE  s[i][1] <= life /\ s[i][2] <= entries'
    <3>1. s[i][2] \in Nat /\ s[i][2] <= entries /\ s[i][1] <= life /\ entries \in Nat
      BY <1>1, <2>1, SnapshotLens DEF PastInv, TypeOK
    <3>2. QED
      BY <1>2, <3>1
  <2>2. Len(m_logs') <= LogCap
    BY <1>1, LogAfter
  <2>3. life <= life
    BY <1>1 DEF TypeOK
  <2>4. \A s \in Snapshots' \union {logBox'} : s = m_logs' \/ s \in Snapshots \union {logBox}
    BY <1>2, AddedSnapshots
  <2>5. QED
    BY <1>1, <1>2, <1>5, <1>6, <2>1, <2>2, <2>3, <2>4, AddedSnapshots DEF PastInv
<1>8. ASSUME NEW t \in Snapshots \union {logBox}, NEW k \in Nat,
             \E s \in Snapshots : s = m_logs /\ Newer(s, k, t)
      PROVE  Newer(m_logs', k, t)
  <2> SUFFICES ASSUME NEW i \in 1..Len(m_logs'), NEW j \in 1..Len(t), i > k,
                      m_logs'[i][1] = t[j][1]
               PROVE  t[j][2] < m_logs'[i][2]
    BY DEF Newer
  <2>1. t[j][2] \in Nat /\ t[j][2] <= entries /\ entries \in Nat
    BY <1>1, SnapshotLens DEF PastInv, TypeOK
  <2>2. CASE m_logs'[i] = <<life, entries + 1>>
    BY <2>1, <2>2
  <2>3. ASSUME NEW n \in 1..Len(m_logs), m_logs'[i] = m_logs[n], n >= i
        PROVE  t[j][2] < m_logs'[i][2]
    <3>1. n > k
      BY <2>3, <1>1, LogAfter
    <3>2. QED
      BY <1>8, <2>3, <3>1 DEF Newer
  <2>4. QED
    BY <1>4, <2>2, <2>3
<1>9. ASSUME NEW s \in Snapshots PROVE Newer(s, Len(m_logs'), m_logs')
  <2> SUFFICES ASSUME NEW i \in 1..Len(s), NEW j \in 1..Len(m_logs'),
                      i > Len(m_logs'), s[i][1] = m_logs'[j][1]
               PROVE  FALSE
    BY DEF Newer
  <2>1. s[i][1] = life
    BY <1>5
  <2>2. Len(s) <= LogCap /\ Len(s) \in Nat
    BY <1>1, SnapshotLens DEF PastInv
  <2>3. Len(s) <= Len(m_logs)
    BY <1>1, <2>1, <2>2, LogAfter DEF GrowthInv
  <2>4. QED
    BY <1>1, <2>2, <2>3, LogAfter
<1>10. GrowthInv'
  <2>1. ASSUME NEW s \in Snapshots', NEW i \in 1..LogCap, i <= Len(s), s[i][1] = life
        PROVE  Len(s) <= Len(m_logs')
    <3>1. Len(m_logs') \in Nat /\ Len(m_logs) <= Len(m_logs') /\ Len(m_logs) \in Nat
      BY <1>1, LogAfter
    <3>2. CASE s = m_logs'
      BY <3>1, <3>2
    <3>3. CASE s \in Snapshots
      <4>1. Len(s) <= Len(m_logs) /\ Len(s) \in Nat
        BY <1>1, <2>1, <3>3, SnapshotLens DEF GrowthInv
      <4>2. QED
        BY <3>1, <4>1
    <3>4. QED
      BY <3>2, <3>3, AddedSnapshots
  <2>2. ASSUME NEW s \in Snapshots', NEW t \in Snapshots'
        PROVE  Newer(s, Len(t), t)
    <3>1. CASE s \in Snapshots /\ t \in Snapshots
      BY <1>1, <3>1 DEF GrowthInv
    <3>2. CASE s \in Snapshots /\ t = m_logs'
      BY <1>9, <3>2
    <3>3. CASE s = m_logs' /\ t \in Snapshots
      BY <1>1, <1>2, <1>8, <3>3, SnapshotLens DEF GrowthInv
    <3>4. CASE s = m_logs' /\ t = m_logs'
      BY <1>1, <3>4, LogAfter DEF Newer
    <3>5. QED
      BY <3>1, <3>2, <3>3, <3>4, AddedSnapshots
  <2>3. ASSUME NEW s \in Snapshots' PROVE Newer(s, page.count, logBox)
    <3>1. Newer(m_logs', page.count, logBox)
      BY <1>1, <1>2, <1>8 DEF GrowthInv, TypeOK
    <3>2. QED
      BY <1>1, <3>1, AddedSnapshots DEF GrowthInv
  <2>4. QED
    BY <1>2, <2>1, <2>2, <2>3 DEF GrowthInv
<1>11. WholeInv'
  <2> SUFFICES ASSUME life = 0, ~overflowed'
               PROVE  /\ Len(m_logs') = entries'
                      /\ \A s \in Snapshots' \union {logBox} : Prefix(s)
                      /\ Len(logBox) = page.count
    BY <1>2 DEF WholeInv
  <2>1. ~overflowed /\ Len(m_logs) # LogCap
    BY DEF LogAdded
  <2>2. /\ Len(m_logs) = entries
        /\ \A s \in Snapshots \union {logBox} : Prefix(s)
        /\ Len(logBox) = page.count
    BY <1>1, <2>1 DEF WholeInv
  <2>3. Len(m_logs') = entries'
    BY <1>1, <2>1, <2>2, LogAfter
  <2>4. Prefix(m_logs')
    <3>1. ASSUME NEW i \in 1..Len(m_logs'), i # Len(m_logs')
          PROVE  m_logs'[i] = <<0, i>>
      <4>1. i \in 1..Len(m_logs) /\ m_logs'[i] = m_logs[i]
        BY <1>1, <2>1, <3>1, LogAfter
      <4>2. QED
        BY <1>2, <2>2, <4>1 DEF Prefix
    <3>2. m_logs'[Len(m_logs')] = <<0, Len(m_logs')>>
      BY <1>1, <2>3, LogAfter
    <3>3. QED
      BY <3>1, <3>2 DEF Prefix
  <2>5. QED
    BY <2>2, <2>3, <2>4, AddedSnapshots
<1>12. QED
  BY <1>1, <1>2, <1>3, <1>7, <1>10, <1>11 DEF StatusInv

LEMMA AnswerMadeKeeps ==
    ASSUME StatusInv, AnswerMade
    PROVE  StatusInv'
<1>1. UNCHANGED <<life, entries, m_logs, overflowed, page, logBox>>
  BY DEF AnswerMade
<1>2. Snapshots' = Snapshots
  BY DEF AnswerMade, Snapshots, Status
<1>3. QED
  BY <1>1, <1>2 DEF StatusInv, TypeOK, PastInv, GrowthInv, WholeInv

LEMMA RestartKeeps ==
    ASSUME StatusInv, Restart
    PROVE  StatusInv'
<1>1. TypeOK /\ PastInv /\ GrowthInv /\ Sorted(logBox)
  BY DEF StatusInv
<1>2. /\ life' = life + 1 /\ m_logs' = <<>> /\ life \in Nat
      /\ UNCHANGED <<entries, overflowed, answers, page, logBox>>
  BY <1>1 DEF Restart, pageVars, TypeOK
<1>3. \A s \in Snapshots' : s = <<>> \/ s \in Snapshots
  BY <1>2 DEF Snapshots
<1>4. Len(<<>>) = 0 /\ <<>> \in Seq(Entries) /\ LogCap \in Nat
  BY EmptySeq, StatusAssumption
<1>5. TypeOK'
  <2>1. Snapshots' \subseteq Seq(Entries)
    BY <1>1, <1>3, <1>4 DEF TypeOK
  <2>2. QED
    BY <1>1, <1>2, <2>1 DEF TypeOK
<1>6. PastInv'
  <2>1. ASSUME NEW s \in Snapshots \union {logBox}, NEW i \in 1..Len(s)
        PROVE  s[i][1] <= life' /\ s[i][2] <= entries /\ s[i][1] # life'
    <3>1. s[i][1] \in Nat /\ s[i][1] <= life /\ s[i][2] <= entries
      BY <1>1, <2>1, SnapshotLens DEF PastInv
    <3>2. QED
      BY <1>2, <3>1
  <2>2. Sorted(<<>>)
    BY <1>4 DEF Sorted
  <2>3. QED
    BY <1>1, <1>2, <1>3, <1>4, <2>1, <2>2 DEF PastInv
<1>7. GrowthInv'
  <2>1. ASSUME NEW s \in Snapshots', NEW i \in 1..LogCap, i <= Len(s)
        PROVE  s[i][1] # life'
    <3>1. s \in Snapshots /\ Len(s) \in Nat
      BY <1>1, <1>3, <1>4, <2>1, SnapshotLens
    <3>2. s[i][1] \in Nat /\ s[i][1] <= life
      BY <1>1, <2>1, <3>1, SnapshotLens DEF PastInv
    <3>3. QED
      BY <1>2, <3>2
  <2>2. ASSUME NEW s \in Snapshots', NEW t \in Snapshots'
        PROVE  Newer(s, Len(t), t)
    BY <1>1, <1>3, <1>4 DEF GrowthInv, Newer
  <2>3. ASSUME NEW s \in Snapshots' PROVE Newer(s, page.count, logBox)
    BY <1>1, <1>3, <1>4 DEF GrowthInv, Newer
  <2>4. QED
    BY <1>2, <2>1, <2>2, <2>3 DEF GrowthInv
<1>8. WholeInv'
  BY <1>2 DEF WholeInv
<1>9. QED
  BY <1>1, <1>2, <1>5, <1>6, <1>7, <1>8 DEF StatusInv

LEMMA ReloadKeeps ==
    ASSUME StatusInv, Reload
    PROVE  StatusInv'
<1>1. TypeOK /\ PastInv /\ GrowthInv /\ WholeInv
  BY DEF StatusInv
<1>2. /\ UNCHANGED <<life, entries, m_logs, overflowed>>
      /\ page'.count = 0 /\ logBox' = <<>> /\ answers' = {}
  BY DEF Reload, loopVars, serverVars, FreshPage
<1>3. Snapshots' = {m_logs} /\ m_logs \in Snapshots
  BY <1>2 DEF Snapshots
<1>4. Len(<<>>) = 0 /\ <<>> \in Seq(Entries)
  BY EmptySeq
<1>5. \A s : Newer(s, 0, <<>>)
  BY <1>4 DEF Newer
<1>6. Sorted(<<>>) /\ Prefix(<<>>)
  BY <1>4 DEF Sorted, Prefix
<1>7. TypeOK'
  BY <1>1, <1>2, <1>3, <1>4 DEF TypeOK
<1>8. PastInv'
  BY <1>1, <1>2, <1>3, <1>4 DEF PastInv
<1>9. GrowthInv'
  <2>1. Newer(m_logs, Len(m_logs), m_logs)
    BY <1>1, <1>3 DEF GrowthInv
  <2>2. \A i \in 1..LogCap : i <= Len(m_logs) => Len(m_logs) <= Len(m_logs)
    BY <1>1, <1>3, SnapshotLens
  <2>3. QED
    BY <1>2, <1>3, <1>5, <2>1, <2>2 DEF GrowthInv
<1>10. WholeInv'
  BY <1>1, <1>2, <1>3, <1>4, <1>6 DEF WholeInv
<1>11. QED
  BY <1>2, <1>6, <1>7, <1>8, <1>9, <1>10 DEF StatusInv

-----------------------------------------------------------------------------
(***************************************************************************)
(* An answer arrives.                                                      *)
(***************************************************************************)
LEMMA BoxAfter ==
    ASSUME TypeOK, NEW a \in answers, ShowAnswer(a), a.status.parsable
    PROVE  LET logs == a.status.logs
               had  == Len(logBox)
           IN  /\ logs \in Snapshots /\ logs \in Seq(Entries) /\ Len(logs) \in Nat
               /\ logBox' \in Seq(Entries) /\ had \in Nat /\ Len(logBox') \in Nat
               /\ page'.count \in Nat
               /\ page'.count = IF Len(logs) > page.count THEN Len(logs)
                                                          ELSE page.count
               /\ Len(logBox') = had + (page'.count - page.count)
               /\ \A i \in 1..had : logBox'[i] = logBox[i]
               /\ \A i \in (had + 1)..Len(logBox') :
                     /\ (i - had) + page.count \in (page.count + 1)..Len(logs)
                     /\ logBox'[i] = logs[(i - had) + page.count]
<1> DEFINE logs == a.status.logs
           had  == Len(logBox)
           new  == SubSeq(logs, page.count + 1, Len(logs))
<1>1. /\ logBox' = logBox \o new
      /\ page'.count = IF Len(logs) > page.count THEN Len(logs) ELSE page.count
  <2>1. /\ logBox' = logBox \o new
        /\ page' = [state |-> a.status.state,
                    telemetry |-> a.status.telemetry, git |-> a.status.git,
                    count |-> IF Len(logs) > page.count THEN Len(logs)
                                                        ELSE page.count]
    BY Zenon DEF ShowAnswer, NewEntries
  <2>2. QED
    BY <2>1
<1>2. logs \in Snapshots
  BY DEF Snapshots
<1> HIDE DEF logs
<1>3. /\ logs \in Seq(Entries) /\ Len(logs) \in Nat
      /\ had \in Nat /\ logBox \in Seq(Entries) /\ page.count \in Nat
  BY <1>2, SnapshotLens DEF TypeOK
<1>4. \A i \in (page.count + 1)..Len(logs) : logs[i] \in Entries
  BY <1>3, ElementOfSeq
<1>5. /\ new \in Seq(Entries)
      /\ Len(new) = IF page.count + 1 <= Len(logs) THEN Len(logs) - page.count ELSE 0
      /\ \A k \in 1..Len(logs) - page.count : new[k] = logs[page.count + k]
  BY SMTT(30), <1>3, <1>4, SubSeqProperties
<1> HIDE DEF new
<1>6. /\ logBox' \in Seq(Entries) /\ Len(logBox') = had + Len(new)
      /\ \A i \in 1..had + Len(new) :
            logBox'[i] = IF i <= had THEN logBox[i] ELSE new[i - had]
  BY <1>1, <1>3, <1>5, ConcatProperties
<1>7. page'.count \in Nat /\ Len(new) = page'.count - page.count
  BY <1>1, <1>3, <1>5
<1>8. ASSUME NEW i \in (had + 1)..Len(logBox')
      PROVE  /\ (i - had) + page.count \in (page.count + 1)..Len(logs)
             /\ logBox'[i] = logs[(i - had) + page.count]
  <2>1. i - had \in 1..Len(new) /\ i \in 1..had + Len(new) /\ ~(i <= had)
    BY SMTT(30), <1>3, <1>6, <1>5
  <2>2. i - had \in 1..Len(logs) - page.count
    BY <1>3, <1>5, <2>1
  <2>3. logBox'[i] = new[i - had] /\ new[i - had] = logs[page.count + (i - had)]
    BY <1>5, <1>6, <2>1, <2>2
  <2>4. /\ page.count + (i - had) = (i - had) + page.count
        /\ (i - had) + page.count \in (page.count + 1)..Len(logs)
    BY <1>3, <2>2
  <2>5. QED
    BY <2>3, <2>4
<1>9. /\ Len(logBox') = had + (page'.count - page.count) /\ Len(logBox') \in Nat
      /\ \A i \in 1..had : logBox'[i] = logBox[i]
  <2>1. Len(new) \in Nat
    BY <1>3, <1>5
  <2>2. \A i \in 1..had : i \in 1..had + Len(new) /\ i <= had
    BY <1>3, <2>1
  <2>3. \A i \in 1..had : logBox'[i] = logBox[i]
    BY <1>6, <2>2
  <2>4. QED
    BY <1>3, <1>6, <1>7, <2>1, <2>3
<1>10. /\ page'.count = IF Len(logs) > page.count THEN Len(logs) ELSE page.count
       /\ \A i \in (had + 1)..Len(logBox') :
             /\ (i - had) + page.count \in (page.count + 1)..Len(logs)
             /\ logBox'[i] = logs[(i - had) + page.count]
  BY Zenon, <1>1, <1>8
<1>11. logBox' \in Seq(Entries)
  BY <1>6
<1> USE DEF logs
<1>12. QED
  BY <1>2, <1>3, <1>7, <1>9, <1>10, <1>11

LEMMA ParsedKeeps ==
    ASSUME StatusInv, NEW a \in answers, ShowAnswer(a), a.status.parsable
    PROVE  StatusInv'
<1>1. ShowAnswer(a) /\ a.status.parsable
  OBVIOUS
<1> DEFINE logs == a.status.logs
           had  == Len(logBox)
<1>2. TypeOK /\ PastInv /\ GrowthInv /\ Sorted(logBox) /\ WholeInv
  BY DEF StatusInv
<1>3. /\ UNCHANGED <<life, entries, m_logs, overflowed>>
      /\ Snapshots' \subseteq Snapshots /\ m_logs \in Snapshots
  BY <1>1 DEF ShowAnswer, loopVars, serverVars, Snapshots
<1>4. /\ logs \in Snapshots /\ logs \in Seq(Entries) /\ Len(logs) \in Nat
      /\ logBox' \in Seq(Entries) /\ had \in Nat /\ Len(logBox') \in Nat
      /\ page'.count \in Nat /\ page.count \in Nat
      /\ page'.count = IF Len(logs) > page.count THEN Len(logs) ELSE page.count
      /\ Len(logBox') = had + (page'.count - page.count)
      /\ \A i \in 1..had : logBox'[i] = logBox[i]
  BY <1>1, <1>2, BoxAfter DEF TypeOK
<1>5. \A i \in (had + 1)..Len(logBox') :
          /\ (i - had) + page.count \in (page.count + 1)..Len(logs)
          /\ logBox'[i] = logs[(i - had) + page.count]
  BY <1>1, <1>2, BoxAfter
<1> HIDE DEF logs
<1>6. \A i \in 1..Len(logBox') : i \in 1..had \/ i \in (had + 1)..Len(logBox')
  BY <1>4
<1>7. TypeOK'
  BY <1>2, <1>3, <1>4 DEF TypeOK
<1>8. PastInv'
  <2>1. ASSUME NEW i \in 1..Len(logBox')
        PROVE  logBox'[i][1] <= life /\ logBox'[i][2] <= entries
    <3>1. CASE i \in 1..had
      BY <1>2, <1>4, <3>1 DEF PastInv
    <3>2. CASE i \in (had + 1)..Len(logBox')
      <4>1. (i - had) + page.count \in 1..Len(logs)
        BY <1>4, <1>5, <3>2
      <4>2. QED
        BY SMTT(30), <1>2, <1>4, <1>5, <3>2, <4>1 DEF PastInv
    <3>3. QED
      BY <1>6, <3>1, <3>2
  <2>2. QED
    BY <1>2, <1>3, <2>1 DEF PastInv
<1>9. ASSUME NEW s \in Snapshots PROVE Newer(s, page'.count, logBox')
  <2> SUFFICES ASSUME NEW i \in 1..Len(s), NEW j \in 1..Len(logBox'),
                      i > page'.count, s[i][1] = logBox'[j][1]
               PROVE  logBox'[j][2] < s[i][2]
    BY DEF Newer
  <2>1. i > page.count /\ i > Len(logs)
    BY <1>4
  <2>2. CASE j \in 1..had
    BY <1>2, <1>4, <2>1, <2>2 DEF GrowthInv, Newer
  <2>3. CASE j \in (had + 1)..Len(logBox')
    <3>1. (j - had) + page.count \in 1..Len(logs)
      BY <1>4, <1>5, <2>3
    <3>2. Newer(s, Len(logs), logs)
      BY <1>2, <1>4 DEF GrowthInv
    <3>3. QED
      BY <1>5, <2>1, <2>3, <3>1, <3>2 DEF Newer
  <2>4. QED
    BY <1>6, <2>2, <2>3
<1>10. GrowthInv'
  BY <1>2, <1>3, <1>9 DEF GrowthInv
<1>11. Sorted(logBox')
  <2> SUFFICES ASSUME NEW i \in 1..Len(logBox'), NEW j \in 1..Len(logBox'), i < j,
                      logBox'[i][1] = logBox'[j][1]
               PROVE  logBox'[i][2] < logBox'[j][2]
    BY DEF Sorted
  <2>1. CASE j \in 1..had
    <3>1. i \in 1..had
      BY <1>4, <2>1
    <3>2. QED
      BY <1>2, <1>4, <2>1, <3>1 DEF Sorted
  <2>2. CASE i \in 1..had /\ j \in (had + 1)..Len(logBox')
    <3>1. /\ (j - had) + page.count \in 1..Len(logs)
          /\ (j - had) + page.count > page.count
      BY <1>4, <1>5, <2>2
    <3>2. Newer(logs, page.count, logBox)
      BY <1>2, <1>4 DEF GrowthInv
    <3>3. /\ logBox'[i] = logBox[i]
          /\ logBox'[j] = logs[(j - had) + page.count]
      BY <1>4, <1>5, <2>2
    <3>4. QED
      BY Zenon, <2>2, <3>1, <3>2, <3>3 DEF Newer
  <2>3. CASE i \in (had + 1)..Len(logBox') /\ j \in (had + 1)..Len(logBox')
    <3>1. /\ (i - had) + page.count \in 1..Len(logs)
          /\ (j - had) + page.count \in 1..Len(logs)
          /\ (i - had) + page.count < (j - had) + page.count
      BY SMTT(30), <1>4, <1>5, <2>3
    <3>2. Sorted(logs)
      BY <1>2, <1>4 DEF PastInv
    <3>3. /\ logBox'[i] = logs[(i - had) + page.count]
          /\ logBox'[j] = logs[(j - had) + page.count]
      BY <1>5, <2>3
    <3>4. QED
      BY Zenon, <3>1, <3>2, <3>3 DEF Sorted
  <2>4. QED
    BY <1>4, <1>6, <2>1, <2>2, <2>3
<1>12. WholeInv'
  <2> SUFFICES ASSUME life = 0, ~overflowed
               PROVE  Prefix(logBox') /\ Len(logBox') = page'.count
    BY <1>2, <1>3 DEF WholeInv
  <2>1. had = page.count /\ Prefix(logBox) /\ Prefix(logs)
    BY <1>2, <1>4 DEF WholeInv
  <2>2. ASSUME NEW i \in 1..Len(logBox') PROVE logBox'[i] = <<0, i>>
    <3>1. CASE i \in 1..had
      BY <1>4, <2>1, <3>1 DEF Prefix
    <3>2. CASE i \in (had + 1)..Len(logBox')
      <4>1. i \in 1..Len(logs) /\ (i - had) + page.count = i
        BY <1>4, <1>5, <2>1, <3>2
      <4>2. QED
        BY <1>5, <2>1, <3>2, <4>1 DEF Prefix
    <3>3. QED
      BY <1>6, <3>1, <3>2
  <2>3. QED
    BY <1>4, <2>1, <2>2 DEF Prefix
<1>13. QED
  BY <1>7, <1>8, <1>10, <1>11, <1>12 DEF StatusInv

\* An answer that cannot be parsed is gone, and that is all.
LEMMA ShowKeeps ==
    ASSUME StatusInv, ShowStatus
    PROVE  StatusInv'
<1>1. PICK a \in answers : ShowAnswer(a)
  BY DEF ShowStatus
<1>2. CASE a.status.parsable
  BY <1>1, <1>2, ParsedKeeps
<1>3. CASE ~a.status.parsable
  <2>1. /\ UNCHANGED <<life, entries, m_logs, overflowed, page, logBox>>
        /\ Snapshots' \subseteq Snapshots
    BY <1>1, <1>3 DEF ShowAnswer, loopVars, serverVars, pageVars, Snapshots
  <2>2. QED
    BY <2>1 DEF StatusInv, TypeOK, PastInv, GrowthInv, WholeInv
<1>4. QED
  BY <1>2, <1>3

-----------------------------------------------------------------------------
LEMMA StatusInit == Init => StatusInv
<1> SUFFICES ASSUME Init PROVE StatusInv
  OBVIOUS
<1>1. /\ life = 0 /\ entries = 0 /\ page.count = 0 /\ overflowed = FALSE
      /\ logBox = <<>> /\ Snapshots = {<<>>} /\ m_logs = <<>>
  BY DEF Init, FreshPage, Snapshots
<1>2. Len(<<>>) = 0 /\ <<>> \in Seq(Entries) /\ LogCap \in Nat
  BY EmptySeq, StatusAssumption
<1>3. Sorted(<<>>) /\ Prefix(<<>>) /\ \A k : Newer(<<>>, k, <<>>)
  BY <1>2 DEF Sorted, Prefix, Newer
<1>4. TypeOK
  <2>1. Snapshots \subseteq Seq(Entries) /\ logBox \in Seq(Entries)
    BY <1>1, <1>2
  <2>2. overflowed \in BOOLEAN
    BY <1>1
  <2>3. QED
    BY <1>1, <2>1, <2>2 DEF TypeOK
<1>5. WholeInv
  BY <1>1, <1>2, <1>3 DEF WholeInv
<1>6. PastInv /\ GrowthInv
  BY <1>1, <1>2, <1>3 DEF PastInv, GrowthInv
<1>7. QED
  BY <1>1, <1>3, <1>4, <1>5, <1>6 DEF StatusInv

LEMMA StatusAlways == Spec => []StatusInv
<1>1. ASSUME StatusInv, NothingLogged PROVE StatusInv'
  BY <1>1 DEF NothingLogged, StatusInv, TypeOK, PastInv, GrowthInv, WholeInv, Snapshots
<1>2. StatusInv /\ [Next]_vars => StatusInv'
  <2> SUFFICES ASSUME StatusInv, [Next]_vars PROVE StatusInv'
    OBVIOUS
  <2>1. LogAdded \/ AnswerMade \/ NothingLogged \/ Restart \/ ShowStatus \/ Reload
    BY StepEffect DEF StatusInv
  <2>2. QED
    BY <1>1, <2>1, LogAddedKeeps, AnswerMadeKeeps, RestartKeeps, ShowKeeps,
       ReloadKeeps
<1>3. QED
  BY <1>2, StatusInit, PTL DEF Spec

\* However the answers overtake each other, entries are dropped and the desktop is
\* restarted, no entry is shown twice and those of one process are in their order
\* (index_html.h:591-596, http_server.cpp:121-133).
THEOREM ShownOnceCorrect == Spec => []ShownOnceInOrder
<1>1. StatusInv => ShownOnceInOrder
  <2> SUFFICES ASSUME StatusInv PROVE ShownOnceInOrder
    OBVIOUS
  <2>1. DOMAIN logBox = 1..Len(logBox)
    BY LenProperties DEF StatusInv, TypeOK
  <2>2. QED
    BY <2>1 DEF StatusInv, Sorted, ShownOnceInOrder
<1>2. QED
  BY <1>1, StatusAlways, PTL

\* The page shows the log up to its cursor, until the desktop is restarted or the
\* log drops an entry.
THEOREM NothingSkippedCorrect == Spec => []NothingSkipped
<1>1. StatusInv => NothingSkipped
  <2> SUFFICES ASSUME StatusInv, life = 0, ~overflowed
               PROVE  logBox = [i \in 1..page.count |-> <<0, i>>]
    BY DEF NothingSkipped
  <2>1. /\ logBox \in [1..Len(logBox) -> Entries] /\ Len(logBox) = page.count
        /\ \A i \in 1..Len(logBox) : logBox[i] = <<0, i>>
    BY LenProperties DEF StatusInv, TypeOK, WholeInv, Prefix
  <2>2. QED
    BY <2>1
<1>2. QED
  BY <1>1, StatusAlways, PTL
=============================================================================
