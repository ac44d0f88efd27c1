------------------------- MODULE NotifPipeline_proofs -------------------------
(***************************************************************************)
(* Notifications on their way to the screen, for every value of the        *)
(* constants: the fields of one call stay together, none is shown twice or *)
(* out of order, and it is known what was lost. The argument follows       *)
(* the lines from dbus-monitor to the parser as one stream, whichever      *)
(* buffer they are in.                                                     *)
(***************************************************************************)
EXTENDS NotifPipeline, SequenceTheorems, TLAPS

LineFields == Fields \union {"none", "hint"}
Lines == [kind : {"notify", "string", "gap", "other"}, call : Nat, field : LineFields]
FieldValues == [call : Nat, field : LineFields \union {"mock"}]
Entries == [app : FieldValues, summary : FieldValues, body : FieldValues]

\* The lines that were or will be printed and that the parser has yet to see.
stream == IF fallback THEN <<>> ELSE (stdio \o kernel) \o printing

\* The notifications that reached the screen or are on their way there.
path == (shown \o wire) \o queue

TypeOK ==
    /\ calls \in Seq(SUBSET Fields)
    /\ stdio \in Seq(Lines) /\ kernel \in Seq(Lines) /\ printing \in Seq(Lines)
    /\ inNotify \in BOOLEAN /\ appName \in FieldValues /\ summary \in FieldValues
    /\ queue \in Seq(Entries) /\ taken \in Seq(Entries)
    /\ wire \in Seq(Entries) /\ shown \in Seq(Entries)
    /\ mocks \in Nat /\ failures \in Nat /\ dropped \in Nat /\ discarded \in Nat

-----------------------------------------------------------------------------
IsString(l) == l.kind \in {"string", "gap"}

\* The place of a field in its call's lines.
Place == [f \in LineFields |-> CASE f = "none" -> 0 [] f = "app" -> 1 [] f = "icon" -> 2
                                 [] f = "summary" -> 3 [] f = "body" -> 4 [] f = "hint" -> 5]

\* A line of one of the calls cs, or of another message.
WellFormed(l, cs) ==
    /\ l.kind # "other" => l.call \in 1..Len(cs)
    /\ l.kind = "other" => l.call = 0
    /\ l.kind = "gap" => cs[l.call] # {}
    /\ l.kind = "notify" => l.field = "none"
    /\ IsString(l) => l.field # "none"

\* Line l goes on with call n after its field at place p.
GoesOn(l, n, p) == IsString(l) => l.call = n /\ Place[l.field] = p + 1

\* The strings of a call follow it and each other, and calls are in order.
Printed(s, cs) ==
    /\ \A i \in 1..Len(s) : WellFormed(s[i], cs)
    /\ \A i \in 1..Len(s), j \in 1..Len(s) : j = i + 1 =>
          /\ IsString(s[j]) => s[i].kind # "other"
          /\ GoesOn(s[j], s[i].call, Place[s[i].field])
    /\ \A i, j \in 1..Len(s) :
          i < j /\ s[j].kind = "notify" => s[i].call < s[j].call

-----------------------------------------------------------------------------
IsReal(e) == e.body.field # "mock"

\* A notification of one of the calls cs, as FieldsTogether wants it.
FromOneCall(e, cs) ==
    IsReal(e) => /\ Owner(e) \in 1..Len(cs)
                 /\ e.app.call = Owner(e) /\ e.summary.call = Owner(e)
                 /\ cs[Owner(e)] = {} =>
                       /\ e.app.field = "app" /\ e.summary.field = "summary"
                       /\ e.body.field = "body"

TakenInv == \A i \in 1..Len(taken) : FromOneCall(taken[i], calls)

Below(s, n) == \A i \in 1..Len(s) : IsReal(s[i]) => Owner(s[i]) < n

Ascending(s) ==
    \A i, j \in 1..Len(s) : i < j /\ IsReal(s[i]) /\ IsReal(s[j])
                                => Owner(s[i]) < Owner(s[j])

OrderInv == Ascending(path) /\ Below(path, Len(calls) + 1)

\* A call that the parser has yet to begin is newer than what is on the path.
NewerCalls(s, w) == \A j \in 1..Len(s) : s[j].kind = "notify" => Below(w, s[j].call)

\* The parser has seen call n up to its field at place p, and the lines s follow.
Reading(s, n, p) ==
    /\ s # <<>> => GoesOn(s[1], n, p)
    /\ \A j \in 1..Len(s) : s[j].kind = "notify" => n < s[j].call

\* The fields a parser of call n holds that saw i strings, after the field at
\* place p, when the call's gaps are g.
Holds(i, app, sum, n, p, g) ==
    /\ i \in 0..3
    /\ i >= 1 => app.call = n
    /\ i >= 3 => sum.call = n
    /\ g = {} => /\ i = p
                 /\ i >= 1 => app.field = "app"
                 /\ i >= 3 => sum.field = "summary"

ParserAt(n, p) ==
    /\ Reading(stream, n, p) /\ Below(path, n)
    /\ Holds(stringIndex, appName, summary, n, p, calls[n])

ParserInv ==
    /\ inNotify => \E n \in 1..Len(calls), p \in 0..5 : ParserAt(n, p)
    /\ NewerCalls(stream, path)

PipelineInv ==
    TypeOK /\ Printed(stream, calls) /\ TakenInv /\ OrderInv /\ ParserInv

-----------------------------------------------------------------------------
(***************************************************************************)
(* Lines and entries that change their buffer keep their place.            *)
(***************************************************************************)
\* Moving the first of t to the end of s leaves them together as they were.
LEMMA MoveHead ==
    ASSUME NEW S, NEW s \in Seq(S), NEW t \in Seq(S), t # <<>>
    PROVE  Append(s, Head(t)) \o Tail(t) = s \o t
<1> DEFINE l == Append(s, Head(t)) \o Tail(t)
           r == s \o t
<1>1. /\ Head(t) \in S /\ Tail(t) \in Seq(S) /\ Len(Tail(t)) = Len(t) - 1
      /\ \A i \in 1..Len(t) - 1 : Tail(t)[i] = t[i + 1]
      /\ Len(s) \in Nat /\ Len(t) \in Nat \ {0} /\ Head(t) = t[1]
  BY HeadTailProperties, LenProperties, EmptySeq
<1>2. /\ Append(s, Head(t)) \in Seq(S) /\ Len(Append(s, Head(t))) = Len(s) + 1
      /\ \A i \in 1..Len(s) : Append(s, Head(t))[i] = s[i]
      /\ Append(s, Head(t))[Len(s) + 1] = t[1]
  BY <1>1, AppendProperties
<1>3. /\ l \in Seq(S) /\ Len(l) = Len(s) + Len(t)
      /\ \A i \in 1..Len(s) + Len(t) : l[i] =
            IF i <= Len(s) + 1 THEN Append(s, Head(t))[i] ELSE Tail(t)[i - (Len(s) + 1)]
  BY <1>1, <1>2, ConcatProperties
<1>4. /\ r \in Seq(S) /\ Len(r) = Len(s) + Len(t)
      /\ \A i \in 1..Len(s) + Len(t) : r[i] = IF i <= Len(s) THEN s[i] ELSE t[i - Len(s)]
  BY ConcatProperties
<1> HIDE DEF l, r
<1>5. ASSUME NEW i \in 1..Len(s) + Len(t) PROVE l[i] = r[i]
  <2>1. CASE i <= Len(s)
    BY <2>1, <1>1, <1>2, <1>3, <1>4
  <2>2. CASE i = Len(s) + 1
    BY <2>2, <1>1, <1>2, <1>3, <1>4
  <2>3. CASE i > Len(s) + 1
    <3>1. i - (Len(s) + 1) \in 1..Len(t) - 1 /\ i - (Len(s) + 1) + 1 = i - Len(s)
      BY <2>3, <1>1
    <3>2. Tail(t)[i - (Len(s) + 1)] = t[i - Len(s)]
      BY <3>1, <1>1
    <3>3. QED
      BY <2>3, <3>2, <1>1, <1>3, <1>4
  <2>4. QED
    BY <2>1, <2>2, <2>3, <1>1
<1>6. l = r
  BY <1>3, <1>4, <1>5, SeqEqual
<1>7. QED
  BY <1>6 DEF l, r

\* Appending to the last of two sequences appends to both.
LEMMA AppendLast ==
    ASSUME NEW S, NEW s \in Seq(S), NEW t \in Seq(S), NEW e \in S
    PROVE  s \o Append(t, e) = Append(s \o t, e)
<1>1. <<e>> \in Seq(S) /\ s \o t \in Seq(S)
  BY ConcatProperties
<1>2. Append(t, e) = t \o <<e>> /\ Append(s \o t, e) = (s \o t) \o <<e>>
  BY <1>1, AppendIsConcat
<1>3. QED
  BY <1>1, <1>2, ConcatAssociative

LEMMA ConcatFirst ==
    ASSUME NEW S, NEW s \in Seq(S), NEW t \in Seq(S), s # <<>>
    PROVE  s \o t # <<>> /\ Head(s \o t) = Head(s) /\ Tail(s \o t) = Tail(s) \o t
OBVIOUS

-----------------------------------------------------------------------------
(***************************************************************************)
(* What a step does to the stream and to the path.                         *)
(***************************************************************************)
LEMMA DropMiddle ==
    ASSUME NEW S, NEW s \in Seq(S), NEW t \in Seq(S), NEW u \in Seq(S)
    PROVE  /\ Kept(s \o u, (s \o t) \o u)
           /\ Len(s \o u) \in Nat /\ Len((s \o t) \o u) \in Nat
           /\ Len(s \o u) <= Len((s \o t) \o u)
<1> DEFINE n == Len(s) + Len(u)
           new == s \o u
           old == (s \o t) \o u
           f == [i \in 1..n |-> IF i <= Len(s) THEN i ELSE i + Len(t)]
<1>1. Len(s) \in Nat /\ Len(t) \in Nat /\ Len(u) \in Nat
  BY LenProperties
<1>2. /\ Len(new) = n
      /\ \A i \in 1..n : new[i] = IF i <= Len(s) THEN s[i] ELSE u[i - Len(s)]
  BY ConcatProperties
<1>3. /\ s \o t \in Seq(S) /\ Len(s \o t) = Len(s) + Len(t)
      /\ \A i \in 1..Len(s) : (s \o t)[i] = s[i]
  BY <1>1, ConcatProperties
<1>4. /\ Len(old) = n + Len(t)
      /\ \A i \in 1..Len(s) : old[i] = s[i]
      /\ \A i \in 1..Len(u) : old[Len(s) + Len(t) + i] = u[i]
  BY <1>1, <1>3, ConcatProperties
<1> HIDE DEF new, old
<1>5. f \in [1..Len(new) -> 1..Len(old)]
  BY <1>1, <1>2, <1>4
<1>6. ASSUME NEW i \in 1..Len(new) PROVE new[i] = old[f[i]]
  <2>1. CASE i <= Len(s)
    BY <2>1, <1>1, <1>2, <1>4
  <2>2. CASE i > Len(s)
    <3>1. i - Len(s) \in 1..Len(u) /\ f[i] = Len(s) + Len(t) + (i - Len(s))
      BY <2>2, <1>1, <1>2
    <3>2. new[i] = u[i - Len(s)]
      BY <2>2, <1>1, <1>2
    <3>3. QED
      BY <3>1, <3>2, <1>4
  <2>3. QED
    BY <2>1, <2>2, <1>1, <1>2
<1>7. ASSUME NEW i \in 1..Len(new), NEW j \in 1..Len(new), i < j PROVE f[i] < f[j]
  BY <1>1, <1>2, <1>7
<1>8. Kept(new, old)
  BY <1>5, <1>6, <1>7 DEF Kept
<1>9. QED
  BY <1>1, <1>2, <1>4, <1>8 DEF new, old

Carried ==
    /\ UNCHANGED <<stream, calls, parserVars, taken>>
    /\ path' = path \/ Kept(path', path)

CallPrinted ==
    /\ \E gaps \in SUBSET Fields :
          /\ calls' = Append(calls, gaps)
          /\ stream' = stream \o CallLines(Len(calls) + 1, gaps)
    /\ UNCHANGED <<parserVars, path, taken>>

\* A call that is made after the listener gave up on dbus-monitor.
CallUnheard ==
    /\ \E gaps \in SUBSET Fields : calls' = Append(calls, gaps)
    /\ stream = <<>> /\ stream' = <<>>
    /\ UNCHANGED <<parserVars, path, taken>>

OtherPrinted ==
    /\ stream' = stream \o <<Line("other", 0, "none")>>
    /\ UNCHANGED <<calls, parserVars, path, taken>>

StreamCut ==
    /\ \E rest \in Seq(Lines) : stream = stream' \o rest
    /\ UNCHANGED <<calls, parserVars, path, taken>>

LineParsed ==
    /\ stream # <<>> /\ Parse(Head(stream)) /\ stream' = Tail(stream)
    /\ UNCHANGED <<calls, shown, wire>>

MockPushed ==
    /\ LET m == Mock(mocks') IN Push([app |-> m, summary |-> m, body |-> m])
    /\ UNCHANGED <<stream, calls, parserVars, shown, wire>>

\* The effect of every step.
Effect == Carried \/ CallPrinted \/ CallUnheard \/ OtherPrinted \/ StreamCut \/ LineParsed
             \/ MockPushed

LEMMA CallLinesType ==
    ASSUME NEW n \in Nat, NEW gaps
    PROVE  CallLines(n, gaps) \in Seq(Lines)
BY DEF CallLines, Line, Lines, LineFields, Fields

LEMMA Parts ==
    ASSUME TypeOK
    PROVE  /\ stdio \o kernel \in Seq(Lines) /\ stream \in Seq(Lines)
           /\ shown \o wire \in Seq(Entries) /\ path \in Seq(Entries)
           /\ Len(stream) \in Nat /\ Len(path) \in Nat
<1>1. stdio \o kernel \in Seq(Lines) /\ shown \o wire \in Seq(Entries)
  BY ConcatProperties DEF TypeOK
<1>2. stream \in Seq(Lines) /\ path \in Seq(Entries)
  <2>1. (stdio \o kernel) \o printing \in Seq(Lines) /\ <<>> \in Seq(Lines)
    BY <1>1, ConcatProperties, EmptySeq DEF TypeOK
  <2>2. path \in Seq(Entries)
    BY <1>1, ConcatProperties DEF TypeOK, path
  <2>3. QED
    BY <2>1, <2>2 DEF stream
<1>3. QED
  BY <1>1, <1>2, LenProperties

LEMMA NotifyCallEffect ==
    ASSUME TypeOK, NotifyCall
    PROVE  CallPrinted \/ CallUnheard
<1>1. PICK gaps \in GapSets : /\ calls' = Append(calls, gaps)
                              /\ printing' = CallLines(Len(calls) + 1, gaps)
  BY DEF NotifyCall
<1>2. gaps \in SUBSET Fields
  BY NotifAssumption
<1>3. UNCHANGED <<parserVars, path, taken, fallback>>
  BY DEF NotifyCall, loopVars, path
<1>4. CASE fallback
  BY <1>1, <1>2, <1>3, <1>4 DEF CallUnheard, stream
<1>5. CASE ~fallback
  <2>1. stream = stdio \o kernel
    BY <1>5, Parts, ConcatEmptySeq DEF NotifyCall, stream
  <2>2. stream' = (stdio \o kernel) \o printing'
    BY <1>3, <1>5 DEF NotifyCall, stream
  <2>3. stream' = stream \o printing'
    BY <2>1, <2>2
  <2>4. QED
    BY <1>1, <1>2, <1>3, <2>3 DEF CallPrinted
<1>6. QED
  BY <1>4, <1>5

LEMMA OtherMessageEffect ==
    ASSUME TypeOK, OtherMessage
    PROVE  OtherPrinted \/ Carried
<1>1. UNCHANGED <<calls, parserVars, path, taken, fallback>>
  BY DEF OtherMessage, loopVars, path
<1>2. CASE fallback
  BY <1>1, <1>2 DEF Carried, stream
<1>3. CASE ~fallback
  <2>1. stream = stdio \o kernel
    BY <1>3, Parts, ConcatEmptySeq DEF OtherMessage, stream
  <2>2. stream' = (stdio \o kernel) \o <<Line("other", 0, "none")>>
    BY <1>1, <1>3 DEF OtherMessage, stream
  <2>3. QED
    BY <1>1, <2>1, <2>2 DEF OtherPrinted
<1>4. QED
  BY <1>2, <1>3

LEMMA PrintLineEffect ==
    ASSUME TypeOK, PrintLine
    PROVE  Carried
<1>1. /\ stdio \in Seq(Lines) /\ kernel \in Seq(Lines) /\ printing \in Seq(Lines)
      /\ printing # <<>> /\ Head(printing) \in Lines
  BY HeadTailProperties DEF TypeOK, PrintLine
<1>2. UNCHANGED <<calls, parserVars, taken, path, fallback>>
  BY DEF PrintLine, loopVars, path
<1>3. CASE fallback
  BY <1>2, <1>3 DEF Carried, stream
<1>4. CASE ~fallback
  <2>1. stdio \o Append(kernel, Head(printing)) = Append(stdio \o kernel, Head(printing))
    BY <1>1, AppendLast
  <2>2. Append(stdio \o kernel, Head(printing)) \o Tail(printing)
          = (stdio \o kernel) \o printing
    BY <1>1, Parts, MoveHead
  <2>3. stream = (stdio \o kernel) \o printing /\ stream' = (stdio' \o kernel') \o printing'
    BY <1>2, <1>4 DEF stream
  <2>4. /\ stdio' = stdio /\ kernel' = Append(kernel, Head(printing))
        /\ printing' = Tail(printing)
    BY <1>4 DEF PrintLine
  <2>5. stream' = stream
    BY <2>1, <2>2, <2>3, <2>4
  <2>6. QED
    BY <1>2, <2>5 DEF Carried
<1>5. QED
  BY <1>3, <1>4

LEMMA MonitorEndsEffect ==
    ASSUME TypeOK, MonitorEnds
    PROVE  StreamCut \/ Carried
<1>1. UNCHANGED <<calls, parserVars, path, taken, fallback>>
  BY DEF MonitorEnds, loopVars, path
<1>2. CASE fallback
  BY <1>1, <1>2 DEF Carried, stream
<1>3. CASE ~fallback
  <2>1. stream' = stdio \o kernel
    BY <1>1, <1>3, Parts, ConcatEmptySeq DEF MonitorEnds, stream
  <2>2. stream = stream' \o printing /\ printing \in Seq(Lines)
    BY <1>3, <2>1 DEF stream, TypeOK
  <2>3. QED
    BY <1>1, <2>2 DEF StreamCut
<1>4. QED
  BY <1>2, <1>3

\* Giving up on the pipe cuts off all of it.
LEMMA GiveUpEffect ==
    ASSUME TypeOK, GiveUpMonitor \/ SelectFails
    PROVE  StreamCut
<1>1. UNCHANGED <<calls, parserVars, path, taken>> /\ fallback' = TRUE
  BY DEF GiveUpMonitor, SelectFails, monitorVars, loopVars, path
<1>2. stream' = <<>>
  BY <1>1 DEF stream
<1>3. stream = stream' \o stream /\ stream \in Seq(Lines)
  BY <1>2, Parts, ConcatEmptySeq
<1>4. QED
  BY <1>1, <1>3 DEF StreamCut

LEMMA ReadLineEffect ==
    ASSUME TypeOK, ReadLine
    PROVE  LineParsed
<1>1. /\ stdio \in Seq(Lines) /\ kernel \in Seq(Lines) /\ printing \in Seq(Lines)
      /\ stdio \o kernel \in Seq(Lines)
  BY Parts DEF TypeOK
<1>2. UNCHANGED <<calls, shown, wire, printing, fallback>> /\ ~fallback
  BY DEF ReadLine, monitorVars, loopVars
<1>3. CASE stdio # <<>> /\ Parse(Head(stdio)) /\ stdio' = Tail(stdio) /\ UNCHANGED kernel
  <2>1. /\ stdio \o kernel # <<>> /\ Head(stdio \o kernel) = Head(stdio)
        /\ Tail(stdio \o kernel) = Tail(stdio) \o kernel
    BY <1>1, <1>3, ConcatFirst
  <2>2. /\ stream # <<>> /\ Head(stream) = Head(stdio \o kernel)
        /\ Tail(stream) = Tail(stdio \o kernel) \o printing
    BY <1>1, <1>2, <2>1, ConcatFirst DEF stream
  <2>3. stream' = Tail(stream) /\ Head(stream) = Head(stdio)
    BY <1>2, <1>3, <2>1, <2>2 DEF stream
  <2>4. QED
    BY <1>2, <1>3, <2>2, <2>3 DEF LineParsed
<1>4. CASE /\ stdio = <<>> /\ kernel # <<>> /\ Parse(Head(kernel))
           /\ stdio' = Tail(kernel) /\ kernel' = <<>>
  <2>1. stdio \o kernel = kernel
    BY <1>1, <1>4, ConcatEmptySeq
  <2>2. /\ stream # <<>> /\ Head(stream) = Head(kernel)
        /\ Tail(stream) = Tail(kernel) \o printing
    BY <1>1, <1>2, <1>4, <2>1, ConcatFirst DEF stream
  <2>3. Tail(kernel) \o <<>> = Tail(kernel)
    BY <1>1, <1>4, HeadTailProperties, ConcatEmptySeq
  <2>4. stream' = Tail(stream)
    BY <1>2, <1>4, <2>2, <2>3 DEF stream
  <2>5. QED
    BY <1>2, <1>4, <2>2, <2>4 DEF LineParsed
<1>5. QED
  BY <1>3, <1>4 DEF ReadLine

LEMMA PushMockEffect ==
    ASSUME TypeOK, PushMock
    PROVE  MockPushed
BY DEF PushMock, MockPushed, monitorVars, parserVars, loopVars, stream

LEMMA SendNextEffect ==
    ASSUME TypeOK, SendNext
    PROVE  Carried
<1> DEFINE sent == <<Head(queue)>>
           rest == Tail(queue)
           before == shown \o wire
<1>1. /\ queue \in Seq(Entries) /\ wire \in Seq(Entries) /\ shown \in Seq(Entries)
      /\ queue # <<>> /\ Head(queue) \in Entries /\ rest \in Seq(Entries)
      /\ sent \in Seq(Entries) /\ before \in Seq(Entries)
  BY HeadTailProperties, Parts DEF TypeOK, SendNext
<1>2. (shown \o Append(wire, Head(queue))) \o rest = path
  <2>1. shown \o Append(wire, Head(queue)) = Append(before, Head(queue))
    BY <1>1, AppendLast
  <2>2. Append(before, Head(queue)) \o rest = before \o queue
    BY <1>1, MoveHead
  <2>3. QED
    BY <2>1, <2>2 DEF path
<1>3. (before \o sent) \o rest = path
  <2>1. Append(before, Head(queue)) = before \o sent
    BY <1>1, AppendIsConcat
  <2>2. Append(before, Head(queue)) \o rest = before \o queue
    BY <1>1, MoveHead
  <2>3. QED
    BY <2>1, <2>2 DEF path
<1>4. Kept(before \o rest, path)
  BY <1>1, <1>3, DropMiddle
<1>5. UNCHANGED <<stream, calls, parserVars, taken>> /\ queue' = rest /\ shown' = shown
  BY DEF SendNext, monitorVars, stream
<1>6. CASE wire' = Append(wire, Head(queue))
  BY <1>2, <1>5, <1>6 DEF Carried, path
<1>7. CASE wire' = wire
  <2>1. path' = before \o rest
    BY <1>5, <1>7 DEF path
  <2>2. QED
    BY <1>4, <1>5, <2>1 DEF Carried
<1>8. QED
  BY <1>6, <1>7 DEF SendNext

LEMMA CloseEffect ==
    ASSUME TypeOK, Close
    PROVE  Carried
<1>1. queue \in Seq(Entries) /\ wire \in Seq(Entries) /\ shown \in Seq(Entries)
  BY DEF TypeOK
<1>2. Kept(shown \o queue, path)
  BY <1>1, DropMiddle DEF path
<1>3. UNCHANGED <<stream, calls, parserVars, taken, shown, queue>>
  BY DEF Close, monitorVars, parserVars, stream
<1>4. CASE wire' = wire
  BY <1>3, <1>4 DEF Carried, path
<1>5. CASE wire' = <<>>
  <2>1. shown \o <<>> = shown
    BY <1>1, ConcatEmptySeq
  <2>2. path' = shown \o queue
    BY <1>3, <1>5, <2>1 DEF path
  <2>3. QED
    BY <1>2, <1>3, <2>2 DEF Carried
<1>6. QED
  BY <1>4, <1>5 DEF Close

\* The first on the wire, and what is left when it is gone.
LEMMA WireHead ==
    ASSUME TypeOK, wire # <<>>
    PROVE  /\ Tail(wire) \in Seq(Entries) /\ <<Head(wire)>> \in Seq(Entries)
           /\ Append(shown, Head(wire)) \o Tail(wire) = shown \o wire
           /\ (shown \o <<Head(wire)>>) \o Tail(wire) = shown \o wire
           /\ Len(Tail(wire)) = Len(wire) - 1
<1>1. /\ wire \in Seq(Entries) /\ shown \in Seq(Entries) /\ Head(wire) \in Entries
      /\ Tail(wire) \in Seq(Entries) /\ Len(Tail(wire)) = Len(wire) - 1
  BY HeadTailProperties DEF TypeOK
<1>2. Append(shown, Head(wire)) \o Tail(wire) = shown \o wire
  BY <1>1, MoveHead
<1>3. Append(shown, Head(wire)) = shown \o <<Head(wire)>>
  BY <1>1, AppendIsConcat
<1>4. QED
  BY <1>1, <1>2, <1>3

LEMMA PspFrameEffect ==
    ASSUME TypeOK, PspFrame
    PROVE  Carried
<1> DEFINE rest == Tail(wire)
           first == <<Head(wire)>>
<1>1. /\ wire \in Seq(Entries) /\ shown \in Seq(Entries) /\ queue \in Seq(Entries)
      /\ rest \in Seq(Entries) /\ first \in Seq(Entries)
      /\ Append(shown, Head(wire)) \o rest = shown \o wire
      /\ (shown \o first) \o rest = shown \o wire
  BY WireHead DEF TypeOK, PspFrame
<1>2. wire' = rest /\ UNCHANGED <<stream, calls, parserVars, taken, queue>>
  BY DEF PspFrame, monitorVars, parserVars, stream
<1>3. CASE shown' = Append(shown, Head(wire))
  <2>1. path' = path
    BY <1>1, <1>2, <1>3 DEF path
  <2>2. QED
    BY <1>2, <2>1 DEF Carried
<1>4. CASE shown' = shown
  <2> HIDE DEF rest, first
  <2>1. rest \o queue \in Seq(Entries)
    BY <1>1, ConcatProperties
  <2>2. Kept(shown \o (rest \o queue), (shown \o first) \o (rest \o queue))
    BY <1>1, <2>1, DropMiddle
  <2> DEFINE E == Seq(Entries)
  <2>0. shown \in E /\ first \in E /\ rest \in E /\ queue \in E /\ shown \o first \in E
    BY <1>1, ConcatProperties
  <2>a. \A s, t, u \in E : s \o (t \o u) = (s \o t) \o u
    BY ConcatAssociative
  <2> HIDE DEF E
  <2>3. shown \o (rest \o queue) = (shown \o rest) \o queue
    BY <2>0, <2>a, Zenon
  <2>4. (shown \o first) \o (rest \o queue) = path
    <3>1. (shown \o first) \o (rest \o queue) = ((shown \o first) \o rest) \o queue
      BY <2>0, <2>a, Zenon
    <3>2. QED
      BY <1>1, <3>1 DEF path
  <2>5. path' = (shown \o rest) \o queue
    BY <1>2, <1>4 DEF path
  <2>6. QED
    BY <1>2, <2>2, <2>3, <2>4, <2>5 DEF Carried
<1>5. QED
  BY <1>3, <1>4 DEF PspFrame

LEMMA StepEffect ==
    ASSUME TypeOK, [Next]_vars
    PROVE  Effect
<1>1. CASE Open \/ UNCHANGED vars
  <2>1. UNCHANGED <<stream, calls, parserVars, taken, path>>
    BY <1>1 DEF Open, vars, monitorVars, parserVars, loopVars, stream, path
  <2>2. QED
    BY <2>1 DEF Carried, Effect
<1>2. QED
  BY <1>1, NotifyCallEffect, OtherMessageEffect, PrintLineEffect, MonitorEndsEffect,
     ReadLineEffect, PushMockEffect, SendNextEffect, CloseEffect, PspFrameEffect,
     GiveUpEffect DEF Next, Listen, Effect

-----------------------------------------------------------------------------
(***************************************************************************)
(* Lines that are added, cut off or read.                                  *)
(***************************************************************************)
LEMMA LineType ==
    ASSUME NEW s \in Seq(Lines)
    PROVE  /\ Len(s) \in Nat
           /\ \A i \in 1..Len(s) : s[i] \in Lines /\ s[i].call \in Nat
<1>1. Len(s) \in Nat /\ \A i \in 1..Len(s) : s[i] \in Lines
  BY LenProperties, ElementOfSeq
<1>2. QED
  BY <1>1 DEF Lines

LEMMA PrintedConcat ==
    ASSUME NEW s \in Seq(Lines), NEW t \in Seq(Lines), NEW cs,
           Printed(s, cs), Printed(t, cs), t # <<>>, ~IsString(t[1]),
           \A i \in 1..Len(s), j \in 1..Len(t) :
               t[j].kind = "notify" => s[i].call < t[j].call
    PROVE  Printed(s \o t, cs)
<1> DEFINE u == s \o t
           k == Len(s)
<1>1. k \in Nat /\ Len(t) \in Nat /\ Len(t) >= 1
  BY LenProperties, EmptySeq
<1>2. /\ Len(u) = k + Len(t)
      /\ \A i \in 1..k : u[i] = s[i]
      /\ \A i \in k + 1..Len(u) : i - k \in 1..Len(t) /\ u[i] = t[i - k]
  BY <1>1, ConcatProperties
<1> HIDE DEF u
<1>3. ASSUME NEW i \in 1..Len(u) PROVE WellFormed(u[i], cs)
  <2>1. CASE i \in 1..k
    BY <2>1, <1>2 DEF Printed
  <2>2. CASE i \in k + 1..Len(u)
    BY <2>2, <1>2 DEF Printed
  <2>3. QED
    BY <2>1, <2>2, <1>1, <1>2
<1>4. ASSUME NEW i \in 1..Len(u), NEW j \in 1..Len(u), j = i + 1
      PROVE  /\ IsString(u[j]) => u[i].kind # "other"
             /\ GoesOn(u[j], u[i].call, Place[u[i].field])
  <2>1. CASE j \in 1..k
    <3>1. i \in 1..k /\ u[i] = s[i] /\ u[j] = s[j]
      BY <2>1, <1>1, <1>2, <1>4
    <3>2. QED
      BY <3>1, <2>1, <1>4 DEF Printed
  <2>2. CASE i = k
    <3>1. u[j] = t[1]
      BY <2>2, <1>1, <1>2, <1>4
    <3>2. QED
      BY <3>1 DEF GoesOn
  <2>3. CASE i \in k + 1..Len(u)
    <3>1. j \in k + 1..Len(u) /\ j - k = (i - k) + 1
      BY <2>3, <1>1, <1>2, <1>4
    <3>2. /\ i - k \in 1..Len(t) /\ j - k \in 1..Len(t)
          /\ u[i] = t[i - k] /\ u[j] = t[j - k]
      BY <2>3, <3>1, <1>2
    <3>3. QED
      BY <3>1, <3>2 DEF Printed
  <2>4. QED
    BY <2>1, <2>2, <2>3, <1>1, <1>2, <1>4
<1>5. ASSUME NEW i \in 1..Len(u), NEW j \in 1..Len(u), i < j, u[j].kind = "notify"
      PROVE  u[i].call < u[j].call
  <2>1. CASE j \in 1..k
    <3>1. i \in 1..k /\ u[i] = s[i] /\ u[j] = s[j]
      BY <2>1, <1>1, <1>2, <1>5
    <3>2. QED
      BY <3>1, <2>1, <1>5 DEF Printed
  <2>2. CASE i \in 1..k /\ j \in k + 1..Len(u)
    BY <2>2, <1>2, <1>5
  <2>3. CASE i \in k + 1..Len(u)
    <3>1. /\ i - k \in 1..Len(t) /\ j - k \in 1..Len(t) /\ i - k < j - k
          /\ u[i] = t[i - k] /\ u[j] = t[j - k]
      BY <2>3, <1>1, <1>2, <1>5
    <3>2. QED
      BY <3>1, <1>5 DEF Printed
  <2>4. QED
    BY <2>1, <2>2, <2>3, <1>1, <1>2
<1>6. Printed(u, cs)
  BY <1>3, <1>4, <1>5 DEF Printed
<1>7. QED
  BY <1>6 DEF u

LEMMA PrintedPrefix ==
    ASSUME NEW s \in Seq(Lines), NEW t \in Seq(Lines), NEW cs, Printed(s \o t, cs)
    PROVE  Printed(s, cs)
<1> DEFINE u == s \o t
<1>1. Len(s) \in Nat /\ Len(t) \in Nat
  BY LenProperties
<1>2. \A i \in 1..Len(s) : i \in 1..Len(u) /\ u[i] = s[i]
  BY <1>1, ConcatProperties
<1>3. Printed(u, cs)
  OBVIOUS
<1> HIDE DEF u
<1>4. QED
  BY <1>2, <1>3 DEF Printed

LEMMA PrintedTail ==
    ASSUME NEW s \in Seq(Lines), NEW cs, Printed(s, cs), s # <<>>
    PROVE  /\ Printed(Tail(s), cs) /\ Tail(s) \in Seq(Lines)
           /\ Tail(s) # <<>> => GoesOn(Tail(s)[1], Head(s).call, Place[Head(s).field])
           /\ \A j \in 1..Len(Tail(s)) :
                 Tail(s)[j].kind = "notify" => Head(s).call < Tail(s)[j].call
<1> DEFINE t == Tail(s)
<1>1. /\ Len(s) \in Nat \ {0} /\ t \in Seq(Lines) /\ Len(t) = Len(s) - 1
      /\ \A i \in 1..Len(t) : t[i] = s[i + 1]
      /\ Head(s) = s[1]
  BY HeadTailProperties, EmptySeq
<1> HIDE DEF t
<1>2. /\ \A i \in 1..Len(t) : i + 1 \in 1..Len(s)
      /\ t # <<>> => Len(t) \in Nat \ {0}
  BY <1>1, EmptySeq
<1>3. Printed(t, cs)
  <2>1. \A i \in 1..Len(t) : WellFormed(t[i], cs)
    BY <1>1, <1>2 DEF Printed
  <2>2. ASSUME NEW i \in 1..Len(t), NEW j \in 1..Len(t), j = i + 1
        PROVE  /\ IsString(t[j]) => t[i].kind # "other"
               /\ GoesOn(t[j], t[i].call, Place[t[i].field])
    <3>1. /\ i + 1 \in 1..Len(s) /\ j + 1 \in 1..Len(s) /\ j + 1 = (i + 1) + 1
          /\ t[i] = s[i + 1] /\ t[j] = s[j + 1]
      BY <1>1, <1>2, <2>2
    <3>2. QED
      BY <3>1 DEF Printed
  <2>3. ASSUME NEW i \in 1..Len(t), NEW j \in 1..Len(t), i < j, t[j].kind = "notify"
        PROVE  t[i].call < t[j].call
    <3>1. /\ i + 1 \in 1..Len(s) /\ j + 1 \in 1..Len(s) /\ i + 1 < j + 1
          /\ t[i] = s[i + 1] /\ t[j] = s[j + 1]
      BY <1>1, <1>2, <2>3
    <3>2. QED
      BY <3>1, <2>3 DEF Printed
  <2>4. QED
    BY <2>1, <2>2, <2>3 DEF Printed
<1>4. t # <<>> => GoesOn(t[1], s[1].call, Place[s[1].field])
  <2> SUFFICES ASSUME t # <<>> PROVE GoesOn(t[1], s[1].call, Place[s[1].field])
    OBVIOUS
  <2>1. 1 \in 1..Len(t) /\ t[1] = s[2] /\ 1 \in 1..Len(s) /\ 2 \in 1..Len(s)
    BY <1>1, <1>2
  <2>2. QED
    BY <2>1 DEF Printed
<1>5. \A j \in 1..Len(t) : t[j].kind = "notify" => s[1].call < t[j].call
  <2> SUFFICES ASSUME NEW j \in 1..Len(t), t[j].kind = "notify"
               PROVE  s[1].call < t[j].call
    OBVIOUS
  <2>1. 1 \in 1..Len(s) /\ j + 1 \in 1..Len(s) /\ 1 < j + 1 /\ t[j] = s[j + 1]
    BY <1>1, <1>2
  <2>2. QED
    BY <2>1 DEF Printed
<1>6. QED
  BY <1>1, <1>3, <1>4, <1>5 DEF t

\* What the parser expects next and which calls it has yet to see, when lines
\* are added that do not go on with a call, or lines are cut off.
LEMMA ReadingConcat ==
    ASSUME NEW s \in Seq(Lines), NEW t \in Seq(Lines), NEW n, NEW p,
           Reading(s, n, p), t # <<>>, ~IsString(t[1]),
           \A j \in 1..Len(t) : t[j].kind = "notify" => n < t[j].call
    PROVE  Reading(s \o t, n, p)
<1> DEFINE u == s \o t
<1>1. Len(s) \in Nat /\ Len(t) \in Nat \ {0} /\ s # <<>> => Len(s) \in Nat \ {0}
  BY LenProperties, EmptySeq
<1>2. /\ Len(u) = Len(s) + Len(t)
      /\ \A i \in 1..Len(u) : u[i] = IF i <= Len(s) THEN s[i] ELSE t[i - Len(s)]
  BY <1>1, ConcatProperties
<1> HIDE DEF u
<1>3. GoesOn(u[1], n, p)
  <2>1. CASE s = <<>>
    BY <2>1, <1>1, <1>2, EmptySeq DEF GoesOn
  <2>2. CASE s # <<>>
    <3>1. u[1] = s[1]
      BY <2>2, <1>1, <1>2, EmptySeq
    <3>2. QED
      BY <2>2, <3>1 DEF Reading
  <2>3. QED
    BY <2>1, <2>2
<1>4. ASSUME NEW j \in 1..Len(u), u[j].kind = "notify" PROVE n < u[j].call
  <2>1. j <= Len(s) => j \in 1..Len(s)
    BY <1>1
  <2>2. ~(j <= Len(s)) => j - Len(s) \in 1..Len(t)
    BY <1>1, <1>2
  <2>3. QED
    BY <1>2, <1>4, <2>1, <2>2 DEF Reading
<1>5. QED
  BY <1>3, <1>4 DEF Reading, u

LEMMA ReadingPrefix ==
    ASSUME NEW s \in Seq(Lines), NEW t \in Seq(Lines), NEW n, NEW p, Reading(s \o t, n, p)
    PROVE  Reading(s, n, p)
<1> DEFINE u == s \o t
<1>1. Len(s) \in Nat /\ Len(t) \in Nat
  BY LenProperties
<1>2. \A i \in 1..Len(s) : i \in 1..Len(u) /\ u[i] = s[i]
  BY <1>1, ConcatProperties
<1>3. s # <<>> => u # <<>> /\ 1 \in 1..Len(s)
  BY <1>1, EmptySeq, ConcatEqualIffEmpty
<1>4. Reading(u, n, p)
  OBVIOUS
<1> HIDE DEF u
<1>5. QED
  BY <1>2, <1>3, <1>4 DEF Reading

LEMMA NewerConcat ==
    ASSUME NEW s \in Seq(Lines), NEW t \in Seq(Lines), NEW w,
           NewerCalls(s, w), NewerCalls(t, w)
    PROVE  NewerCalls(s \o t, w)
<1> DEFINE u == s \o t
<1>1. Len(s) \in Nat /\ Len(t) \in Nat
  BY LenProperties
<1>2. /\ Len(u) = Len(s) + Len(t)
      /\ \A i \in 1..Len(u) : u[i] = IF i <= Len(s) THEN s[i] ELSE t[i - Len(s)]
  BY <1>1, ConcatProperties
<1> HIDE DEF u
<1>3. ASSUME NEW j \in 1..Len(u), u[j].kind = "notify" PROVE Below(w, u[j].call)
  <2>1. j <= Len(s) => j \in 1..Len(s)
    BY <1>1
  <2>2. ~(j <= Len(s)) => j - Len(s) \in 1..Len(t)
    BY <1>1, <1>2
  <2>3. QED
    BY <1>2, <1>3, <2>1, <2>2 DEF NewerCalls
<1>4. QED
  BY <1>3 DEF NewerCalls, u

LEMMA NewerPrefix ==
    ASSUME NEW s \in Seq(Lines), NEW t \in Seq(Lines), NEW w, NewerCalls(s \o t, w)
    PROVE  NewerCalls(s, w)
<1> DEFINE u == s \o t
<1>1. Len(s) \in Nat /\ Len(t) \in Nat
  BY LenProperties
<1>2. \A i \in 1..Len(s) : i \in 1..Len(u) /\ u[i] = s[i]
  BY <1>1, ConcatProperties
<1>3. NewerCalls(u, w)
  OBVIOUS
<1> HIDE DEF u
<1>4. QED
  BY <1>2, <1>3 DEF NewerCalls

\* A further call changes nothing about those before it.
LEMMA CallsGrow ==
    ASSUME NEW cs \in Seq(SUBSET Fields), NEW g \in SUBSET Fields
    PROVE  LET new == Append(cs, g) IN
           /\ new \in Seq(SUBSET Fields) /\ Len(cs) \in Nat /\ Len(new) = Len(cs) + 1
           /\ new[Len(cs) + 1] = g
           /\ \A i \in 1..Len(cs) : new[i] = cs[i]
           /\ \A s : Printed(s, cs) => Printed(s, new)
           /\ \A e : FromOneCall(e, cs) => FromOneCall(e, new)
<1> DEFINE new == Append(cs, g)
<1>1. /\ new \in Seq(SUBSET Fields) /\ Len(cs) \in Nat /\ Len(new) = Len(cs) + 1
      /\ new[Len(cs) + 1] = g /\ \A i \in 1..Len(cs) : new[i] = cs[i]
  BY AppendProperties, LenProperties
<1> HIDE DEF new
<1>2. \A l : WellFormed(l, cs) => WellFormed(l, new)
  BY <1>1 DEF WellFormed
<1>3. \A s : Printed(s, cs) => Printed(s, new)
  BY <1>2 DEF Printed
<1>4. \A e : FromOneCall(e, cs) => FromOneCall(e, new)
  BY <1>1 DEF FromOneCall
<1>5. QED
  BY <1>1, <1>3, <1>4 DEF new

\* The lines of the newest call.
LEMMA CallLinesPrinted ==
    ASSUME NEW cs \in Seq(SUBSET Fields), Len(cs) # 0,
           NEW n, n = Len(cs)
    PROVE  LET t == CallLines(n, cs[n]) IN
           /\ t \in Seq(Lines) /\ t # <<>> /\ Len(t) = 6
           /\ Printed(t, cs) /\ ~IsString(t[1])
           /\ \A i \in 1..6 : t[i].call = n
<1> DEFINE t == CallLines(n, cs[n])
           Str(f) == Line(IF f \in cs[n] THEN "gap" ELSE "string", n, f)
<1>1. n \in Nat /\ n \in 1..Len(cs)
  BY LenProperties
<1>2. t \in Seq(Lines)
  BY <1>1, CallLinesType
<1>3. /\ Len(t) = 6 /\ t # <<>>
      /\ t[1] = Line("notify", n, "none") /\ t[2] = Str("app") /\ t[3] = Str("icon")
      /\ t[4] = Str("summary") /\ t[5] = Str("body") /\ t[6] = Line("string", n, "hint")
  BY DEF CallLines
<1> HIDE DEF t
<1>4. /\ \A i \in 1..6 : t[i].call = n
      /\ \A i \in 2..6 : IsString(t[i]) /\ t[i].kind # "notify" /\ t[i].kind # "other"
      /\ t[1].kind = "notify"
      /\ t[1].field = "none" /\ t[2].field = "app" /\ t[3].field = "icon"
      /\ t[4].field = "summary" /\ t[5].field = "body" /\ t[6].field = "hint"
      /\ \A i \in 1..6 : t[i].kind = "gap" => t[i].field \in cs[n]
  BY <1>3 DEF Line, IsString
<1>5. /\ Place["none"] = 0 /\ Place["app"] = 1 /\ Place["icon"] = 2
      /\ Place["summary"] = 3 /\ Place["body"] = 4 /\ Place["hint"] = 5
  BY DEF Place, LineFields, Fields
<1>6. \A i \in 1..6 : WellFormed(t[i], cs)
  BY <1>1, <1>4 DEF WellFormed, IsString
<1>7. ASSUME NEW i \in 1..6, NEW j \in 1..6, j = i + 1
      PROVE  t[i].kind # "other" /\ GoesOn(t[j], t[i].call, Place[t[i].field])
  <2>1. i \in {1, 2, 3, 4, 5}
    BY <1>7
  <2>2. t[i].kind # "other" /\ t[i].call = n /\ t[j].call = n
    BY SMTT(30), <1>4
  <2>3. Place[t[i].field] = i - 1
    BY <2>1, <1>4, <1>5
  <2>4. Place[t[j].field] = i
    BY <2>1, <1>4, <1>5, <1>7
  <2>5. QED
    BY <2>1, <2>2, <2>3, <2>4 DEF GoesOn
<1>8. \A i, j \in 1..6 : i < j => t[j].kind # "notify"
  BY <1>4
<1>9. Printed(t, cs)
  BY <1>3, <1>6, <1>7, <1>8 DEF Printed
<1>10. QED
  BY <1>2, <1>3, <1>4, <1>9 DEF t, IsString

-----------------------------------------------------------------------------
(***************************************************************************)
(* Entries that are added to the path or lost from it.                     *)
(***************************************************************************)
LEMMA KeptOrder ==
    ASSUME NEW new, NEW old, Kept(new, old)
    PROVE  /\ Ascending(old) => Ascending(new)
           /\ \A n : Below(old, n) => Below(new, n)
<1>1. PICK f \in [1..Len(new) -> 1..Len(old)] :
          /\ \A i \in 1..Len(new) : new[i] = old[f[i]]
          /\ \A i, j \in 1..Len(new) : i < j => f[i] < f[j]
  BY DEF Kept
<1>2. \A i \in 1..Len(new) : f[i] \in 1..Len(old)
  BY <1>1
<1>3. Ascending(old) => Ascending(new)
  BY <1>1, <1>2 DEF Ascending
<1>4. \A n : Below(old, n) => Below(new, n)
  BY <1>1, <1>2 DEF Below
<1>5. QED
  BY <1>3, <1>4

\* An entry e that is not older than what is there may be added.
LEMMA AddEntry ==
    ASSUME NEW w \in Seq(Entries), NEW e \in Entries
    PROVE  LET new == Append(w, e) IN
           /\ Ascending(w) /\ (IsReal(e) => Below(w, Owner(e))) => Ascending(new)
           /\ \A n : Below(w, n) /\ (IsReal(e) => Owner(e) < n) => Below(new, n)
<1> DEFINE new == Append(w, e)
<1>1. /\ Len(w) \in Nat /\ Len(new) = Len(w) + 1 /\ new[Len(w) + 1] = e
      /\ \A i \in 1..Len(w) : new[i] = w[i]
  BY AppendProperties, LenProperties
<1> HIDE DEF new
<1>2. \A i \in 1..Len(new) : i \in 1..Len(w) \/ i = Len(w) + 1
  BY <1>1
<1>3. ASSUME Ascending(w), IsReal(e) => Below(w, Owner(e)),
             NEW i \in 1..Len(new), NEW j \in 1..Len(new),
             i < j, IsReal(new[i]), IsReal(new[j])
      PROVE  Owner(new[i]) < Owner(new[j])
  <2>1. i \in 1..Len(w)
    BY <1>1, <1>3
  <2>2. CASE j \in 1..Len(w)
    BY <2>1, <2>2, <1>1, <1>3 DEF Ascending
  <2>3. CASE j = Len(w) + 1
    BY <2>1, <2>3, <1>1, <1>3 DEF Below
  <2>4. QED
    BY <1>2, <2>2, <2>3
<1>4. Ascending(w) /\ (IsReal(e) => Below(w, Owner(e))) => Ascending(new)
  BY <1>3 DEF Ascending
<1>5. \A n : Below(w, n) /\ (IsReal(e) => Owner(e) < n) => Below(new, n)
  BY <1>1, <1>2 DEF Below
<1>6. QED
  BY <1>4, <1>5 DEF new

\* Everything numbered below a call is below a later one.
LEMMA BelowMore ==
    ASSUME NEW w \in Seq(Entries), NEW m \in Int, NEW n \in Int, m <= n, Below(w, m)
    PROVE  Below(w, n)
<1>1. \A i \in 1..Len(w) : Owner(w[i]) \in Nat
  <2>1. \A i \in 1..Len(w) : w[i] \in Entries
    BY ElementOfSeq
  <2>2. QED
    BY <2>1 DEF Owner, Entries, FieldValues
<1>2. QED
  BY <1>1 DEF Below

LEMMA Pushed ==
    ASSUME TypeOK, NEW e \in Entries, Push(e), UNCHANGED <<shown, wire>>
    PROVE  /\ path' = Append(path, e) /\ taken' = Append(taken, e)
           /\ queue' \in Seq(Entries) /\ taken' \in Seq(Entries)
           /\ Len(path') = Len(path) + 1 /\ Len(taken') = Len(taken) + 1
<1>1. queue' = Append(queue, e) /\ taken' = Append(taken, e)
  BY DEF Push
<1>2. queue \in Seq(Entries) /\ taken \in Seq(Entries)
  BY DEF TypeOK
<1> DEFINE past == shown \o wire
<1>3. past \o Append(queue, e) = Append(path, e)
  <2>1. past \in Seq(Entries)
    BY Parts
  <2>2. path = past \o queue
    BY DEF path
  <2> HIDE DEF past
  <2>3. past \o Append(queue, e) = Append(past \o queue, e)
    BY <1>2, <2>1, AppendLast
  <2>4. QED
    BY <2>2, <2>3
<1>4. path' = Append(path, e)
  BY <1>1, <1>3 DEF path
<1>5. QED
  BY <1>1, <1>2, <1>4, Parts, AppendProperties

\* What a notification adds to what was taken.
LEMMA TakenMore ==
    ASSUME TypeOK, TakenInv, NEW e \in Entries, taken' = Append(taken, e),
           calls' = calls, FromOneCall(e, calls)
    PROVE  TakenInv'
<1>1. /\ Len(taken) \in Nat /\ Len(taken') = Len(taken) + 1 /\ taken'[Len(taken) + 1] = e
      /\ \A i \in 1..Len(taken) : taken'[i] = taken[i]
  BY AppendProperties, LenProperties DEF TypeOK
<1>2. \A i \in 1..Len(taken') : i \in 1..Len(taken) \/ i = Len(taken) + 1
  BY <1>1
<1>3. \A i \in 1..Len(taken') : FromOneCall(taken'[i], calls)
  BY <1>1, <1>2 DEF TakenInv
<1>4. QED
  BY <1>3 DEF TakenInv

-----------------------------------------------------------------------------
(***************************************************************************)
(* Every step keeps the invariant; its types first.                        *)
(***************************************************************************)
Safe == Printed(stream, calls) /\ TakenInv /\ OrderInv /\ ParserInv

LEMMA CarriedKeeps ==
    ASSUME PipelineInv, Carried
    PROVE  Safe'
<1>1. TypeOK /\ Printed(stream, calls) /\ TakenInv /\ OrderInv /\ ParserInv
  BY DEF PipelineInv
<1>2. UNCHANGED <<stream, calls, taken>> /\ UNCHANGED <<inNotify, stringIndex, appName, summary>>
  BY DEF Carried, parserVars
<1>3. /\ Ascending(path) => Ascending(path')
      /\ \A n : Below(path, n) => Below(path', n)
  <2>1. CASE path' = path
    BY <2>1
  <2>2. CASE Kept(path', path)
    BY <2>2, KeptOrder
  <2>3. QED
    BY <2>1, <2>2 DEF Carried
<1>4. Printed(stream, calls)' /\ TakenInv'
  BY <1>1, <1>2 DEF TakenInv
<1>5. OrderInv'
  BY <1>1, <1>2, <1>3 DEF OrderInv
<1>6. ParserInv'
  <2>1. \A n, p : ParserAt(n, p) => ParserAt(n, p)'
    BY <1>2, <1>3 DEF ParserAt
  <2>2. NewerCalls(stream', path')
    BY <1>1, <1>2, <1>3 DEF ParserInv, NewerCalls
  <2>3. QED
    BY <1>1, <1>2, <2>1, <2>2 DEF ParserInv
<1>7. QED
  BY <1>4, <1>5, <1>6 DEF Safe

LEMMA CallUnheardKeeps ==
    ASSUME PipelineInv, CallUnheard
    PROVE  Safe'
<1>1. TypeOK /\ TakenInv /\ OrderInv /\ ParserInv
  BY DEF PipelineInv
<1>2. PICK g \in SUBSET Fields : calls' = Append(calls, g)
  BY DEF CallUnheard
<1>3. /\ UNCHANGED <<path, taken, stream>> /\ stream = <<>>
      /\ UNCHANGED <<inNotify, stringIndex, appName, summary>>
  BY DEF CallUnheard, parserVars
<1>4. /\ Len(calls) \in Nat /\ Len(calls') = Len(calls) + 1
      /\ \A i \in 1..Len(calls) : calls'[i] = calls[i]
      /\ \A e : FromOneCall(e, calls) => FromOneCall(e, calls')
  BY <1>1, <1>2, CallsGrow DEF TypeOK
<1>5. Printed(stream, calls)' /\ NewerCalls(stream', path') /\ TakenInv'
  BY <1>1, <1>3, <1>4 DEF Printed, NewerCalls, TakenInv
<1>6. OrderInv'
  <2>1. Below(path, Len(calls) + 1) /\ path \in Seq(Entries)
    BY <1>1, Parts DEF OrderInv
  <2>2. Len(calls) + 1 \in Int /\ Len(calls') + 1 \in Int /\ Len(calls) + 1 <= Len(calls') + 1
    BY <1>4
  <2>3. Below(path, Len(calls') + 1)
    BY <2>1, <2>2, BelowMore
  <2>4. QED
    BY <1>1, <1>3, <2>3 DEF OrderInv
<1>7. ASSUME NEW m \in 1..Len(calls), NEW p \in 0..5, ParserAt(m, p)
      PROVE  m \in 1..Len(calls') /\ ParserAt(m, p)'
  BY <1>3, <1>4, <1>7 DEF ParserAt
<1>8. ParserInv'
  <2>1. ASSUME inNotify PROVE \E m \in 1..Len(calls'), p \in 0..5 : ParserAt(m, p)'
    <3>1. PICK m \in 1..Len(calls), p \in 0..5 : ParserAt(m, p)
      BY <1>1, <2>1 DEF ParserInv
    <3>2. QED
      BY <3>1, <1>7
  <2>2. QED
    BY <1>3, <1>5, <2>1 DEF ParserInv
<1>9. QED
  BY <1>5, <1>6, <1>8 DEF Safe

LEMMA CallPrintedKeeps ==
    ASSUME PipelineInv, CallPrinted
    PROVE  Safe'
<1>1. TypeOK /\ Printed(stream, calls) /\ TakenInv /\ OrderInv /\ ParserInv
  BY DEF PipelineInv
<1>2. PICK g \in SUBSET Fields : /\ calls' = Append(calls, g)
                                 /\ stream' = stream \o CallLines(Len(calls) + 1, g)
  BY DEF CallPrinted
<1> DEFINE n == Len(calls) + 1
           t == CallLines(n, g)
<1>3. /\ UNCHANGED <<path, taken>>
      /\ UNCHANGED <<inNotify, stringIndex, appName, summary>>
  BY DEF CallPrinted, parserVars
<1>4. /\ calls' \in Seq(SUBSET Fields) /\ Len(calls) \in Nat /\ Len(calls') = n
      /\ calls'[n] = g /\ \A i \in 1..Len(calls) : calls'[i] = calls[i]
      /\ Printed(stream, calls')
      /\ \A e : FromOneCall(e, calls) => FromOneCall(e, calls')
  BY <1>1, <1>2, CallsGrow DEF TypeOK
<1>5. /\ t \in Seq(Lines) /\ t # <<>> /\ Len(t) = 6 /\ Printed(t, calls')
      /\ ~IsString(t[1]) /\ \A i \in 1..6 : t[i].call = n
  <2>1. Len(calls') # 0 /\ t = CallLines(n, calls'[n])
    BY <1>4
  <2> HIDE DEF t, n
  <2>2. QED
    BY <1>4, <2>1, CallLinesPrinted
<1> HIDE DEF t
<1>6. stream \in Seq(Lines) /\ \A i \in 1..Len(stream) : stream[i].call < n
  <2>1. stream \in Seq(Lines)
    BY <1>1, Parts
  <2>2. \A i \in 1..Len(stream) : WellFormed(stream[i], calls)
    BY <1>1 DEF Printed
  <2>3. QED
    BY <1>4, <2>1, <2>2 DEF WellFormed
<1>7. stream' = stream \o t
  BY <1>2 DEF t
<1>8. Printed(stream, calls)'
  <2>1. Printed(stream \o t, calls')
    BY <1>4, <1>5, <1>6, PrintedConcat
  <2>2. QED
    BY <1>7, <2>1
<1>9. TakenInv'
  BY <1>1, <1>3, <1>4 DEF TakenInv
<1>10. Below(path, n) /\ Below(path, n + 1)
  <2>1. Below(path, n) /\ path \in Seq(Entries)
    BY <1>1, Parts DEF OrderInv
  <2>2. n \in Int /\ n + 1 \in Int /\ n <= n + 1
    BY <1>4
  <2>3. QED
    BY <2>1, <2>2, BelowMore
<1>11. OrderInv'
  BY <1>1, <1>3, <1>4, <1>10 DEF OrderInv
<1>12. NewerCalls(stream', path')
  <2>1. NewerCalls(t, path)
    BY <1>5, <1>10 DEF NewerCalls
  <2>2. NewerCalls(stream \o t, path)
    BY <1>1, <1>5, <1>6, <2>1, NewerConcat DEF ParserInv
  <2>3. QED
    BY <1>3, <1>7, <2>2
<1>13. ASSUME NEW m \in 1..Len(calls), NEW p \in 0..5, ParserAt(m, p)
       PROVE  m \in 1..Len(calls') /\ ParserAt(m, p)'
  <2>1. m \in 1..Len(calls') /\ m < n /\ calls'[m] = calls[m]
    BY <1>4
  <2>2. Reading(stream \o t, m, p)
    <3>1. \A j \in 1..Len(t) : t[j].kind = "notify" => m < t[j].call
      BY <1>5, <2>1
    <3>2. QED
      BY <1>5, <1>6, <1>13, <3>1, ReadingConcat DEF ParserAt
  <2>3. QED
    BY <1>3, <1>7, <1>13, <2>1, <2>2 DEF ParserAt
<1>14. ParserInv'
  <2>1. ASSUME inNotify PROVE \E m \in 1..Len(calls'), p \in 0..5 : ParserAt(m, p)'
    <3>1. PICK m \in 1..Len(calls), p \in 0..5 : ParserAt(m, p)
      BY <1>1, <2>1 DEF ParserInv
    <3>2. QED
      BY <3>1, <1>13
  <2>2. QED
    BY <1>3, <1>12, <2>1 DEF ParserInv
<1>15. QED
  BY <1>8, <1>9, <1>11, <1>14 DEF Safe

LEMMA OtherPrintedKeeps ==
    ASSUME PipelineInv, OtherPrinted
    PROVE  Safe'
<1>1. TypeOK /\ Printed(stream, calls) /\ TakenInv /\ OrderInv /\ ParserInv
  BY DEF PipelineInv
<1> DEFINE l == Line("other", 0, "none")
           t == <<l>>
<1>2. /\ UNCHANGED <<calls, path, taken>>
      /\ UNCHANGED <<inNotify, stringIndex, appName, summary>>
      /\ stream' = stream \o t
  BY DEF OtherPrinted, parserVars
<1>3. stream \in Seq(Lines)
  BY <1>1, Parts
<1>4. /\ t \in Seq(Lines) /\ t # <<>> /\ Len(t) = 1 /\ t[1] = l
      /\ l.kind = "other" /\ l.call = 0 /\ ~IsString(l)
  BY DEF Line, Lines, LineFields, IsString
<1> HIDE DEF t, l
<1>5. Printed(t, calls)
  <2>1. WellFormed(l, calls)
    BY <1>4 DEF WellFormed, IsString
  <2>2. QED
    BY <1>4, <2>1 DEF Printed
<1>6. \A j \in 1..Len(t) : t[j].kind # "notify" /\ ~IsString(t[1])
  BY <1>4
<1>7. Printed(stream, calls)'
  <2>1. Printed(stream \o t, calls)
    BY <1>1, <1>3, <1>4, <1>5, <1>6, PrintedConcat
  <2>2. QED
    BY <1>2, <2>1
<1>8. ParserInv'
  <2>1. NewerCalls(t, path)
    BY <1>6 DEF NewerCalls
  <2>2. NewerCalls(stream \o t, path)
    BY <1>1, <1>3, <1>4, <2>1, NewerConcat DEF ParserInv
  <2>3. \A n, p : Reading(stream, n, p) => Reading(stream \o t, n, p)
    BY <1>3, <1>4, <1>6, ReadingConcat
  <2>4. \A n, p : ParserAt(n, p) => ParserAt(n, p)'
    BY <1>2, <2>3 DEF ParserAt
  <2>5. QED
    BY <1>1, <1>2, <2>2, <2>4 DEF ParserInv
<1>9. TakenInv' /\ OrderInv'
  BY <1>1, <1>2 DEF TakenInv, OrderInv
<1>10. QED
  BY <1>7, <1>8, <1>9 DEF Safe

LEMMA StreamCutKeeps ==
    ASSUME PipelineInv, StreamCut, TypeOK'
    PROVE  Safe'
<1>1. TypeOK /\ Printed(stream, calls) /\ TakenInv /\ OrderInv /\ ParserInv
  BY DEF PipelineInv
<1>2. /\ UNCHANGED <<calls, path, taken>>
      /\ UNCHANGED <<inNotify, stringIndex, appName, summary>>
  BY DEF StreamCut, parserVars
<1>3. PICK rest \in Seq(Lines) : stream = stream' \o rest
  BY DEF StreamCut
<1>4. stream' \in Seq(Lines)
  <2>1. stdio' \in Seq(Lines) /\ kernel' \in Seq(Lines) /\ printing' \in Seq(Lines)
    BY DEF TypeOK
  <2>2. stdio' \o kernel' \in Seq(Lines)
    BY <2>1, ConcatProperties
  <2>3. (stdio' \o kernel') \o printing' \in Seq(Lines) /\ <<>> \in Seq(Lines)
    BY <2>1, <2>2, ConcatProperties, EmptySeq
  <2>4. QED
    BY <2>3 DEF stream
<1>5. Printed(stream', calls)
  BY <1>1, <1>3, <1>4, PrintedPrefix
<1>6. ParserInv'
  <2>1. NewerCalls(stream', path)
    BY <1>1, <1>3, <1>4, NewerPrefix DEF ParserInv
  <2>2. \A n, p : Reading(stream, n, p) => Reading(stream', n, p)
    BY <1>3, <1>4, ReadingPrefix
  <2>3. \A n, p : ParserAt(n, p) => ParserAt(n, p)'
    BY <1>2, <2>2 DEF ParserAt
  <2>4. QED
    BY <1>1, <1>2, <2>1, <2>3 DEF ParserInv
<1>7. TakenInv' /\ OrderInv'
  BY <1>1, <1>2 DEF TakenInv, OrderInv
<1>8. QED
  BY <1>2, <1>5, <1>6, <1>7 DEF Safe

\* The parser's fields after the next string of call n.
LEMMA HoldsMore ==
    ASSUME NEW l \in Lines, NEW n \in Nat, NEW p \in 0..5, NEW g,
           NEW i, NEW app, NEW sum, NEW sum2, NEW app2,
           Holds(i, app, sum, n, p, g), l.call = n, Place[l.field] = p + 1,
           i # 3,
           app2 = IF i = 0 THEN Value(l) ELSE app,
           sum2 = IF i = 2 THEN Value(l) ELSE sum
    PROVE  Holds(i + 1, app2, sum2, n, p + 1, g)
<1>1. i \in 0..2
  BY DEF Holds
<1>2. Value(l).call = n /\ Value(l).field = l.field
  BY DEF Value
<1>3. l.field \in LineFields
  BY DEF Lines
<1>4. (p = 0 => l.field = "app") /\ (p = 2 => l.field = "summary")
  BY <1>3 DEF Place, LineFields, Fields
<1>5. CASE i = 0
  BY <1>5, <1>2, <1>4 DEF Holds
<1>6. CASE i = 1
  BY <1>6 DEF Holds
<1>7. CASE i = 2
  BY <1>7, <1>2, <1>4 DEF Holds
<1>8. QED
  BY <1>1, <1>5, <1>6, <1>7

LEMMA LineParsedKeeps ==
    ASSUME PipelineInv, LineParsed
    PROVE  Safe'
<1>1. TypeOK /\ Printed(stream, calls) /\ TakenInv /\ OrderInv /\ ParserInv
  BY DEF PipelineInv
<1> DEFINE l == Head(stream)
           rest == Tail(stream)
<1>2. /\ stream # <<>> /\ stream' = rest /\ Parse(l)
      /\ UNCHANGED <<calls, shown, wire>>
  BY DEF LineParsed
<1>3. /\ stream \in Seq(Lines) /\ l \in Lines /\ l = stream[1] /\ 1 \in 1..Len(stream)
      /\ Len(rest) = Len(stream) - 1 /\ Len(stream) \in Nat
      /\ \A i \in 1..Len(rest) : rest[i] = stream[i + 1]
  BY <1>1, <1>2, Parts, HeadTailProperties, EmptySeq
<1>4. /\ Printed(rest, calls)
      /\ rest # <<>> => GoesOn(rest[1], l.call, Place[l.field])
      /\ \A j \in 1..Len(rest) : rest[j].kind = "notify" => l.call < rest[j].call
  BY <1>1, <1>2, <1>3, PrintedTail
<1> HIDE DEF l, rest
<1>5. WellFormed(l, calls) /\ l.call \in Nat /\ Len(calls) \in Nat
  BY <1>1, <1>3, LenProperties DEF Printed, Lines, TypeOK
<1>6. NewerCalls(rest, path)
  <2>1. \A i \in 1..Len(rest) : i + 1 \in 1..Len(stream)
    BY <1>3
  <2>2. QED
    BY <1>1, <1>3, <2>1 DEF ParserInv, NewerCalls
<1>7. CASE UNCHANGED <<queue, taken>>
  <2>1. UNCHANGED path
    BY <1>2, <1>7 DEF path
  <2>2. TakenInv' /\ OrderInv' /\ NewerCalls(stream', path')
    BY <1>1, <1>2, <1>6, <1>7, <2>1 DEF TakenInv, OrderInv
  <2>3. CASE l.kind = "notify" /\ BeginNotify
    <3>1. Below(path, l.call) /\ l.call \in 1..Len(calls) /\ l.field = "none"
      BY <1>1, <1>3, <1>5, <2>3 DEF ParserInv, NewerCalls, WellFormed
    <3>2. Place[l.field] = 0
      BY <3>1 DEF Place, LineFields
    <3>3. Reading(rest, l.call, 0)
      BY <1>4, <3>2 DEF Reading
    <3>4. stringIndex' = 0 /\ Holds(0, appName', summary', l.call, 0, calls[l.call])
      BY <2>3 DEF BeginNotify, Holds
    <3>5. PICK n \in 1..Len(calls) : n = l.call
      BY <3>1
    <3>6. ParserAt(n, 0)'
      BY <1>2, <2>1, <3>1, <3>3, <3>4, <3>5 DEF ParserAt
    <3>7. n \in 1..Len(calls') /\ 0 \in 0..5
      BY <1>2
    <3>8. QED
      BY <2>2, <3>6, <3>7, <1>2, <1>4 DEF ParserInv, Safe
  <2>4. CASE ~inNotify'
    BY <2>2, <2>4, <1>2, <1>4 DEF ParserInv, Safe
  <2>5. ASSUME inNotify, inNotify' = inNotify, IsString(l),
               NEW n \in 1..Len(calls), NEW p \in 0..5, ParserAt(n, p),
               Holds(stringIndex', appName', summary', n, p + 1, calls[n])
        PROVE  Safe'
    <3>1. l.call = n /\ Place[l.field] = p + 1
      BY <1>2, <1>3, <2>5 DEF ParserAt, Reading, GoesOn
    <3>2. Place[l.field] \in 0..5
      BY <1>3 DEF Lines, Place, LineFields, Fields
    <3>3. Reading(rest, n, p + 1)
      BY <1>4, <3>1 DEF Reading
    <3>4. ParserAt(n, p + 1)'
      BY <1>2, <2>1, <2>5, <3>3 DEF ParserAt
    <3>5. p + 1 \in 0..5 /\ n \in 1..Len(calls')
      BY <1>2, <3>1, <3>2
    <3>6. QED
      BY <2>2, <3>4, <3>5, <1>2, <1>4 DEF ParserInv, Safe
  <2>6. CASE l.kind = "string" /\ inNotify /\ TakeString(Value(l))
    <3>1. PICK n \in 1..Len(calls), p \in 0..5 : ParserAt(n, p)
      BY <1>1, <2>6 DEF ParserInv
    <3>2. IsString(l) /\ l.call = n /\ Place[l.field] = p + 1
      BY <1>2, <1>3, <2>6, <3>1 DEF ParserAt, Reading, GoesOn, IsString
    <3>3. Holds(stringIndex, appName, summary, n, p, calls[n])
      BY <3>1 DEF ParserAt
    <3>4. CASE stringIndex # 3
      <4>1. inNotify' = inNotify /\ stringIndex' = stringIndex + 1
        BY <2>6, <3>4 DEF TakeString
      <4>2. /\ appName' = IF stringIndex = 0 THEN Value(l) ELSE appName
            /\ summary' = IF stringIndex = 2 THEN Value(l) ELSE summary
        BY <2>6 DEF TakeString
      <4>3. Holds(stringIndex + 1, appName', summary', n, p + 1, calls[n])
        BY <1>3, <1>5, <3>2, <3>3, <3>4, <4>2, HoldsMore
      <4>4. QED
        BY <2>5, <2>6, <3>1, <3>2, <4>1, <4>3
    <3>5. CASE stringIndex = 3
      BY <2>4, <2>6, <3>5 DEF TakeString
    <3>6. QED
      BY <3>4, <3>5
  <2>7. CASE (l.kind = "gap" \/ (l.kind = "string" /\ ~inNotify)) /\ UNCHANGED parserVars
    <3>1. CASE inNotify
      <4>1. PICK n \in 1..Len(calls), p \in 0..5 : ParserAt(n, p)
        BY <1>1, <3>1 DEF ParserInv
      <4>2. l.kind = "gap" /\ IsString(l)
        BY <2>7, <3>1 DEF IsString
      <4>3. l.call = n /\ calls[n] # {}
        BY <1>2, <1>3, <1>5, <4>1, <4>2 DEF ParserAt, Reading, GoesOn, WellFormed
      <4>4. Holds(stringIndex', appName', summary', n, p + 1, calls[n])
        BY <2>7, <4>1, <4>3 DEF ParserAt, Holds, parserVars
      <4>5. inNotify' = inNotify
        BY <2>7 DEF parserVars
      <4>6. QED
        BY <2>5, <3>1, <4>1, <4>2, <4>4, <4>5
    <3>2. CASE ~inNotify
      BY <2>4, <2>7, <3>2 DEF parserVars
    <3>3. QED
      BY <3>1, <3>2
  <2>8. CASE l.kind = "other" /\ inNotify' = FALSE
    BY <2>4, <2>8
  <2>9. \/ l.kind = "notify" /\ BeginNotify
        \/ l.kind = "string" /\ inNotify /\ TakeString(Value(l))
        \/ l.kind = "other" /\ inNotify' = FALSE
        \/ (l.kind = "gap" \/ (l.kind = "string" /\ ~inNotify)) /\ UNCHANGED parserVars
    BY <1>2 DEF Parse
  <2>10. QED
    BY <2>3, <2>6, <2>7, <2>8, <2>9, Zenon
<1>8. CASE /\ l.kind = "string" /\ inNotify /\ stringIndex = 3 /\ TakeString(Value(l))
  <2> DEFINE e == [app |-> appName, summary |-> summary, body |-> Value(l)]
  <2>1. Push(e) /\ inNotify' = FALSE
    BY <1>8 DEF TakeString
  <2>2. PICK n \in 1..Len(calls), p \in 0..5 : ParserAt(n, p)
    BY <1>1, <1>8 DEF ParserInv
  <2>3. IsString(l) /\ l.call = n /\ Place[l.field] = p + 1
    BY <1>2, <1>3, <1>8, <2>2 DEF ParserAt, Reading, GoesOn, IsString
  <2>4. FromOneCall(e, calls) /\ IsReal(e) /\ Owner(e) = n
    <3>1. Holds(3, appName, summary, n, p, calls[n])
      BY <1>8, <2>2 DEF ParserAt
    <3>2. /\ e.app = appName /\ e.summary = summary
          /\ e.body.call = n /\ e.body.field = l.field /\ l.field \in LineFields
      BY <1>3, <2>3 DEF Value, Lines
    <3>3. l.field # "mock" /\ (p = 3 => l.field = "body")
      BY <2>3, <3>2 DEF Place, LineFields, Fields
    <3> HIDE DEF e
    <3>4. /\ appName.call = n /\ summary.call = n
          /\ calls[n] = {} => /\ p = 3
                              /\ appName.field = "app" /\ summary.field = "summary"
      BY <3>1 DEF Holds
    <3>5. Owner(e) = n /\ IsReal(e)
      BY <3>2, <3>3 DEF Owner, IsReal
    <3>6. FromOneCall(e, calls)
      BY <3>2, <3>3, <3>4, <3>5 DEF FromOneCall
    <3>7. QED
      BY <3>5, <3>6
  <2>5. e \in Entries
    BY <1>1, <1>3 DEF TypeOK, Entries, Value, FieldValues, Lines
  <2> HIDE DEF e
  <2>6. /\ path' = Append(path, e) /\ taken' = Append(taken, e)
        /\ Len(path') = Len(path) + 1 /\ Len(taken') = Len(taken) + 1
    BY <1>1, <1>2, <2>1, <2>5, Pushed
  <2>7. path \in Seq(Entries) /\ Len(path) \in Nat /\ Len(taken) \in Nat
    BY <1>1, <1>2, Parts, LenProperties DEF TypeOK
  <2>8. Below(path, n)
    BY <2>2 DEF ParserAt
  <2>9. TakenInv'
    BY <1>1, <1>2, <2>4, <2>5, <2>6, TakenMore
  <2>10. Ascending(path') /\ \A m : Below(path, m) /\ n < m => Below(path', m)
    BY <1>1, <2>4, <2>5, <2>6, <2>7, <2>8, AddEntry DEF OrderInv
  <2>11. OrderInv'
    <3>1. Below(path', Len(calls) + 1)
      BY <1>1, <1>5, <2>10 DEF OrderInv
    <3>2. QED
      BY <1>2, <2>10, <3>1 DEF OrderInv
  <2>12. NewerCalls(stream', path')
    BY <1>2, <1>4, <1>6, <2>3, <2>10 DEF NewerCalls
  <2>13. QED
    BY <1>2, <1>4, <2>1, <2>9, <2>11, <2>12 DEF ParserInv, Safe
<1>9. QED
  BY <1>2, <1>7, <1>8 DEF Parse, TakeString

LEMMA MockPushedKeeps ==
    ASSUME PipelineInv, MockPushed, mocks' \in Nat
    PROVE  Safe'
<1>1. TypeOK /\ Printed(stream, calls) /\ TakenInv /\ OrderInv /\ ParserInv
  BY DEF PipelineInv
<1> DEFINE m == Mock(mocks')
<1>2. PICK e : e = [app |-> m, summary |-> m, body |-> m]
  OBVIOUS
<1>3. /\ Push(e) /\ UNCHANGED <<stream, calls, shown, wire>>
      /\ UNCHANGED <<inNotify, stringIndex, appName, summary>>
  BY <1>2 DEF MockPushed, parserVars
<1>4. e \in Entries /\ ~IsReal(e)
  BY <1>2 DEF Entries, FieldValues, Mock, IsReal
<1>5. FromOneCall(e, calls)
  BY <1>4 DEF FromOneCall
<1>6. /\ path' = Append(path, e) /\ taken' = Append(taken, e)
      /\ Len(path') = Len(path) + 1 /\ Len(taken') = Len(taken) + 1
  BY <1>1, <1>3, <1>4, Pushed
<1>7. path \in Seq(Entries) /\ Len(path) \in Nat /\ Len(taken) \in Nat
  BY <1>1, Parts, LenProperties DEF TypeOK
<1>8. /\ Ascending(path) => Ascending(path')
      /\ \A n : Below(path, n) => Below(path', n)
  BY <1>4, <1>6, <1>7, AddEntry
<1>9. TakenInv'
  BY <1>1, <1>3, <1>4, <1>5, <1>6, TakenMore
<1>10. OrderInv'
  BY <1>1, <1>3, <1>8 DEF OrderInv
<1>11. ParserInv'
  <2>1. NewerCalls(stream', path')
    BY <1>1, <1>3, <1>8 DEF ParserInv, NewerCalls
  <2>2. \A n, p : ParserAt(n, p) => ParserAt(n, p)'
    BY <1>3, <1>8 DEF ParserAt
  <2>3. QED
    BY <1>1, <1>3, <2>1, <2>2 DEF ParserInv
<1>12. Printed(stream, calls)'
  BY <1>1, <1>3
<1>13. QED
  BY <1>9, <1>10, <1>11, <1>12 DEF Safe

LEMMA LineTypes ==
    ASSUME TypeOK, LineParsed
    PROVE  /\ inNotify' \in BOOLEAN /\ appName' \in FieldValues /\ summary' \in FieldValues
           /\ queue' \in Seq(Entries) /\ taken' \in Seq(Entries)
<1> DEFINE l == Head(stream)
<1>1. Parse(l) /\ l \in Lines
  BY Parts, HeadTailProperties DEF LineParsed
<1>2. Value(l) \in FieldValues /\ Nothing \in FieldValues
  BY <1>1 DEF Value, Nothing, FieldValues, Lines, LineFields
<1>3. CASE inNotify /\ TakeString(Value(l))
  <2>1. appName' \in FieldValues /\ summary' \in FieldValues
    BY <1>2, <1>3 DEF TakeString, TypeOK
  <2>2. CASE stringIndex = 3
    <3>1. PICK e : e = [app |-> appName, summary |-> summary, body |-> Value(l)]
      OBVIOUS
    <3>2. e \in Entries
      BY <1>2, <3>1 DEF TypeOK, Entries
    <3>3. queue' = Append(queue, e) /\ taken' = Append(taken, e) /\ inNotify' = FALSE
      BY <1>3, <2>2, <3>1 DEF TakeString, Push
    <3>4. queue' \in Seq(Entries) /\ taken' \in Seq(Entries)
      BY <3>2, <3>3, AppendProperties DEF TypeOK
    <3>5. QED
      BY <2>1, <3>3, <3>4
  <2>3. CASE stringIndex # 3
    BY <1>3, <2>1, <2>3 DEF TakeString, TypeOK
  <2>4. QED
    BY <2>2, <2>3
<1>4. CASE BeginNotify /\ UNCHANGED <<queue, taken>>
  BY <1>2, <1>4 DEF BeginNotify, TypeOK
<1>5. CASE inNotify' \in {inNotify, FALSE} /\ UNCHANGED <<appName, summary, queue, taken>>
  BY <1>5 DEF TypeOK
<1> HIDE DEF l
<1>6. QED
  BY <1>1, <1>3, <1>4, <1>5 DEF Parse, parserVars

LEMMA TypeKeeps ==
    ASSUME TypeOK, [Next]_vars
    PROVE  TypeOK'
<1> USE DEF monitorVars, parserVars, loopVars, lostVars
<1>1. CASE NotifyCall
  <2>1. PICK gaps \in SUBSET Fields : /\ calls' = Append(calls, gaps)
                                      /\ printing' = CallLines(Len(calls) + 1, gaps)
    BY <1>1, NotifAssumption DEF NotifyCall
  <2>2. calls' \in Seq(SUBSET Fields) /\ Len(calls) + 1 \in Nat
    BY <2>1, AppendProperties, LenProperties DEF TypeOK
  <2>3. printing' \in Seq(Lines)
    BY <2>1, <2>2, CallLinesType
  <2>4. QED
    BY <1>1, <2>2, <2>3 DEF NotifyCall, TypeOK
<1>2. CASE OtherMessage
  <2>1. <<Line("other", 0, "none")>> \in Seq(Lines)
    BY DEF Line, Lines, LineFields
  <2>2. QED
    BY <1>2, <2>1 DEF OtherMessage, TypeOK
<1>3. CASE PrintLine
  <2>1. /\ kernel \in Seq(Lines) /\ printing \in Seq(Lines) /\ printing # <<>>
        /\ Head(printing) \in Lines /\ Tail(printing) \in Seq(Lines) /\ <<>> \in Seq(Lines)
        /\ Append(kernel, Head(printing)) \in Seq(Lines)
    BY <1>3, HeadTailProperties, AppendProperties, EmptySeq DEF PrintLine, TypeOK
  <2>2. kernel' \in Seq(Lines) /\ printing' \in Seq(Lines)
    BY <1>3, <2>1 DEF PrintLine
  <2>3. QED
    BY <1>3, <2>2 DEF PrintLine, TypeOK
<1>4. CASE MonitorEnds
  <2>1. printing' \in Seq(Lines) /\ failures' \in Nat
    BY <1>4 DEF MonitorEnds, TypeOK
  <2>2. QED
    BY <1>4, <2>1 DEF MonitorEnds, TypeOK
<1>5. CASE ReadLine
  <2>1. LineParsed
    BY <1>5, ReadLineEffect
  <2>2. stdio' \in Seq(Lines) /\ kernel' \in Seq(Lines)
    BY <1>5, HeadTailProperties DEF ReadLine, TypeOK
  <2>3. QED
    BY <1>5, <2>1, <2>2, LineTypes DEF ReadLine, TypeOK
<1>6. CASE PushMock
  <2>1. mocks' \in Nat
    BY <1>6 DEF PushMock, TypeOK
  <2>2. PICK e : e = [app |-> Mock(mocks'), summary |-> Mock(mocks'), body |-> Mock(mocks')]
    OBVIOUS
  <2>3. e \in Entries
    BY <2>1, <2>2 DEF Entries, FieldValues, Mock
  <2>4. queue' \in Seq(Entries) /\ taken' \in Seq(Entries)
    BY <1>6, <2>2, <2>3, AppendProperties DEF PushMock, Push, TypeOK
  <2>5. QED
    BY <1>6, <2>1, <2>4 DEF PushMock, TypeOK
<1>7. CASE SendNext
  <2>1. /\ queue \in Seq(Entries) /\ queue # <<>> /\ wire \in Seq(Entries)
        /\ Head(queue) \in Entries
    BY <1>7, HeadTailProperties DEF SendNext, TypeOK
  <2>2. queue' \in Seq(Entries) /\ Append(wire, Head(queue)) \in Seq(Entries)
    BY <1>7, <2>1, HeadTailProperties, AppendProperties DEF SendNext
  <2>3. /\ wire' \in {wire, Append(wire, Head(queue))} /\ failures' \in {failures, failures + 1}
        /\ dropped' \in {dropped, dropped + 1}
    BY <1>7 DEF SendNext
  <2>4. wire' \in Seq(Entries)
    BY <2>1, <2>2, <2>3
  <2>5. failures' \in Nat /\ dropped' \in Nat
    BY <2>3 DEF TypeOK
  <2>6. QED
    BY <1>7, <2>2, <2>4, <2>5 DEF SendNext, TypeOK
<1>8. CASE Close
  <2>1. wire' \in Seq(Entries)
    BY <1>8, EmptySeq DEF Close, TypeOK
  <2>2. failures' \in Nat /\ dropped' \in Nat
    BY <1>8, LenProperties DEF Close, TypeOK
  <2>3. QED
    BY <1>8, <2>1, <2>2 DEF Close, TypeOK
<1>9. CASE PspFrame
  <2>1. /\ Head(wire) \in Entries /\ Tail(wire) \in Seq(Entries) /\ shown \in Seq(Entries)
        /\ Append(shown, Head(wire)) \in Seq(Entries)
    BY <1>9, HeadTailProperties, AppendProperties DEF PspFrame, TypeOK
  <2>2. shown' \in {shown, Append(shown, Head(wire))} /\ discarded' \in {discarded, discarded + 1}
    BY <1>9 DEF PspFrame
  <2>3. wire' \in Seq(Entries)
    BY <1>9, <2>1 DEF PspFrame
  <2>4. shown' \in Seq(Entries)
    BY <2>1, <2>2
  <2>5. discarded' \in Nat
    BY <2>2 DEF TypeOK
  <2>6. QED
    BY <1>9, <2>3, <2>4, <2>5 DEF PspFrame, TypeOK
<1>10. CASE SelectFails
  <2>1. kernel' \in Seq(Lines) /\ stdio' \in Seq(Lines) /\ failures' \in Nat
    BY <1>10, EmptySeq DEF SelectFails, TypeOK
  <2>2. QED
    BY <1>10, <2>1 DEF SelectFails, TypeOK
<1>11. CASE GiveUpMonitor \/ Open \/ UNCHANGED vars
  BY <1>11 DEF GiveUpMonitor, Open, vars, TypeOK
<1>12. QED
  BY <1>1, <1>2, <1>3, <1>4, <1>5, <1>6, <1>7, <1>8, <1>9, <1>10, <1>11 DEF Next, Listen

LEMMA PipelineInit == Init => PipelineInv
<1> SUFFICES ASSUME Init PROVE PipelineInv
  OBVIOUS
<1>1. TypeOK
  <2>1. Nothing \in FieldValues
    BY DEF Nothing, FieldValues, LineFields
  <2>2. \A S : <<>> \in Seq(S)
    BY EmptySeq
  <2>3. QED
    BY <2>1, <2>2 DEF Init, TypeOK
<1>2. stream = <<>> /\ path = <<>>
  <2>1. <<>> \o <<>> = <<>>
    OBVIOUS
  <2>2. QED
    BY <2>1 DEF Init, stream, path
<1>3. Printed(stream, calls) /\ TakenInv /\ OrderInv /\ NewerCalls(stream, path)
  BY <1>2 DEF Init, Printed, TakenInv, OrderInv, NewerCalls, Ascending, Below
<1>4. ParserInv
  BY <1>2, <1>3 DEF Init, ParserInv
<1>5. QED
  BY <1>1, <1>3, <1>4 DEF PipelineInv

LEMMA PipelineAlways == Spec => []PipelineInv
<1>1. PipelineInv /\ [Next]_vars => PipelineInv'
  <2> SUFFICES ASSUME PipelineInv, [Next]_vars PROVE PipelineInv'
    OBVIOUS
  <2>1. TypeOK /\ TypeOK'
    BY TypeKeeps DEF PipelineInv
  <2>2. mocks' \in Nat
    BY <2>1 DEF TypeOK
  <2>3. Effect
    BY <2>1, StepEffect
  <2>4. Safe'
    BY <2>1, <2>2, <2>3, CarriedKeeps, CallPrintedKeeps, CallUnheardKeeps, OtherPrintedKeeps,
       StreamCutKeeps, LineParsedKeeps, MockPushedKeeps DEF Effect
  <2>5. QED
    BY <2>1, <2>4 DEF PipelineInv, Safe
<1>2. QED
  BY <1>1, PipelineInit, PTL DEF Spec

-----------------------------------------------------------------------------
\* Whatever strings the calls leave empty and however their lines reach the
\* parser, the application, summary and body of a notification are one call's.
THEOREM FieldsTogetherCorrect == Spec => []FieldsTogether
<1>1. PipelineInv => FieldsTogether
  <2> SUFFICES ASSUME PipelineInv, NEW i \in Real(taken)
               PROVE  LET e == taken[i] IN
                      /\ e.app.call = Owner(e) /\ e.summary.call = Owner(e)
                      /\ calls[Owner(e)] = {} =>
                            /\ e.app.field = "app" /\ e.summary.field = "summary"
                            /\ e.body.field = "body"
    BY DEF FieldsTogether
  <2>1. i \in 1..Len(taken) /\ IsReal(taken[i])
    BY LenProperties DEF PipelineInv, TypeOK, Real, IsReal
  <2>2. FromOneCall(taken[i], calls)
    BY <2>1 DEF PipelineInv, TakenInv
  <2>3. QED
    BY <2>1, <2>2 DEF FromOneCall
<1>2. QED
  BY <1>1, PipelineAlways, PTL

\* Over any number of sessions, failures and disabled spells, the notifications
\* that were shown, are on the wire or wait in the queue are in the order of
\* their calls, and each call has one at most.
THEOREM OnceInOrderCorrect == Spec => []OnceInOrder
<1>1. PipelineInv => OnceInOrder
  <2> SUFFICES ASSUME PipelineInv PROVE OnceInOrder
    OBVIOUS
  <2>1. TypeOK /\ Ascending(path)
    BY DEF PipelineInv, OrderInv
  <2>2. shown \o wire \o queue = path /\ DOMAIN path = 1..Len(path)
    BY <2>1, Parts, LenProperties DEF path
  <2>3. \A i \in Real(path) : i \in 1..Len(path) /\ IsReal(path[i])
    BY <2>2 DEF Real, IsReal
  <2>4. \A i, j \in Real(path) : i < j => Owner(path[i]) < Owner(path[j])
    BY <2>1, <2>3 DEF Ascending
  <2>5. QED
    BY <2>2, <2>4 DEF OnceInOrder
<1>2. QED
  BY <1>1, PipelineAlways, PTL

-----------------------------------------------------------------------------
(***************************************************************************)
(* What was lost: the notifications that left the queue, all of them in    *)
(* "gone", are those of the path and as many more as the counters say.     *)
(***************************************************************************)
sent == shown \o wire

Accounted(gone) ==
    /\ taken = gone \o queue
    /\ Kept(sent, gone)
    /\ Len(gone) = Len(shown) + Len(wire) + dropped + discarded

LossInv ==
    /\ \E gone \in Seq(Entries) : Accounted(gone)
    /\ failures = 0 => dropped = 0

LEMMA KeptTrans ==
    ASSUME NEW a, NEW b, NEW c, Kept(a, b), Kept(b, c)
    PROVE  Kept(a, c)
<1>1. PICK f \in [1..Len(a) -> 1..Len(b)] :
          /\ \A i \in 1..Len(a) : a[i] = b[f[i]]
          /\ \A i, j \in 1..Len(a) : i < j => f[i] < f[j]
  BY DEF Kept
<1>2. PICK g \in [1..Len(b) -> 1..Len(c)] :
          /\ \A i \in 1..Len(b) : b[i] = c[g[i]]
          /\ \A i, j \in 1..Len(b) : i < j => g[i] < g[j]
  BY DEF Kept
<1> DEFINE h == [i \in 1..Len(a) |-> g[f[i]]]
<1>3. \A i \in 1..Len(a) : f[i] \in 1..Len(b) /\ h[i] = g[f[i]] /\ h[i] \in 1..Len(c)
  BY <1>1, <1>2
<1>4. h \in [1..Len(a) -> 1..Len(c)]
  BY <1>3
<1> HIDE DEF h
<1>5. \A i \in 1..Len(a) : a[i] = c[h[i]]
  BY <1>1, <1>2, <1>3
<1>6. \A i, j \in 1..Len(a) : i < j => h[i] < h[j]
  BY <1>1, <1>2, <1>3
<1>7. QED
  BY <1>4, <1>5, <1>6 DEF Kept

LEMMA KeptAppend ==
    ASSUME NEW S, NEW s \in Seq(S), NEW g \in Seq(S), NEW e \in S, Kept(s, g)
    PROVE  Kept(Append(s, e), Append(g, e)) /\ Kept(s, Append(g, e))
<1> DEFINE n == Append(s, e)
           o == Append(g, e)
<1>1. /\ Len(s) \in Nat /\ Len(g) \in Nat
      /\ Len(n) = Len(s) + 1 /\ Len(o) = Len(g) + 1
      /\ n[Len(s) + 1] = e /\ o[Len(g) + 1] = e
      /\ \A i \in 1..Len(s) : n[i] = s[i]
      /\ \A i \in 1..Len(g) : o[i] = g[i]
  BY AppendProperties, LenProperties
<1>2. PICK f \in [1..Len(s) -> 1..Len(g)] :
          /\ \A i \in 1..Len(s) : s[i] = g[f[i]]
          /\ \A i, j \in 1..Len(s) : i < j => f[i] < f[j]
  BY DEF Kept
<1> HIDE DEF n, o
<1>3. \A i \in 1..Len(s) : f[i] \in 1..Len(g)
  BY <1>2
<1>4. Kept(s, o)
  <2>1. f \in [1..Len(s) -> 1..Len(o)]
    BY <1>1, <1>2, <1>3
  <2>2. \A i \in 1..Len(s) : s[i] = o[f[i]]
    BY <1>1, <1>2, <1>3
  <2>3. QED
    BY <1>2, <2>1, <2>2 DEF Kept
<1>5. Kept(n, o)
  <2> DEFINE h == [i \in 1..Len(n) |-> IF i = Len(s) + 1 THEN Len(g) + 1 ELSE f[i]]
  <2>1. \A i \in 1..Len(n) : i \in 1..Len(s) \/ i = Len(s) + 1
    BY <1>1
  <2>2. /\ \A i \in 1..Len(s) : h[i] = f[i] /\ h[i] \in 1..Len(g)
        /\ h[Len(s) + 1] = Len(g) + 1
    BY <1>1, <1>3
  <2>3. h \in [1..Len(n) -> 1..Len(o)]
    BY <1>1, <1>3
  <2> HIDE DEF h
  <2>4. \A i \in 1..Len(n) : n[i] = o[h[i]]
    <3>1. \A i \in 1..Len(s) : n[i] = g[f[i]] /\ o[f[i]] = g[f[i]]
      BY <1>1, <1>2, <1>3
    <3>2. \A i \in 1..Len(s) : n[i] = o[h[i]]
      BY <2>2, <3>1
    <3>3. n[Len(s) + 1] = o[h[Len(s) + 1]]
      BY <1>1, <2>2
    <3>4. QED
      BY <2>1, <3>2, <3>3
  <2>5. ASSUME NEW i \in 1..Len(n), NEW j \in 1..Len(n), i < j
        PROVE  h[i] < h[j]
    <3>1. i \in 1..Len(s)
      BY <1>1, <2>5
    <3>2. CASE j \in 1..Len(s)
      BY <1>2, <2>2, <2>5, <3>1, <3>2
    <3>3. CASE j = Len(s) + 1
      BY <1>1, <2>2, <3>1, <3>3
    <3>4. QED
      BY <2>1, <3>2, <3>3
  <2>6. QED
    BY <2>3, <2>4, <2>5 DEF Kept
<1>6. QED
  BY <1>4, <1>5 DEF n, o

LEMMA LossSteps ==
    ASSUME TypeOK, TypeOK', NEW gone \in Seq(Entries), Accounted(gone)
    PROVE  /\ UNCHANGED <<shown, wire, queue, taken, lostVars>> => Accounted(gone)'
           /\ \A e \in Entries :
                 Push(e) /\ UNCHANGED <<shown, wire, lostVars>> => Accounted(gone)'
           /\ SendNext => \E new \in Seq(Entries) : Accounted(new)'
           /\ Close => Accounted(gone)'
           /\ PspFrame => Accounted(gone)'
<1>1. /\ queue \in Seq(Entries) /\ wire \in Seq(Entries) /\ shown \in Seq(Entries)
      /\ sent \in Seq(Entries) /\ taken \in Seq(Entries)
      /\ Len(shown) \in Nat /\ Len(wire) \in Nat /\ Len(gone) \in Nat
      /\ dropped \in Nat /\ discarded \in Nat
  BY Parts, LenProperties DEF TypeOK, sent
<1>2. /\ taken = gone \o queue /\ Kept(sent, gone)
      /\ Len(gone) = Len(shown) + Len(wire) + dropped + discarded
  BY DEF Accounted
<1>3. UNCHANGED <<shown, wire, queue, taken, lostVars>> => Accounted(gone)'
  BY <1>2 DEF Accounted, sent, lostVars
<1>4. ASSUME NEW e \in Entries, Push(e), UNCHANGED <<shown, wire, lostVars>>
      PROVE  Accounted(gone)'
  <2>1. gone \o Append(queue, e) = Append(gone \o queue, e)
    BY <1>1, AppendLast
  <2>2. taken' = gone \o queue'
    BY <1>2, <1>4, <2>1 DEF Push
  <2>3. QED
    BY <1>2, <1>4, <2>2 DEF Accounted, sent, lostVars
<1>5. ASSUME SendNext PROVE \E new \in Seq(Entries) : Accounted(new)'
  <2> DEFINE e == Head(queue)
             new == Append(gone, e)
  <2>1. /\ queue # <<>> /\ queue' = Tail(queue) /\ e \in Entries
        /\ UNCHANGED <<taken, shown, discarded>>
    BY <1>1, <1>5, HeadTailProperties DEF SendNext
  <2>2. /\ new \in Seq(Entries) /\ Len(new) = Len(gone) + 1
        /\ Append(wire, e) \in Seq(Entries) /\ Len(Append(wire, e)) = Len(wire) + 1
    BY <1>1, <2>1, AppendProperties
  <2>3. taken' = new \o queue'
    <3>1. new \o Tail(queue) = gone \o queue
      BY <1>1, <2>1, MoveHead
    <3>2. QED
      BY <1>2, <2>1, <3>1
  <2>4. Kept(Append(sent, e), new) /\ Kept(sent, new)
    BY <1>1, <1>2, <2>1, KeptAppend
  <2>5. shown \o Append(wire, e) = Append(sent, e)
    BY <1>1, <2>1, AppendLast DEF sent
  <2> HIDE DEF e, new
  <2>6. CASE wire' = Append(wire, e) /\ dropped' = dropped
    <3>1. sent' = Append(sent, e)
      BY <2>1, <2>5, <2>6 DEF sent
    <3>2. Len(new) = Len(shown') + Len(wire') + dropped' + discarded'
      BY <1>1, <1>2, <2>1, <2>2, <2>6
    <3>3. QED
      BY <2>2, <2>3, <2>4, <3>1, <3>2 DEF Accounted
  <2>7. CASE wire' = wire /\ dropped' = dropped + 1
    <3>1. sent' = sent
      BY <2>1, <2>7 DEF sent
    <3>2. Len(new) = Len(shown') + Len(wire') + dropped' + discarded'
      BY <1>1, <1>2, <2>1, <2>2, <2>7
    <3>3. QED
      BY <2>2, <2>3, <2>4, <3>1, <3>2 DEF Accounted
  <2>8. QED
    BY <1>5, <2>6, <2>7 DEF SendNext, e
<1>6. ASSUME Close PROVE Accounted(gone)'
  <2>1. UNCHANGED <<shown, queue, taken, discarded>>
    BY <1>6 DEF Close
  <2>2. CASE UNCHANGED <<wire, dropped>>
    BY <1>2, <2>1, <2>2 DEF Accounted, sent
  <2>3. CASE wire' = <<>> /\ dropped' = dropped + Len(wire)
    <3>1. <<>> \in Seq(Entries) /\ shown \o <<>> = shown /\ (shown \o wire) \o <<>> = sent
      BY <1>1, ConcatEmptySeq, EmptySeq DEF sent
    <3>2. Kept(shown \o <<>>, (shown \o wire) \o <<>>)
      BY <1>1, <3>1, DropMiddle
    <3>3. sent' = shown /\ Kept(shown, gone)
      BY <1>2, <2>1, <2>3, <3>1, <3>2, KeptTrans DEF sent
    <3>4. Len(gone) = Len(shown') + Len(wire') + dropped' + discarded'
      BY <1>1, <1>2, <2>1, <2>3, EmptySeq
    <3>5. QED
      BY <1>2, <2>1, <3>3, <3>4 DEF Accounted
  <2>4. QED
    BY <1>6, <2>2, <2>3 DEF Close
<1>7. ASSUME PspFrame PROVE Accounted(gone)'
  <2> DEFINE rest == Tail(wire)
  <2>1. /\ rest \in Seq(Entries) /\ <<Head(wire)>> \in Seq(Entries)
        /\ Append(shown, Head(wire)) \o rest = sent
        /\ (shown \o <<Head(wire)>>) \o rest = sent
        /\ Len(rest) = Len(wire) - 1
    BY <1>7, WireHead DEF PspFrame, sent
  <2>2. wire' = rest /\ UNCHANGED <<queue, taken, dropped>>
    BY <1>7 DEF PspFrame
  <2> HIDE DEF rest
  <2>6. Len(wire') = Len(wire) - 1
    BY <2>1, <2>2
  <2>3. CASE shown' = Append(shown, Head(wire)) /\ discarded' = discarded
    <3>1. sent' = sent
      BY <2>1, <2>2, <2>3 DEF sent
    <3>2. Len(shown') = Len(shown) + 1
      BY <1>1, <2>3
    <3>3. Len(gone) = Len(shown') + Len(wire') + dropped' + discarded'
      BY <1>1, <1>2, <2>2, <2>3, <2>6, <3>2
    <3>4. QED
      BY <1>2, <2>2, <3>1, <3>3 DEF Accounted
  <2>4. CASE shown' = shown /\ discarded' = discarded + 1
    <3>1. Kept(shown \o rest, (shown \o <<Head(wire)>>) \o rest)
      BY <1>1, <2>1, DropMiddle
    <3>2. sent' = shown \o rest
      BY <2>2, <2>4 DEF sent
    <3>3. Kept(sent', gone)
      BY <1>2, <2>1, <3>1, <3>2, KeptTrans
    <3>4. Len(gone) = Len(shown') + Len(wire') + dropped' + discarded'
      BY <1>1, <1>2, <2>2, <2>4, <2>6
    <3>5. QED
      BY <1>2, <2>2, <3>3, <3>4 DEF Accounted
  <2>5. QED
    BY <1>7, <2>3, <2>4 DEF PspFrame
<1>8. QED
  BY <1>3, <1>4, <1>5, <1>6, <1>7

\* A step of the parser or of the listener pushes one notification, or none.
LEMMA Listened ==
    ASSUME TypeOK, TypeOK', ReadLine \/ PushMock
    PROVE  /\ UNCHANGED <<shown, wire, lostVars, failures>>
           /\ UNCHANGED <<queue, taken>> \/ \E e \in Entries : Push(e)
<1>1. UNCHANGED <<shown, wire, lostVars, failures>>
  BY DEF ReadLine, PushMock, loopVars
<1>2. CASE PushMock
  <2>1. PICK e : e = [app |-> Mock(mocks'), summary |-> Mock(mocks'), body |-> Mock(mocks')]
    OBVIOUS
  <2>2. e \in Entries
    BY <2>1 DEF TypeOK, Entries, FieldValues, Mock
  <2>3. QED
    BY <1>1, <1>2, <2>1, <2>2 DEF PushMock
<1>3. CASE ReadLine
  <2>1. PICK l \in Lines : Parse(l)
    <3>1. LineParsed
      BY <1>3, ReadLineEffect
    <3>2. QED
      BY <3>1, Parts, HeadTailProperties DEF LineParsed
  <2>2. UNCHANGED <<queue, taken>> \/ TakeString(Value(l))
    BY <2>1 DEF Parse
  <2>3. CASE TakeString(Value(l)) /\ stringIndex = 3
    <3>1. PICK e : e = [app |-> appName, summary |-> summary, body |-> Value(l)]
      OBVIOUS
    <3>2. e \in Entries
      BY <2>1, <3>1 DEF TypeOK, Entries, FieldValues, Value, Lines
    <3>3. Push(e)
      BY <2>3, <3>1 DEF TakeString
    <3>4. QED
      BY <1>1, <3>2, <3>3
  <2>4. CASE TakeString(Value(l)) /\ stringIndex # 3
    BY <1>1, <2>4 DEF TakeString
  <2>5. QED
    BY <1>1, <2>2, <2>3, <2>4
<1>4. QED
  BY <1>2, <1>3

LEMMA LossAlways == Spec => [](TypeOK /\ LossInv)
<1>1. Init => TypeOK /\ LossInv
  <2> SUFFICES ASSUME Init PROVE LossInv
    BY PipelineInit DEF PipelineInv
  <2>1. <<>> \in Seq(Entries) /\ <<>> \o <<>> = <<>> /\ Len(<<>>) = 0
    BY EmptySeq
  <2>2. Kept(<<>>, <<>>)
    <3> DEFINE f == [i \in 1..Len(<<>>) |-> i]
    <3>1. 1..Len(<<>>) = {}
      BY <2>1
    <3>2. f \in [1..Len(<<>>) -> 1..Len(<<>>)]
      OBVIOUS
    <3> HIDE DEF f
    <3>3. QED
      BY <3>1, <3>2 DEF Kept
  <2>3. Accounted(<<>>)
    BY <2>1, <2>2 DEF Init, Accounted, sent
  <2>4. QED
    BY <2>1, <2>3 DEF Init, LossInv
<1>2. TypeOK /\ LossInv /\ [Next]_vars => TypeOK' /\ LossInv'
  <2> SUFFICES ASSUME TypeOK, LossInv, [Next]_vars PROVE TypeOK' /\ LossInv'
    OBVIOUS
  <2>1. TypeOK'
    BY TypeKeeps
  <2>2. PICK gone \in Seq(Entries) : Accounted(gone)
    BY DEF LossInv
  <2>3. failures \in Nat /\ dropped \in Nat /\ (failures = 0 => dropped = 0)
    BY DEF TypeOK, LossInv
  <2>4. CASE SendNext
    <3>1. UNCHANGED <<dropped, failures>> \/ failures' = failures + 1
      BY <2>4 DEF SendNext
    <3>3. failures' = 0 => dropped' = 0
      BY <2>3, <3>1
    <3>2. QED
      BY <2>1, <2>2, <2>4, <3>3, LossSteps DEF LossInv
  <2>5. CASE Close
    <3>1. failures' # 0
      BY <2>3, <2>5 DEF Close
    <3>2. QED
      BY <2>1, <2>2, <2>5, <3>1, LossSteps DEF LossInv
  <2>6. CASE PspFrame
    <3>1. UNCHANGED <<failures, dropped>>
      BY <2>6 DEF PspFrame
    <3>2. QED
      BY <2>1, <2>2, <2>3, <2>6, <3>1, LossSteps DEF LossInv
  <2>7. CASE ReadLine \/ PushMock
    <3>1. /\ UNCHANGED <<shown, wire, lostVars, failures>>
          /\ UNCHANGED <<queue, taken>> \/ \E e \in Entries : Push(e)
      BY <2>1, <2>7, Listened
    <3>2. Accounted(gone)'
      BY <2>1, <2>2, <3>1, LossSteps
    <3>3. QED
      BY <2>1, <2>3, <3>1, <3>2 DEF LossInv, lostVars
  <2>8. CASE NotifyCall \/ OtherMessage \/ PrintLine \/ MonitorEnds \/ GiveUpMonitor
             \/ SelectFails \/ Open \/ UNCHANGED vars
    <3>1. UNCHANGED <<shown, wire, queue, taken, lostVars>>
      BY <2>8 DEF NotifyCall, OtherMessage, PrintLine, MonitorEnds, GiveUpMonitor,
         SelectFails, Open, vars, monitorVars, loopVars, lostVars
    <3>2. failures' \in {failures, failures + 1}
      BY <2>8 DEF NotifyCall, OtherMessage, PrintLine, MonitorEnds, GiveUpMonitor,
         SelectFails, Open, vars
    <3>3. Accounted(gone)'
      BY <2>1, <2>2, <3>1, LossSteps
    <3>4. QED
      BY <2>1, <2>3, <3>1, <3>2, <3>3 DEF LossInv, lostVars
  <2>9. QED
    BY <2>4, <2>5, <2>6, <2>7, <2>8 DEF Next, Listen
<1>3. QED
  BY <1>1, <1>2, PTL DEF Spec

\* The two parts of a sequence.
LEMMA SplitParts ==
    ASSUME NEW S, NEW a \in Seq(S), NEW b \in Seq(S)
    PROVE  LET s == a \o b IN
           /\ Len(s) - Len(b) = Len(a)
           /\ SubSeq(s, 1, Len(a)) = a
           /\ SubSeq(s, Len(a) + 1, Len(s)) = b
<1> DEFINE s == a \o b
<1>1. /\ Len(a) \in Nat /\ Len(b) \in Nat /\ s \in Seq(S) /\ Len(s) = Len(a) + Len(b)
      /\ \A i \in 1..Len(s) : s[i] = IF i <= Len(a) THEN a[i] ELSE b[i - Len(a)]
  BY LenProperties, ConcatProperties
<1> HIDE DEF s
<1>2. SubSeq(s, 1, Len(a)) = a
  <2>1. /\ SubSeq(s, 1, Len(a)) \in Seq(S) /\ Len(SubSeq(s, 1, Len(a))) = Len(a)
        /\ \A i \in 1..Len(a) : SubSeq(s, 1, Len(a))[i] = s[i]
    BY <1>1
  <2>2. \A i \in 1..Len(a) : SubSeq(s, 1, Len(a))[i] = a[i]
    BY <1>1, <2>1
  <2>3. QED
    BY <2>1, <2>2, SeqEqual
<1>3. SubSeq(s, Len(a) + 1, Len(s)) = b
  <2> DEFINE t == SubSeq(s, Len(a) + 1, Len(s))
  <2>1. t \in Seq(S) /\ Len(t) = Len(b)
    BY <1>1
  <2>4. ASSUME NEW i \in 1..Len(b) PROVE t[i] = s[Len(a) + i]
    <3>1. i \in 1..(Len(s) - (Len(a) + 1) + 1)
      BY <1>1
    <3>2. t[i] = s[Len(a) + 1 + i - 1]
      BY <1>1, <3>1
    <3>3. QED
      BY <1>1, <3>2
  <2> HIDE DEF t
  <2>2. \A i \in 1..Len(b) : t[i] = b[i]
    BY <1>1, <2>4
  <2>3. t = b
    BY <2>1, <2>2, SeqEqual
  <2>5. QED
    BY <2>3 DEF t
<1>4. QED
  BY <1>1, <1>2, <1>3 DEF s

\* Whatever fails, the queue stays complete and in order, and of what left it
\* exactly as many notifications are missing as a failed send, a lost session or
\* the PSP took along (notification_service.cpp:22-36, main.cpp:298-333,
\* main.c:139-222).
THEOREM LostOnlyByFailureCorrect == Spec => []LostOnlyByFailure
<1>1. TypeOK /\ LossInv => LostOnlyByFailure
  <2> SUFFICES ASSUME TypeOK, LossInv PROVE LostOnlyByFailure
    OBVIOUS
  <2>1. PICK gone \in Seq(Entries) : Accounted(gone)
    BY DEF LossInv
  <2>2. taken = gone \o queue /\ queue \in Seq(Entries)
    BY <2>1 DEF Accounted, TypeOK
  <2>3. /\ Len(taken) - Len(queue) = Len(gone)
        /\ SubSeq(taken, 1, Len(gone)) = gone
        /\ SubSeq(taken, Len(gone) + 1, Len(taken)) = queue
    BY <2>2, SplitParts
  <2>4. Kept(shown \o wire, gone) /\ Len(gone) = Len(shown) + Len(wire) + dropped + discarded
    BY <2>1 DEF Accounted, sent
  <2>5. QED
    BY <2>3, <2>4 DEF LostOnlyByFailure, LossInv
<1>2. QED
  BY <1>1, LossAlways, PTL

=============================================================================
