--------------------------- MODULE Settings_proofs ---------------------------
(***************************************************************************)
(* The settings, for every value of the constants: what a kill of the      *)
(* desktop leaves behind, how far settings can be mixed in the fields and  *)
(* in what the main loop reads, and that the user's choices reach the      *)
(* file. All of it rests on what a request on its way, the fields of       *)
(* ConfigService and the file can hold at any time.                        *)
(***************************************************************************)
EXTENDS SettingsLoop, SequenceTheorems, TLAPS

ConfigRequests == [id : Nat, kind : {"config"}, body : Configs]
StatusRequests == [id : Nat, kind : {"status"}, body : {None}]
SilentRequests == [id : Nat, kind : {"silent"}, body : {None}]
Requests == ConfigRequests \union StatusRequests \union SilentRequests

\* The success of a change carries nothing, the poll all of the fields, if it can
\* be parsed.
Answers == [id : Nat, kind : {"config"}, body : {None}]
               \union [id : Nat, kind : {"status"}, body : Configs \union {None}]

PageTypeOK ==
    /\ widgets \in Configs /\ focus \in Keys \union {None}
    /\ sent \in Seq(Requests) /\ answers \subseteq Answers
    /\ wanted \in Configs /\ posted \in Seq(Configs)
    /\ putBack \in BOOLEAN /\ missed \in BOOLEAN /\ crashes \in Nat

HostTypeOK ==
    /\ phase \in {"down", "loading", "up", "applying", "saving"}
    /\ next \in 1..(NumSettings + 1)
    /\ config \in Configs /\ written \in Configs
    /\ file \in Configs \/ file = Empty \/ file = None
    /\ cut \in BOOLEAN

\* A request that is being served has not been answered yet.
ServingOne ==
    phase \in {"applying", "saving"} => sent # <<>> /\ sent[1].kind = "config"

TypeOK == PageTypeOK /\ HostTypeOK /\ ServingOne

Blend(new, old, n) == [k \in Keys |-> IF k < n THEN new[k] ELSE old[k]]

\* The fields while a request is applied. Without its settings nothing is left to
\* be set.
Half ==
    \E old, new \in Known :
        config = Blend(new, old, next) /\ (new = sent[1].body \/ next = NumSettings + 1)

QueueKnown == \A i \in 1..Len(sent) : sent[i].kind = "config" => sent[i].body \in Known

\* Nothing that could become the settings is a mixture.
KnownInv ==
    /\ phase \notin {"down", "applying"} => config \in Known
    /\ phase = "applying" => Half
    /\ file \in {Empty, None} \union Known /\ written \in Known
    /\ QueueKnown

\* The file is the last one saved, or empty as a save has left it.
SavedInv ==
    /\ phase \in {"loading", "saving"} => cut
    /\ cut => file = Empty
    /\ ~cut => file = written \/ file = None

IsConfig(i) == sent[i].kind = "config"

LastPosted == posted[Len(posted)]

\* While nothing has failed: the file is as the fields, unless a request is being
\* applied or saved, and before the desktop is up nothing has been submitted.
SteadyInv ==
    /\ phase \in {"down", "loading"} => posted = <<>> /\ sent = <<>>
    /\ phase = "down" => file = None
    /\ phase = "up" => file = config

\* The last request that waits and carries settings carries the last submitted.
LastInQueue ==
    /\ \A i \in 1..Len(sent) :
          IsConfig(i) /\ (\A j \in (i + 1)..Len(sent) : ~IsConfig(j))
              => posted # <<>> /\ sent[i].body = LastPosted
    /\ posted # <<>> /\ (\A i \in 1..Len(sent) : ~IsConfig(i))
              => config = LastPosted

\* The fields are those of the request being served, as far as they are set.
ServedInv ==
    /\ phase = "applying" => \A k \in Keys : k < next => config[k] = sent[1].body[k]
    /\ phase = "saving" => config = sent[1].body

\* The page shows the user's choices, and has submitted them, until an answer
\* puts one back.
ChoiceInv ==
    ~putBack => widgets = wanted /\ (posted # <<>> => LastPosted = wanted)

Steady == crashes = 0 /\ ~missed

SettingsInv ==
    /\ TypeOK /\ KnownInv /\ SavedInv /\ ChoiceInv
    /\ Steady => SteadyInv /\ LastInQueue /\ ServedInv

-----------------------------------------------------------------------------
LEMMA Defaults == /\ Default \in Configs /\ None \notin Configs /\ None \notin Keys
                  /\ MaxCrashes \in Nat /\ NumSettings \in Nat \ {0}
BY SettingsAssumption

\* Reading any file the desktop can find gives settings.
LEMMA LoadedIs ==
    /\ file \in {Empty, None} => Loaded = Default
    /\ file \in Configs => Loaded = file
<1>1. Default \in [Keys -> Values] /\ None \notin [Keys -> Values]
  BY Defaults DEF Configs
<1>2. ASSUME file \in {Empty, None} PROVE Loaded = Default
  <2>1. \A k \in Keys : Loaded[k] = Default[k]
    BY <1>2 DEF Loaded, Empty
  <2>2. QED
    BY <1>1, <2>1 DEF Loaded
<1>3. ASSUME file \in Configs PROVE Loaded = file
  <2>1. file \in [Keys -> Values] /\ file # None /\ DOMAIN file = Keys
    BY <1>1, <1>3 DEF Configs
  <2>2. Loaded = [k \in Keys |-> file[k]]
    BY <2>1 DEF Loaded
  <2>3. QED
    BY <2>1, <2>2
<1>4. QED
  BY <1>2, <1>3

\* What a step of the page puts into the queue, and what it leaves there.
LEMMA SendEffect ==
    ASSUME NEW kind \in {"config", "status"}, NEW body,
           kind = "config" => body \in Configs, kind = "status" => body = None,
           SendFrom(kind, body)
    PROVE  \E r \in Requests : /\ r.kind = kind /\ r.body = body
                               /\ sent' = Append(sent, r)
<1>1. PICK id \in 1..MaxFlights : sent' = Append(sent, Request(id, kind, body))
  BY DEF SendFrom
<1>2. MaxFlights \in Nat
  BY SettingsAssumption
<1>3. Request(id, kind, body) \in Requests
  BY <1>2 DEF Request, Requests, ConfigRequests, StatusRequests, SilentRequests
<1>4. QED
  BY <1>1, <1>3 DEF Request

LEMMA ServingFacts ==
    ASSUME TypeOK, NEW kind, Serving(kind)
    PROVE  /\ phase = "up" /\ sent # <<>> /\ 1 \in 1..Len(sent)
           /\ Head(sent) = sent[1] /\ sent[1] \in Requests /\ sent[1].kind = kind
           /\ kind = "config" => sent[1].body \in Configs
<1>1. sent # <<>> /\ sent \in Seq(Requests) /\ phase = "up" /\ Head(sent).kind = kind
  BY DEF Serving, TypeOK, PageTypeOK
<1>2. Len(sent) \in Nat \ {0} /\ Head(sent) = sent[1] /\ sent[1] \in Requests
  BY <1>1, EmptySeq, HeadTailProperties
<1>3. sent[1].kind = "config" => sent[1].body \in Configs
  BY <1>2 DEF Requests, ConfigRequests, StatusRequests, SilentRequests
<1>4. QED
  BY <1>1, <1>2, <1>3

\* So it is for as long as a request is applied or saved.
LEMMA ServedFacts ==
    ASSUME TypeOK, phase \in {"applying", "saving"}
    PROVE  /\ sent # <<>> /\ 1 \in 1..Len(sent) /\ Head(sent) = sent[1]
           /\ sent[1] \in Requests /\ sent[1].kind = "config"
           /\ sent[1].body \in Configs
<1>1. sent # <<>> /\ sent \in Seq(Requests) /\ sent[1].kind = "config"
  BY DEF TypeOK, PageTypeOK, ServingOne
<1>2. Len(sent) \in Nat \ {0} /\ Head(sent) = sent[1] /\ sent[1] \in Requests
  BY <1>1, EmptySeq, HeadTailProperties
<1>3. sent[1].body \in Configs
  BY <1>1, <1>2 DEF Requests, ConfigRequests, StatusRequests, SilentRequests
<1>4. QED
  BY <1>1, <1>2, <1>3

\* An answer takes the request out of the queue.
LEMMA AnsweredType ==
    ASSUME TypeOK, sent # <<>>, NEW body, Answered(Head(sent), body),
           Head(sent).kind = "config" => body = None,
           Head(sent).kind = "status" => body \in Configs \union {None},
           Head(sent).kind # "silent"
    PROVE  sent' \in Seq(Requests) /\ answers' \subseteq Answers
<1>1. Head(sent) \in Requests /\ Tail(sent) \in Seq(Requests)
  BY HeadTailProperties DEF TypeOK, PageTypeOK
<1>2. [Head(sent) EXCEPT !.body = body] \in Answers
  BY <1>1 DEF Requests, ConfigRequests, StatusRequests, SilentRequests, Answers
<1>3. QED
  BY <1>1, <1>2 DEF Answered, TypeOK, PageTypeOK

LEMMA Appended ==
    ASSUME NEW r \in Requests, sent \in Seq(Requests), sent' = Append(sent, r)
    PROVE  /\ sent' \in Seq(Requests) /\ sent' # <<>>
           /\ Len(sent) \in Nat /\ Len(sent') = Len(sent) + 1
           /\ \A i \in 1..Len(sent) : sent'[i] = sent[i]
           /\ sent'[Len(sent) + 1] = r
           /\ sent # <<>> => sent'[1] = sent[1]
<1>1. sent # <<>> => 1 \in 1..Len(sent)
  BY EmptySeq
<1>2. QED
  BY <1>1, AppendProperties, LenProperties

LEMMA SilentRequest == Silent \in Requests /\ Silent.kind = "silent"
BY DEF Silent, Request, Requests, SilentRequests

LEMMA TailTaken ==
    ASSUME sent \in Seq(Requests), sent # <<>>, sent' = Tail(sent)
    PROVE  /\ sent' \in Seq(Requests)
           /\ Len(sent) \in Nat \ {0} /\ Len(sent') = Len(sent) - 1
           /\ \A i \in 1..Len(sent') : sent'[i] = sent[i + 1]
BY HeadTailProperties, EmptySeq

-----------------------------------------------------------------------------
LEMMA TypeStep ==
    ASSUME TypeOK, [Next]_vars
    PROVE  TypeOK'
<1> USE DEF TypeOK, PageTypeOK, HostTypeOK, ServingOne
<1>1. ASSUME NEW k \in Keys \union {None}, Focus(k) PROVE TypeOK'
  BY <1>1 DEF Focus, hostVars, histVars
<1>2. ASSUME NEW v \in Values, SubmitConfig(v) PROVE TypeOK'
  <2>1. widgets' \in Configs /\ wanted' \in Configs
    BY <1>2 DEF SubmitConfig, Configs
  <2>2. posted' \in Seq(Configs)
    BY <1>2, <2>1, AppendProperties DEF SubmitConfig
  <2>3. sent' \in Seq(Requests) /\ ServingOne'
    <3>1. CASE UNCHANGED sent
      BY <1>2, <3>1 DEF SubmitConfig, hostVars
    <3>2. CASE SendFrom("config", widgets')
      BY <1>2, <2>1, <3>2, SendEffect, Appended DEF SubmitConfig, hostVars
    <3>3. QED
      BY <1>2, <3>1, <3>2 DEF SubmitConfig
  <2>4. QED
    BY <1>2, <2>1, <2>2, <2>3 DEF SubmitConfig, hostVars
<1>3. CASE FetchStatus
  <2>1. sent' \in Seq(Requests) /\ ServingOne'
    BY <1>3, SendEffect, Appended DEF FetchStatus, hostVars
  <2>2. QED
    BY <1>3, <2>1 DEF FetchStatus, hostVars, histVars
<1>4. ASSUME NEW a \in answers, ShowAnswer(a) PROVE TypeOK'
  <2>1. a.kind = "status" => a.body \in Configs \union {None}
    BY <1>4 DEF Answers
  <2>2. widgets' \in Configs
    BY <1>4, <2>1 DEF ShowAnswer, Refresh, Configs
  <2>3. putBack' \in BOOLEAN /\ answers' \subseteq Answers
    BY <1>4 DEF ShowAnswer
  <2>4. QED
    BY <1>4, <2>2, <2>3 DEF ShowAnswer, hostVars
<1>5. CASE AnswerStatus
  <2>1. sent' \in Seq(Requests) /\ answers' \subseteq Answers
    BY <1>5, AnsweredType DEF AnswerStatus, Serving
  <2>2. phase' = "up"
    BY <1>5 DEF AnswerStatus, Serving, hostVars
  <2>3. QED
    BY <1>5, <2>1, <2>2 DEF AnswerStatus, hostVars, histVars
<1>6. CASE BeginSave
  BY <1>6, Defaults DEF BeginSave, Applied, pageVars
<1>7. CASE SaveFails
  <2>1. Head(sent).kind = "config" /\ sent # <<>>
    BY <1>7, ServedFacts DEF SaveFails, Applied
  <2>2. sent' \in Seq(Requests) /\ answers' \subseteq Answers
    BY <1>7, <2>1, AnsweredType DEF SaveFails
  <2>3. QED
    BY <1>7, <2>2, Defaults DEF SaveFails
<1>8. CASE EndSave
  <2>1. sent' \in Seq(Requests) /\ answers' \subseteq Answers
    <3>1. CASE phase = "saving"
      <4>1. sent # <<>> /\ Head(sent).kind = "config"
        BY <3>1, ServedFacts
      <4>2. Answered(Head(sent), None)
        BY <1>8, <3>1 DEF EndSave
      <4>3. QED
        BY <4>1, <4>2, AnsweredType
    <3>2. CASE phase # "saving"
      BY <1>8, <3>2 DEF EndSave
    <3>3. QED
      BY <3>1, <3>2
  <2>2. QED
    BY <1>8, <2>1 DEF EndSave, Lines
<1>13. CASE Connect
  <2>1. sent' \in Seq(Requests) /\ ServingOne'
    BY <1>13, SilentRequest, Appended DEF Connect, hostVars
  <2>2. QED
    BY <1>13, <2>1 DEF Connect, hostVars, histVars
<1>14. CASE HangUp
  <2>1. sent' \in Seq(Requests) /\ phase' = "up"
    BY <1>14, TailTaken DEF HangUp, Serving, hostVars
  <2>2. QED
    BY <1>14, <2>1 DEF HangUp, hostVars, histVars
<1>15. CASE TakeRequest
  <2>1. sent' # <<>> /\ sent'[1].kind = "config"
    BY <1>15, ServingFacts DEF TakeRequest, pageVars
  <2>2. next' \in {1, NumSettings + 1} /\ missed' \in {missed, TRUE}
    BY <1>15 DEF TakeRequest
  <2>4. next' \in 1..(NumSettings + 1)
    BY <2>2, Defaults
  <2>5. missed' \in BOOLEAN
    BY <2>2
  <2>3. QED
    BY <1>15, <2>1, <2>4, <2>5 DEF TakeRequest, pageVars
<1>16. CASE SetField
  <2>1. config' \in Configs
    <3>1. sent[1].body \in Configs /\ Head(sent) = sent[1]
      BY <1>16, ServedFacts DEF SetField
    <3>2. QED
      BY <1>16, <3>1 DEF SetField, Configs
  <2>2. next' \in 1..(NumSettings + 1)
    BY <1>16, Defaults DEF SetField, Keys
  <2>3. QED
    BY <1>16, <2>1, <2>2 DEF SetField, pageVars, histVars
<1>9. CASE Crash
  BY <1>9, EmptySeq, Defaults DEF Crash
<1>10. CASE Start
  <2>1. Loaded \in Configs
    BY LoadedIs, Defaults
  <2>2. QED
    BY <1>10, <2>1 DEF Start, pageVars
<1>11. CASE UNCHANGED vars
  BY <1>11 DEF vars, pageVars, hostVars, histVars
<1>12. QED
  BY <1>1, <1>2, <1>3, <1>4, <1>5, <1>6, <1>7, <1>8, <1>9, <1>10, <1>11,
     <1>13, <1>14, <1>15, <1>16 DEF Next, Serve

-----------------------------------------------------------------------------
(***************************************************************************)
(* What the settings can be.                                               *)
(***************************************************************************)
\* What was known stays known.
LEMMA Elements ==
    ASSUME NEW p \in Seq(Configs)
    PROVE  {p[i] : i \in DOMAIN p} = {p[i] : i \in 1..Len(p)}
BY LenProperties

LEMMA KnownIs ==
    ASSUME TypeOK
    PROVE  /\ Known = {Default} \union {posted[i] : i \in 1..Len(posted)}
           /\ Known \subseteq Configs
<1>1. posted \in Seq(Configs) /\ DOMAIN posted = 1..Len(posted)
  BY LenProperties DEF TypeOK, PageTypeOK
<1>2. QED
  BY <1>1, Defaults, ElementOfSeq DEF Known

LEMMA KnownStays ==
    ASSUME TypeOK, [Next]_vars
    PROVE  Known \subseteq Known'
<1>1. CASE UNCHANGED posted
  BY <1>1 DEF Known
<1>2. ASSUME NEW v \in Values, SubmitConfig(v) PROVE Known \subseteq Known'
  <2>1. widgets' \in Configs /\ posted \in Seq(Configs)
    BY <1>2 DEF SubmitConfig, TypeOK, PageTypeOK, Configs
  <2>2. /\ \A i \in 1..Len(posted) : posted'[i] = posted[i]
        /\ Len(posted) \in Nat /\ Len(posted') = Len(posted) + 1
    BY <1>2, <2>1, AppendProperties, LenProperties DEF SubmitConfig
  <2>3. posted \in Seq(Configs) /\ posted' \in Seq(Configs)
    BY TypeStep DEF TypeOK, PageTypeOK
  <2>4. /\ Known = {Default} \union {posted[i] : i \in 1..Len(posted)}
        /\ Known' = {Default} \union {posted'[i] : i \in 1..Len(posted')}
    BY <2>3, Elements DEF Known
  <2>5. QED
    BY <2>2, <2>4
<1>3. QED
  BY <1>1, <1>2 DEF Next, Serve, Focus, FetchStatus, ShowAnswer, AnswerStatus,
     TakeRequest, SetField, BeginSave, SaveFails, EndSave, Connect, HangUp, Crash,
     Start, pageVars, histVars, vars

LEMMA QueueKnownStep ==
    ASSUME TypeOK, KnownInv, [Next]_vars
    PROVE  QueueKnown'
<1>1. QueueKnown
  BY DEF KnownInv, QueueKnown
<1>2. CASE UNCHANGED sent
  BY <1>1, <1>2, KnownStays DEF QueueKnown
<1>3. ASSUME NEW r \in Requests, sent' = Append(sent, r),
             r.kind = "config" => r.body \in Known'
      PROVE  QueueKnown'
  <2>1. sent \in Seq(Requests)
    BY DEF TypeOK, PageTypeOK
  <2>2. \A i \in 1..Len(sent) : sent[i].kind = "config" => sent[i].body \in Known'
    BY <1>1, KnownStays DEF QueueKnown
  <2>3. QED
    BY <1>3, <2>1, <2>2, Appended DEF QueueKnown
<1>4. CASE sent # <<>> /\ sent' = Tail(sent)
  <2>1. sent \in Seq(Requests)
    BY DEF TypeOK, PageTypeOK
  <2>2. \A i \in 1..Len(sent) : sent[i].kind = "config" => sent[i].body \in Known'
    BY <1>1, KnownStays DEF QueueKnown
  <2>3. QED
    BY <1>4, <2>1, <2>2, TailTaken DEF QueueKnown
<1>5. CASE sent' = <<>>
  BY <1>5, EmptySeq DEF QueueKnown
<1>6. ASSUME NEW v \in Values, SubmitConfig(v) PROVE QueueKnown'
  <2>1. widgets' \in Configs /\ posted \in Seq(Configs)
    BY <1>6 DEF SubmitConfig, TypeOK, PageTypeOK, Configs
  <2>2. widgets' \in Known'
    <3>1. posted'[Len(posted')] = widgets' /\ Len(posted') \in 1..Len(posted')
      BY <1>6, <2>1, AppendProperties, LenProperties DEF SubmitConfig
    <3>2. posted' \in Seq(Configs)
      BY TypeStep DEF TypeOK, PageTypeOK
    <3>3. Known' = {Default} \union {posted'[i] : i \in 1..Len(posted')}
      BY <3>2, Elements DEF Known
    <3>4. QED
      BY <3>1, <3>3
  <2>3. CASE SendFrom("config", widgets')
    BY <1>3, <2>1, <2>2, <2>3, SendEffect
  <2>4. QED
    BY <1>2, <1>6, <2>3 DEF SubmitConfig
<1>7. CASE FetchStatus
  BY <1>3, <1>7, SendEffect DEF FetchStatus
<1>8. CASE EndSave \/ SaveFails
  BY <1>2, <1>4, <1>8, ServedFacts DEF EndSave, SaveFails, Applied, Answered
<1>9. CASE AnswerStatus \/ HangUp
  BY <1>4, <1>9 DEF AnswerStatus, HangUp, Serving, Answered
<1>12. CASE Connect
  BY <1>3, <1>12, SilentRequest DEF Connect
<1>10. CASE Crash
  BY <1>5, <1>10 DEF Crash
<1>11. QED
  BY <1>2, <1>6, <1>7, <1>8, <1>9, <1>10, <1>12
     DEF Next, Serve, Focus, ShowAnswer, TakeRequest, SetField, BeginSave, Start,
         pageVars, vars

\* A step that neither begins nor ends to apply a request leaves what is set.
LEMMA HalfStays ==
    ASSUME TypeOK, Half, UNCHANGED <<config, next, sent[1]>>, Known \subseteq Known'
    PROVE  Half'
BY DEF Half

LEMMA HeadStays ==
    ASSUME TypeOK, phase = "applying", phase' = "applying", [Next]_vars
    PROVE  UNCHANGED sent[1]
<1>1. sent # <<>> /\ sent \in Seq(Requests)
  BY DEF TypeOK, PageTypeOK, ServingOne
<1>2. ASSUME NEW r \in Requests, sent' = Append(sent, r) PROVE UNCHANGED sent[1]
  BY <1>1, <1>2, Appended
<1>3. ASSUME NEW v \in Values, SubmitConfig(v) PROVE UNCHANGED sent[1]
  <2>1. widgets' \in Configs
    BY <1>3 DEF SubmitConfig, TypeOK, PageTypeOK, Configs
  <2>2. QED
    BY <1>2, <1>3, <2>1, SendEffect DEF SubmitConfig
<1>4. CASE FetchStatus
  BY <1>2, <1>4, SendEffect DEF FetchStatus
<1>5. CASE Connect
  BY <1>2, <1>5, SilentRequest DEF Connect
<1>6. QED
  BY <1>3, <1>4, <1>5 DEF Next, Serve, Focus, ShowAnswer, AnswerStatus,
     TakeRequest, SetField, BeginSave, SaveFails, EndSave, HangUp, Serving, Crash,
     Start, pageVars, hostVars, vars

\* Once all of the fields are set they belong together.
LEMMA AppliedKnown ==
    ASSUME TypeOK, KnownInv, Applied
    PROVE  config \in Known
<1>1. PICK old \in Known, new \in Known : config = Blend(new, old, NumSettings + 1)
  BY DEF KnownInv, Half, Applied
<1>2. new \in [Keys -> Values]
  BY KnownIs DEF Configs
<1>3. \A k \in Keys : k < NumSettings + 1
  BY Defaults DEF Keys
<1>4. config = [k \in Keys |-> new[k]]
  BY <1>1, <1>3 DEF Blend
<1>5. QED
  BY <1>2, <1>4

LEMMA ConfigKnownStep ==
    ASSUME TypeOK, KnownInv, [Next]_vars
    PROVE  /\ phase' \notin {"down", "applying"} => config' \in Known'
           /\ phase' = "applying" => Half'
<1>1. Known \subseteq Known' /\ Known \subseteq Configs
  BY KnownStays, KnownIs
<1>2. CASE UNCHANGED <<phase, config, next>>
  <2>1. phase = "applying" => Half'
    BY <1>1, <1>2, HeadStays, HalfStays DEF KnownInv
  <2>2. QED
    BY <1>1, <1>2, <2>1 DEF KnownInv
<1>3. CASE TakeRequest
  <2>1. /\ phase = "up" /\ phase' = "applying" /\ config' = config /\ config \in Known
        /\ config \in [Keys -> Values]
    BY <1>3, <1>1 DEF TakeRequest, Serving, KnownInv, Configs
  <2>2. sent[1].body \in Known /\ sent' = sent
    BY <1>3, ServingFacts DEF TakeRequest, KnownInv, QueueKnown, pageVars
  <2>3. CASE next' = 1
    <3>1. \A k \in Keys : ~(k < 1)
      BY Defaults DEF Keys
    <3>2. config = Blend(sent[1].body, config, 1)
      BY <2>1, <3>1 DEF Blend
    <3>3. QED
      BY <1>1, <2>1, <2>2, <2>3, <3>2 DEF Half
  <2>4. CASE next' = NumSettings + 1
    <3>1. config = Blend(config, config, NumSettings + 1)
      BY <2>1 DEF Blend
    <3>2. QED
      BY <1>1, <2>1, <2>4, <3>1 DEF Half
  <2>5. QED
    BY <1>3, <2>1, <2>3, <2>4 DEF TakeRequest
<1>4. CASE SetField
  <2>1. /\ phase = "applying" /\ phase' = "applying" /\ next \in Keys
        /\ next' = next + 1 /\ sent' = sent
        /\ config' = [config EXCEPT ![next] = Head(sent).body[next]]
    BY <1>4 DEF SetField, pageVars
  <2>2. PICK old \in Known, new \in Known :
            config = Blend(new, old, next) /\ (new = sent[1].body \/ next = NumSettings + 1)
    BY <2>1 DEF KnownInv, Half
  <2>3. Head(sent) = sent[1] /\ next \in Nat /\ next # NumSettings + 1
    BY <2>1, ServedFacts, Defaults DEF Keys
  <2>4. new = sent[1].body
    BY <2>2, <2>3
  <2>5. config' = [config EXCEPT ![next] = new[next]]
    BY <2>1, <2>3, <2>4
  <2>6. config' = Blend(new, old, next + 1)
    <3>1. \A k \in Keys : k < next + 1 <=> k < next \/ k = next
      BY <2>3 DEF Keys
    <3>2. config' = [k \in Keys |-> IF k = next THEN new[k] ELSE config[k]]
      BY <2>2, <2>5 DEF Blend
    <3>3. QED
      BY <2>2, <3>1, <3>2 DEF Blend
  <2>7. QED
    BY <1>1, <2>1, <2>4, <2>6 DEF Half
<1>5. CASE BeginSave \/ SaveFails
  <2>1. config' = config /\ Applied /\ phase' # "applying"
    BY <1>5 DEF BeginSave, SaveFails
  <2>2. QED
    BY <1>1, <2>1, AppliedKnown
<1>6. CASE EndSave
  BY <1>1, <1>6 DEF EndSave, KnownInv
<1>7. CASE Crash
  BY <1>7 DEF Crash
<1>8. CASE Start
  <2>1. Loaded = Default \/ (Loaded = file /\ file \in Known)
    <3>1. CASE file \in {Empty, None}
      BY <3>1, LoadedIs
    <3>2. CASE file \notin {Empty, None}
      BY <3>2, LoadedIs DEF KnownInv, TypeOK, HostTypeOK
    <3>3. QED
      BY <3>1, <3>2
  <2>2. Loaded \in Known
    BY <2>1 DEF Known
  <2>3. QED
    BY <1>1, <1>8, <2>2 DEF Start
<1>9. QED
  BY <1>2, <1>3, <1>4, <1>5, <1>6, <1>7, <1>8
     DEF Next, Serve, Focus, SubmitConfig, FetchStatus, ShowAnswer, AnswerStatus,
         Connect, HangUp, hostVars, vars

LEMMA KnownStep ==
    ASSUME TypeOK, KnownInv, [Next]_vars
    PROVE  KnownInv'
<1>1. QueueKnown' /\ Known \subseteq Known'
  BY QueueKnownStep, KnownStays
<1>2. /\ phase' \notin {"down", "applying"} => config' \in Known'
      /\ phase' = "applying" => Half'
  BY ConfigKnownStep
<1>3. file' \in {Empty, None} \union Known' /\ written' \in Known'
  <2>1. CASE UNCHANGED <<file, written>>
    BY <1>1, <2>1 DEF KnownInv
  <2>2. CASE EndSave
    BY <1>1, <2>2 DEF EndSave, Lines, KnownInv
  <2>3. CASE BeginSave \/ Start
    BY <1>1, <2>3 DEF BeginSave, Start, KnownInv
  <2>4. QED
    BY <2>1, <2>2, <2>3
       DEF Next, Serve, Focus, SubmitConfig, FetchStatus, ShowAnswer, AnswerStatus,
           TakeRequest, SetField, SaveFails, Connect, HangUp, Crash, pageVars,
           hostVars, histVars, vars
<1>4. QED
  BY <1>1, <1>2, <1>3 DEF KnownInv

-----------------------------------------------------------------------------
(***************************************************************************)
(* The file, over kills and saves that fail.                               *)
(***************************************************************************)
LEMMA SavedStep ==
    ASSUME SavedInv, [Next]_vars
    PROVE  SavedInv'
<1> USE DEF SavedInv
<1>1. CASE UNCHANGED <<phase, file, written, cut>>
  BY <1>1
<1>2. CASE TakeRequest \/ BeginSave \/ SaveFails
  BY <1>2 DEF TakeRequest, BeginSave, SaveFails, pageVars
<1>3. CASE EndSave
  BY <1>3 DEF EndSave, Lines
<1>4. CASE Crash \/ Start
  BY <1>4 DEF Crash, Start
<1>5. QED
  BY <1>1, <1>2, <1>3, <1>4
     DEF Next, Serve, Focus, SubmitConfig, FetchStatus, ShowAnswer, AnswerStatus,
         SetField, Connect, HangUp, hostVars, histVars, vars

-----------------------------------------------------------------------------
(***************************************************************************)
(* The user's choices, on their way to the file.                           *)
(***************************************************************************)
\* The history of submitted settings grows at its end.
LEMMA Submitted ==
    ASSUME TypeOK, NEW v \in Values, SubmitConfig(v)
    PROVE  /\ widgets' \in Configs /\ wanted' \in Configs
           /\ posted' # <<>> /\ LastPosted' = widgets'
<1>1. widgets' \in Configs /\ wanted' \in Configs /\ posted \in Seq(Configs)
  BY DEF SubmitConfig, TypeOK, PageTypeOK, Configs
<1>2. /\ posted' # <<>> /\ Len(posted') = Len(posted) + 1
      /\ posted'[Len(posted) + 1] = widgets'
  BY <1>1, AppendProperties DEF SubmitConfig
<1>3. QED
  BY <1>1, <1>2 DEF LastPosted

LEMMA ChoiceStep ==
    ASSUME TypeOK, ChoiceInv, [Next]_vars
    PROVE  ChoiceInv'
<1>1. CASE UNCHANGED <<widgets, wanted, posted, putBack>>
  BY <1>1 DEF ChoiceInv, LastPosted
<1>2. ASSUME NEW v \in Values, SubmitConfig(v) PROVE ChoiceInv'
  <2>1. widgets = wanted => widgets' = wanted'
    BY <1>2 DEF SubmitConfig
  <2>2. QED
    BY <1>2, <2>1, Submitted DEF ChoiceInv, SubmitConfig
<1>3. ASSUME NEW a \in answers, ShowAnswer(a) PROVE ChoiceInv'
  <2>1. TypeOK'
    BY TypeStep
  <2>2. UNCHANGED <<wanted, posted>>
    BY <1>3 DEF ShowAnswer
  <2>3. ASSUME ~putBack' PROVE ~putBack /\ widgets' = wanted
    <3>1. /\ ~putBack
          /\ ~\E k \in Keys : widgets[k] = wanted[k] /\ widgets'[k] # wanted[k]
      BY <1>3, <2>3 DEF ShowAnswer
    <3>2. \A k \in Keys : widgets'[k] = wanted[k]
      BY <3>1 DEF ChoiceInv
    <3>3. widgets' \in [Keys -> Values] /\ wanted \in [Keys -> Values]
      BY <2>1 DEF TypeOK, PageTypeOK, Configs
    <3>4. QED
      BY <3>1, <3>2, <3>3
  <2>4. QED
    BY <2>2, <2>3 DEF ChoiceInv, LastPosted
<1>4. QED
  BY <1>1, <1>2, <1>3
     DEF Next, Serve, Focus, FetchStatus, AnswerStatus, TakeRequest, SetField,
         BeginSave, SaveFails, EndSave, Connect, HangUp, Crash, Start, pageVars,
         histVars, vars

LEMMA QueueAppend ==
    ASSUME TypeOK, LastInQueue, NEW r \in Requests, sent' = Append(sent, r),
           \/ r.kind = "config" /\ posted' # <<>> /\ r.body = LastPosted'
           \/ r.kind # "config" /\ UNCHANGED <<posted, config>>
    PROVE  LastInQueue'
<1>1. sent \in Seq(Requests)
  BY DEF TypeOK, PageTypeOK
<1>2. CASE r.kind = "config"
  <2>1. /\ Len(sent) \in Nat /\ Len(sent') = Len(sent) + 1
        /\ sent'[Len(sent) + 1] = r
    BY <1>1, Appended
  <2>2. ASSUME NEW i \in 1..Len(sent'),
               \A j \in (i + 1)..Len(sent') : sent'[j].kind # "config"
        PROVE  i = Len(sent) + 1
    <3>1. ~(Len(sent) + 1 \in (i + 1)..Len(sent'))
      BY <1>2, <2>1, <2>2
    <3>2. QED
      BY <2>1, <3>1
  <2>3. Len(sent) + 1 \in 1..Len(sent')
    BY <2>1
  <2>4. QED
    BY <1>2, <2>1, <2>2, <2>3 DEF LastInQueue, IsConfig
<1>3. CASE r.kind # "config" /\ UNCHANGED <<posted, config>>
  BY <1>1, <1>3, Appended DEF LastInQueue, IsConfig, LastPosted
<1>4. QED
  BY <1>2, <1>3

LEMMA QueueTail ==
    ASSUME TypeOK, LastInQueue, sent # <<>>, sent' = Tail(sent),
           UNCHANGED <<posted, config>>, IsConfig(1) => config = sent[1].body
    PROVE  LastInQueue'
<1>1. sent \in Seq(Requests)
  BY DEF TypeOK, PageTypeOK
<1>2. /\ Len(sent) \in Nat \ {0} /\ Len(sent') = Len(sent) - 1
      /\ \A i \in 1..Len(sent') : sent'[i] = sent[i + 1]
  BY <1>1, TailTaken
<1>3. ASSUME NEW i \in 1..Len(sent'), sent'[i].kind = "config",
             \A j \in (i + 1)..Len(sent') : sent'[j].kind # "config"
      PROVE  posted # <<>> /\ sent'[i].body = LastPosted
  <2>1. i + 1 \in 1..Len(sent) /\ sent[i + 1].kind = "config"
    BY <1>2, <1>3
  <2>2. ASSUME NEW j \in ((i + 1) + 1)..Len(sent)
        PROVE  sent[j].kind # "config"
    <3>1. j - 1 \in (i + 1)..Len(sent') /\ j - 1 \in 1..Len(sent')
          /\ (j - 1) + 1 = j
      BY <1>2
    <3>2. QED
      BY <1>2, <1>3, <3>1
  <2>3. QED
    BY <1>2, <2>1, <2>2 DEF LastInQueue, IsConfig
<1>4. ASSUME posted # <<>>, \A i \in 1..Len(sent') : sent'[i].kind # "config"
      PROVE  config = LastPosted
  <2>1. ASSUME NEW j \in 2..Len(sent) PROVE ~IsConfig(j)
    <3>1. j - 1 \in 1..Len(sent') /\ (j - 1) + 1 = j
      BY <1>2
    <3>2. QED
      BY <1>2, <1>4, <3>1 DEF IsConfig
  <2>2. 1 \in 1..Len(sent)
    BY <1>2
  <2>3. CASE IsConfig(1)
    BY <1>2, <2>1, <2>2, <2>3 DEF LastInQueue
  <2>4. CASE ~IsConfig(1)
    <3>1. \A j \in 1..Len(sent) : ~IsConfig(j)
      BY <1>2, <2>1, <2>4
    <3>2. QED
      BY <1>4, <3>1 DEF LastInQueue
  <2>5. QED
    BY <2>3, <2>4
<1>5. QED
  BY <1>3, <1>4 DEF LastInQueue, IsConfig, LastPosted

LEMMA SteadyStep ==
    ASSUME TypeOK, SteadyInv, ~missed', crashes = 0, crashes' = 0, [Next]_vars
    PROVE  SteadyInv'
<1> USE DEF SteadyInv
<1>1. ASSUME NEW k, Focus(k) PROVE SteadyInv'
  BY <1>1 DEF Focus, hostVars, histVars
<1>2. ASSUME NEW v \in Values, SubmitConfig(v) PROVE SteadyInv'
  BY <1>2 DEF SubmitConfig, PageOpen, Reachable, hostVars
<1>3. CASE FetchStatus
  BY <1>3 DEF FetchStatus, Reachable, hostVars, histVars
<1>4. ASSUME NEW a, ShowAnswer(a) PROVE SteadyInv'
  BY <1>4 DEF ShowAnswer, hostVars
<1>5. CASE AnswerStatus \/ Connect \/ HangUp
  BY <1>5 DEF AnswerStatus, Connect, HangUp, Serving, Reachable, hostVars, histVars
<1>6. CASE TakeRequest \/ SetField \/ BeginSave
  BY <1>6 DEF TakeRequest, SetField, BeginSave
<1>7. CASE SaveFails \/ Crash
  BY <1>7 DEF SaveFails, Crash
<1>8. CASE EndSave
  BY <1>8 DEF EndSave, Lines
<1>9. CASE Start
  BY <1>9 DEF Start, pageVars
<1>10. CASE UNCHANGED vars
  BY <1>10 DEF vars, pageVars, hostVars, histVars
<1>11. QED
  BY <1>1, <1>2, <1>3, <1>4, <1>5, <1>6, <1>7, <1>8, <1>9, <1>10
     DEF Next, Serve

LEMMA LastStep ==
    ASSUME TypeOK, SteadyInv, LastInQueue, ServedInv, ~missed', crashes = 0,
           crashes' = 0, [Next]_vars
    PROVE  LastInQueue'
<1>1. CASE UNCHANGED <<sent, posted, config>>
  BY <1>1 DEF LastInQueue, IsConfig, LastPosted
<1>2. ASSUME NEW v \in Values, SubmitConfig(v) PROVE LastInQueue'
  <2>1. SendFrom("config", widgets')
    BY <1>2 DEF SubmitConfig, PageOpen
  <2>2. QED
    BY <1>2, <2>1, Submitted, SendEffect, QueueAppend
<1>3. CASE FetchStatus
  BY <1>3, SendEffect, QueueAppend DEF FetchStatus, hostVars, histVars
<1>4. CASE AnswerStatus \/ HangUp
  <2>1. sent # <<>> /\ sent' = Tail(sent) /\ ~IsConfig(1)
    BY <1>4, ServingFacts DEF AnswerStatus, HangUp, Answered, IsConfig
  <2>2. QED
    BY <1>4, <2>1, QueueTail DEF AnswerStatus, HangUp, hostVars, histVars
<1>10. CASE Connect
  <2>1. UNCHANGED <<posted, config>> /\ sent' = Append(sent, Silent)
    BY <1>10 DEF Connect, hostVars, histVars
  <2>2. QED
    BY <2>1, SilentRequest, QueueAppend
<1>5. CASE SetField
  <2>1. 1 \in 1..Len(sent) /\ IsConfig(1)
    BY <1>5, ServedFacts DEF SetField, IsConfig
  <2>2. UNCHANGED <<sent, posted>>
    BY <1>5 DEF SetField, pageVars, histVars
  <2>3. QED
    BY <2>1, <2>2 DEF LastInQueue, IsConfig, LastPosted
<1>6. CASE SaveFails \/ Crash
  BY <1>6 DEF SaveFails, Crash
<1>7. CASE EndSave
  <2>1. CASE phase = "saving"
    <3>1. sent # <<>> /\ sent' = Tail(sent) /\ config = sent[1].body
      BY <1>7, <2>1, ServedFacts DEF EndSave, Answered, ServedInv
    <3>2. QED
      BY <1>7, <3>1, QueueTail DEF EndSave
  <2>2. CASE phase # "saving"
    BY <1>1, <1>7, <2>2 DEF EndSave
  <2>3. QED
    BY <2>1, <2>2
<1>8. CASE Start
  <2>1. posted' = <<>> /\ sent' = <<>>
    BY <1>8 DEF Start, pageVars, SteadyInv
  <2>2. QED
    BY <2>1, EmptySeq DEF LastInQueue
<1>9. QED
  BY <1>1, <1>2, <1>3, <1>4, <1>5, <1>6, <1>7, <1>8, <1>10
     DEF Next, Serve, Focus, ShowAnswer, TakeRequest, BeginSave, pageVars, hostVars,
         histVars, vars

LEMMA ServedStep ==
    ASSUME TypeOK, ServedInv, ~missed', crashes = 0, crashes' = 0, [Next]_vars
    PROVE  ServedInv'
<1>1. CASE UNCHANGED <<phase, config, next>> /\ phase = "applying"
  BY <1>1, HeadStays DEF ServedInv
<1>2. CASE UNCHANGED <<phase, config, next>> /\ phase = "saving"
  <2>1. UNCHANGED sent[1]
    <3>1. sent # <<>> /\ sent \in Seq(Requests)
      BY <1>2 DEF TypeOK, PageTypeOK, ServingOne
    <3>2. ASSUME NEW r \in Requests, sent' = Append(sent, r) PROVE UNCHANGED sent[1]
      BY <3>1, <3>2, Appended
    <3>3. ASSUME NEW v \in Values, SubmitConfig(v) PROVE UNCHANGED sent[1]
      <4>1. widgets' \in Configs
        BY <3>3 DEF SubmitConfig, TypeOK, PageTypeOK, Configs
      <4>2. QED
        BY <3>2, <3>3, <4>1, SendEffect DEF SubmitConfig
    <3>4. CASE FetchStatus
      BY <3>2, <3>4, SendEffect DEF FetchStatus
    <3>5. CASE Connect
      BY <3>2, <3>5, SilentRequest DEF Connect
    <3>6. QED
      BY <1>2, <3>3, <3>4, <3>5 DEF Next, Serve, Focus, ShowAnswer, AnswerStatus,
         TakeRequest, SetField, BeginSave, SaveFails, EndSave, HangUp, Serving,
         Applied, Crash, Start, pageVars, hostVars, vars
  <2>2. QED
    BY <1>2, <2>1 DEF ServedInv
<1>3. CASE phase' \notin {"applying", "saving"}
  BY <1>3 DEF ServedInv
<1>4. CASE TakeRequest
  <2>1. next' = 1 /\ phase' = "applying"
    BY <1>4 DEF TakeRequest
  <2>2. \A k \in Keys : ~(k < 1)
    BY Defaults DEF Keys
  <2>3. QED
    BY <2>1, <2>2 DEF ServedInv
<1>5. CASE SetField
  <2>1. /\ phase = "applying" /\ phase' = "applying" /\ next \in Keys
        /\ next' = next + 1 /\ sent' = sent /\ Head(sent) = sent[1]
        /\ config' = [config EXCEPT ![next] = sent[1].body[next]]
    BY <1>5, ServedFacts DEF SetField, pageVars
  <2>2. \A k \in Keys : k < next + 1 => k < next \/ k = next
    BY <2>1, Defaults DEF Keys
  <2>3. config \in [Keys -> Values]
    BY DEF TypeOK, HostTypeOK, Configs
  <2>4. ASSUME NEW k \in Keys, k < next + 1 PROVE config'[k] = sent[1].body[k]
    BY <2>1, <2>2, <2>3, <2>4 DEF ServedInv
  <2>5. QED
    BY <2>1, <2>4 DEF ServedInv
<1>6. CASE BeginSave
  <2>1. /\ phase = "applying" /\ next = NumSettings + 1 /\ config' = config
        /\ sent' = sent /\ phase' = "saving"
    BY <1>6 DEF BeginSave, Applied, pageVars
  <2>2. \A k \in Keys : k < next
    BY <2>1, Defaults DEF Keys
  <2>3. \A k \in Keys : config[k] = sent[1].body[k]
    BY <2>1, <2>2 DEF ServedInv
  <2>4. config \in [Keys -> Values] /\ sent[1].body \in [Keys -> Values]
    BY <2>1, ServedFacts DEF TypeOK, HostTypeOK, Configs
  <2>5. config = sent[1].body
    BY <2>3, <2>4
  <2>6. QED
    BY <2>1, <2>5 DEF ServedInv
<1>7. CASE SaveFails \/ EndSave \/ Crash \/ Start
  BY <1>3, <1>7 DEF SaveFails, EndSave, Crash, Start
<1>8. CASE UNCHANGED <<phase, config, next>>
  BY <1>1, <1>2, <1>3, <1>8
<1>9. QED
  BY <1>4, <1>5, <1>6, <1>7, <1>8
     DEF Next, Serve, Focus, SubmitConfig, FetchStatus, ShowAnswer, AnswerStatus,
         Connect, HangUp, hostVars, vars

-----------------------------------------------------------------------------
LEMMA SteadyBefore ==
    ASSUME TypeOK, [Next]_vars, Steady'
    PROVE  Steady
<1>1. crashes' = crashes \/ crashes' = crashes + 1
  BY DEF Next, Serve, Focus, SubmitConfig, FetchStatus, ShowAnswer, AnswerStatus,
     TakeRequest, SetField, BeginSave, SaveFails, EndSave, Connect, HangUp, Crash,
     Start, histVars, vars
<1>2. missed' = missed \/ missed'
  BY DEF Next, Serve, Focus, SubmitConfig, FetchStatus, ShowAnswer, AnswerStatus,
     TakeRequest, SetField, BeginSave, SaveFails, EndSave, Connect, HangUp, Crash,
     Start, histVars, vars
<1>3. QED
  BY <1>1, <1>2 DEF TypeOK, PageTypeOK, Steady

LEMMA SettingsInit == Init => SettingsInv
<1> SUFFICES ASSUME Init PROVE SettingsInv
  OBVIOUS
<1>1. TypeOK
  <2>1. PageTypeOK
    BY Defaults, EmptySeq DEF Init, PageTypeOK
  <2>2. phase \in {"down", "up"} /\ next = 1
    BY DEF Init
  <2>5. next \in 1..(NumSettings + 1)
    BY <2>2, Defaults
  <2>3. HostTypeOK
    BY <2>2, <2>5, Defaults DEF Init, HostTypeOK
  <2>4. QED
    BY <2>1, <2>2, <2>3 DEF TypeOK, ServingOne
<1>2. KnownInv
  BY DEF Init, KnownInv, QueueKnown, Known
<1>3. SavedInv /\ ChoiceInv
  BY DEF Init, SavedInv, ChoiceInv
<1>4. SteadyInv /\ LastInQueue /\ ServedInv
  BY DEF Init, SteadyInv, LastInQueue, ServedInv
<1>5. QED
  BY <1>1, <1>2, <1>3, <1>4 DEF SettingsInv

LEMMA SettingsStep == SettingsInv /\ [Next]_vars => SettingsInv'
<1> SUFFICES ASSUME SettingsInv, [Next]_vars PROVE SettingsInv'
  OBVIOUS
<1>1. TypeOK /\ KnownInv /\ SavedInv /\ ChoiceInv
  BY DEF SettingsInv
<1>2. TypeOK' /\ KnownInv' /\ SavedInv' /\ ChoiceInv'
  BY <1>1, TypeStep, KnownStep, SavedStep, ChoiceStep
<1>3. ASSUME Steady' PROVE SteadyInv' /\ LastInQueue' /\ ServedInv'
  <2>1. Steady /\ SteadyInv /\ LastInQueue /\ ServedInv
    BY <1>1, <1>3, SteadyBefore DEF SettingsInv
  <2>2. crashes = 0 /\ crashes' = 0 /\ ~missed'
    BY <1>3, <2>1 DEF Steady
  <2>3. QED
    BY <1>1, <2>1, <2>2, SteadyStep, LastStep, ServedStep
<1>4. QED
  BY <1>2, <1>3 DEF SettingsInv

LEMMA SettingsAlways == Spec => []SettingsInv
BY SettingsInit, SettingsStep, PTL DEF Spec

\* A started desktop comes up with the last settings that were saved, or with the
\* defaults when a save was cut short (config_service.cpp:26-96).
THEOREM SavedCorrect == Spec => SavedSurvives
<1>1. ASSUME SettingsInv, [Next]_vars, phase = "down", phase' = "up"
      PROVE  config' = IF cut THEN Default ELSE written
  <2>1. Start
    BY <1>1 DEF Next, Serve, Focus, SubmitConfig, FetchStatus, ShowAnswer,
       AnswerStatus, TakeRequest, SetField, BeginSave, SaveFails, EndSave, Connect,
       HangUp, Serving, Applied, Crash, hostVars, vars
  <2>2. config' = Loaded /\ file # None
    BY <1>1, <2>1 DEF Start
  <2>3. CASE cut
    BY <1>1, <2>2, <2>3, LoadedIs DEF SettingsInv, SavedInv
  <2>4. CASE ~cut
    BY <1>1, <2>2, <2>4, LoadedIs DEF SettingsInv, SavedInv, TypeOK, HostTypeOK
  <2>5. QED
    BY <2>3, <2>4
<1>2. SettingsInv /\ [Next]_vars
        => [phase = "down" /\ phase' = "up" => config' = IF cut THEN Default ELSE written]_vars
  BY <1>1
<1>3. QED
  BY <1>2, SettingsAlways, PTL DEF Spec, SavedSurvives

\* What is in force is the defaults or what the page submitted at one time, and
\* while a request is applied, setting by setting, the beginning of the one and
\* the rest of the other (http_server.cpp:292-297, config_service.cpp:81-96).
THEOREM NeverMixedCorrect == Spec => []NeverMixed
<1>1. SettingsInv => NeverMixed
  BY DEF SettingsInv, KnownInv, Half, Blend, NeverMixed
<1>2. QED
  BY <1>1, SettingsAlways, PTL

\* When nothing is under way and the desktop has not ended, the file has the user's
\* last choice for every setting, unless an answer has put one back on the page or
\* a request's settings had not arrived when it was read or could not be saved.
THEOREM AdjustmentsCorrect == Spec => []AdjustmentsSaved
<1>1. SettingsInv => AdjustmentsSaved
  <2> SUFFICES ASSUME SettingsInv, Settled, ~putBack, ~missed
               PROVE  file = wanted
    BY DEF AdjustmentsSaved
  <2>1. file = config /\ LastInQueue /\ LastPosted = wanted
    BY DEF SettingsInv, Steady, SteadyInv, ChoiceInv, Settled
  <2>2. config = LastPosted
    BY <2>1, EmptySeq DEF LastInQueue, Settled
  <2>3. QED
    BY <2>1, <2>2
<1>2. QED
  BY <1>1, SettingsAlways, PTL

-----------------------------------------------------------------------------
(***************************************************************************)
(* The main loop's reader.                                                 *)
(***************************************************************************)
\* In a pass without a request being applied, all that was read still holds.
ReadInv ==
    /\ DOMAIN used \subseteq Keys /\ used = [k \in DOMAIN used |-> used[k]]
    /\ clean => phase # "applying" /\ \A k \in DOMAIN used : used[k] = config[k]
    /\ phase = "down" => used = Empty

LEMMA EmptyRead == DOMAIN Empty = {} /\ Empty = [k \in DOMAIN Empty |-> Empty[k]]
BY DEF Empty

\* Without a request being applied the fields stay as they are, until the process
\* ends.
LEMMA FieldsStay ==
    ASSUME [Next]_vars, phase \notin {"applying", "down"}
    PROVE  config' = config
BY DEF Next, Serve, Focus, SubmitConfig, FetchStatus, ShowAnswer, AnswerStatus,
   TakeRequest, SetField, BeginSave, SaveFails, EndSave, Connect, HangUp, Applied,
   Crash, Start, hostVars, vars

LEMMA ReadStep ==
    ASSUME ReadInv, [NextLoop]_<<vars, loopVars>>
    PROVE  ReadInv'
<1>1. CASE Meanwhile
  <2>1. CASE phase' = "down" \/ phase = "down"
    <3>1. used' = Empty
      BY <1>1, <2>1 DEF Meanwhile
    <3>2. clean' => phase' # "applying"
      BY <1>1 DEF Meanwhile
    <3>3. QED
      BY <3>1, <3>2, EmptyRead DEF ReadInv
  <2>2. CASE phase' # "down" /\ phase # "down"
    <3>1. used' = used /\ clean' = (phase' # "applying" /\ clean)
      BY <1>1, <2>2 DEF Meanwhile
    <3>2. clean' => config' = config
      BY <1>1, <2>2, <3>1, FieldsStay DEF Meanwhile, ReadInv
    <3>3. QED
      BY <2>2, <3>1, <3>2 DEF ReadInv
  <2>3. QED
    BY <2>1, <2>2
<1>2. CASE NextPass
  <2>1. used' = Empty /\ phase' = phase /\ clean' = (phase # "applying")
    BY <1>2 DEF NextPass, vars, hostVars
  <2>2. QED
    BY <2>1, EmptyRead DEF ReadInv
<1>3. CASE ReadField
  <2>1. PICK k \in Keys \ DOMAIN used :
            used' = [i \in DOMAIN used \union {k} |-> IF i = k THEN config[k] ELSE used[i]]
    BY <1>3 DEF ReadField
  <2>2. UNCHANGED <<phase, config, clean>> /\ phase # "down"
    BY <1>3 DEF ReadField, Running, vars, hostVars
  <2>3. DOMAIN used' = DOMAIN used \union {k}
    BY <2>1
  <2>4. QED
    BY <2>1, <2>2, <2>3 DEF ReadInv
<1>4. CASE UNCHANGED <<vars, loopVars>>
  BY <1>4 DEF vars, loopVars, hostVars, ReadInv
<1>5. QED
  BY <1>1, <1>2, <1>3, <1>4 DEF NextLoop

\* A pass that overlaps no request being applied runs with the defaults or with
\* what the page submitted at one time (main.cpp:211, 253-254, 299).
THEOREM ReadTogetherCorrect == SpecLoop => []ReadTogether
<1>1. InitLoop => SettingsInv /\ ReadInv
  BY SettingsInit, EmptyRead DEF InitLoop, ReadInv, Init
<1>2. SettingsInv /\ ReadInv /\ [NextLoop]_<<vars, loopVars>> => SettingsInv' /\ ReadInv'
  <2>1. [NextLoop]_<<vars, loopVars>> => [Next]_vars
    BY DEF NextLoop, Meanwhile, NextPass, ReadField, vars, loopVars
  <2>2. QED
    BY <2>1, SettingsStep, ReadStep
<1>3. SettingsInv /\ ReadInv => ReadTogether
  <2> SUFFICES ASSUME SettingsInv, ReadInv, DOMAIN used = Keys, clean
               PROVE  used \in Known
    BY DEF ReadTogether
  <2>1. phase \notin {"down", "applying"}
    <3>1. Keys # {}
      BY Defaults DEF Keys
    <3>2. QED
      BY <3>1, EmptyRead DEF ReadInv
  <2>2. config \in Known /\ config \in [Keys -> Values]
    BY <2>1 DEF SettingsInv, KnownInv, TypeOK, HostTypeOK, Configs
  <2>3. used = [k \in Keys |-> config[k]]
    BY DEF ReadInv
  <2>4. QED
    BY <2>2, <2>3
<1>4. QED
  BY <1>1, <1>2, <1>3, PTL DEF SpecLoop
=============================================================================
