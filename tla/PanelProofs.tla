------------------------------ MODULE PanelProofs ------------------------------
(***************************************************************************)
(* Theorems on PanelClient.                                                *)
(***************************************************************************)
EXTENDS PanelClient, SequenceTheorems, TLAPS

(* What comes after a call is taken out moves up by one.  *)
Skip(i, j) == IF j < i THEN j ELSE j + 1

LEMMA Removed ==
    ASSUME NEW S, NEW s \in Seq(S), NEW i \in 1 .. Len(s)
    PROVE  /\ RemoveAt(s, i) \in Seq(S)
           /\ Len(RemoveAt(s, i)) = Len(s) - 1
           /\ \A j \in 1 .. Len(s) - 1 : RemoveAt(s, i)[j] = s[Skip(i, j)]
<1> DEFINE front == SubSeq(s, 1, i - 1)
           back  == SubSeq(s, i + 1, Len(s))
<1>1. /\ front \in Seq(S) /\ Len(front) = i - 1
      /\ \A j \in 1 .. i - 1 : front[j] = s[j]
  OBVIOUS
<1>2. /\ back \in Seq(S) /\ Len(back) = Len(s) - i
      /\ \A j \in 1 .. Len(s) - i : back[j] = s[i + j]
  OBVIOUS
<1>3. RemoveAt(s, i) = front \o back
  BY DEF RemoveAt
<1> HIDE DEF front, back
<1>4. /\ front \o back \in Seq(S) /\ Len(front \o back) = Len(front) + Len(back)
      /\ \A j \in 1 .. Len(front) + Len(back) :
            (front \o back)[j] = IF j <= Len(front) THEN front[j] ELSE back[j - Len(front)]
  BY <1>1, <1>2, ConcatProperties
<1>5. Len(s) \in Nat /\ Len(front) + Len(back) = Len(s) - 1
  BY <1>1, <1>2
<1>6. ASSUME NEW j \in 1 .. Len(s) - 1
      PROVE  RemoveAt(s, i)[j] = s[Skip(i, j)]
  <2>1. CASE j < i
    <3>1. j \in 1 .. i - 1 /\ j <= Len(front) /\ j \in 1 .. Len(front) + Len(back)
      BY <1>1, <1>5, <2>1
    <3>2. (front \o back)[j] = front[j]
      BY <1>4, <3>1
    <3> QED BY <1>1, <1>3, <2>1, <3>1, <3>2 DEF Skip
  <2>2. CASE ~(j < i)
    <3>1. /\ j - (i - 1) \in 1 .. Len(s) - i /\ ~(j <= Len(front))
          /\ j \in 1 .. Len(front) + Len(back) /\ i + (j - (i - 1)) = j + 1
      BY <1>1, <1>5, <2>2
    <3>2. (front \o back)[j] = back[j - (i - 1)]
      BY <1>1, <1>4, <3>1
    <3>3. back[j - (i - 1)] = s[j + 1]
      BY <1>2, <3>1
    <3> QED BY <1>3, <2>2, <3>2, <3>3 DEF Skip
  <2> QED BY <2>1, <2>2
<1> QED BY <1>3, <1>4, <1>5, <1>6

LEMMA Appended ==
    ASSUME NEW S, NEW s \in Seq(S), NEW e \in S
    PROVE  /\ Append(s, e) \in Seq(S)
           /\ Len(Append(s, e)) = Len(s) + 1
           /\ \A j \in 1 .. Len(s) : Append(s, e)[j] = s[j]
           /\ Append(s, e)[Len(s) + 1] = e
BY AppendProperties

LEMMA Replaced ==
    ASSUME NEW S, NEW s \in Seq(S), NEW i \in 1 .. Len(s), NEW e \in S
    PROVE  /\ [s EXCEPT ![i] = e] \in Seq(S)
           /\ Len([s EXCEPT ![i] = e]) = Len(s)
           /\ \A j \in 1 .. Len(s) :
                 [s EXCEPT ![i] = e][j] = IF j = i THEN e ELSE s[j]
OBVIOUS

-----------------------------------------------------------------------------
(***************************************************************************)
(* Types.  A password is numbered by the writes before it, and a call that *)
(* creates a user says from which dialog.                                  *)
(***************************************************************************)
CallsOK(cs) ==
    /\ cs \in Seq(Call) /\ Len(cs) <= MaxCalls
    /\ \A j \in 1 .. Len(cs) : cs[j].kind = "add" => cs[j].dialog # 0

MadeOK ==
    made \in [1 .. MaxDialogs -> [opened : BOOLEAN, users : 0 .. 2, failed : BOOLEAN]]

ServerOK ==
    /\ row \in Settings /\ copies \in SUBSET Settings
    /\ writes \in 0 .. MaxWrites /\ row.pw <= writes + 1
    /\ moved \in BOOLEAN

JarOK == jar \in [path : Paths \cup {Blank}, pw : 0 .. MaxWrites + 1]

RestOK ==
    /\ presses \in 0 .. MaxPresses /\ chosen \in SUBSET Values /\ untrue \in BOOLEAN

Typed == ServerOK /\ JarOK /\ ui \in Page /\ CallsOK(calls) /\ RestOK /\ MadeOK

LEMMA TypedIsTypeOK == Typed => TypeOK
BY DEF Typed, TypeOK, ServerOK, JarOK, CallsOK, RestOK, MadeOK

LEMMA Constants ==
    /\ Paths \subseteq Names /\ First \in Paths
    /\ MaxCalls \in Nat \ {0} /\ MaxWrites \in Nat
    /\ MaxDialogs \in Nat /\ MaxPresses \in Nat
    /\ Fallback \in Values /\ Blank \notin Names /\ Blank \notin Values
    /\ Envless \in Settings
BY PanelAssumption DEF Paths, Envless, Settings

LEMMA NewIsCall ==
    ASSUME NEW kind \in Kinds
    PROVE  New(kind) \in Call /\ New(kind).kind = kind /\ New(kind).dialog = 0
           /\ New(kind).form = BlankForm /\ New(kind).reply = "none"
BY Constants DEF New, Call, BlankForm, Form

LEMMA FreshIsPage ==
    ASSUME NEW addr \in Names, NEW view \in {"landing", "setup", "login", "main"}
    PROVE  Fresh(addr, view) \in Page
BY Constants DEF Fresh, Page, BlankForm, Form

LEMMA SeenIsPage ==
    ASSUME ui \in Page, NEW reply
    PROVE  Seen(reply) \in Page /\ NoDialog(ui) \in Page
<1>1. [ui EXCEPT !.view = "login"] \in Page
  BY DEF Page
<1>2. [ui EXCEPT !.dialog = 0, !.posting = FALSE] \in Page
  <2>1. 0 \in 0 .. MaxDialogs
    BY Constants
  <2> QED BY <2>1 DEF Page
<1> QED BY <1>1, <1>2 DEF Seen, NoDialog

LEMMA EffectiveTyped == ASSUME ServerOK PROVE Effective \subseteq Settings
BY Constants DEF Effective, ServerOK

LEMMA SecretTyped ==
    ASSUME NEW s \in Settings
    PROVE  Secret(s) \in [path : Paths \cup {Blank}, pw : 0 .. MaxWrites + 1]
BY DEF Secret, Settings

LEMMA CallsAnswered ==
    ASSUME CallsOK(calls), NEW i \in 1 .. Len(calls), NEW call \in Call,
           call.kind = calls[i].kind, call.dialog = calls[i].dialog
    PROVE  CallsOK([calls EXCEPT ![i] = call])
BY Replaced DEF CallsOK

LEMMA CallsRest ==
    ASSUME CallsOK(calls), NEW i \in 1 .. Len(calls)
    PROVE  /\ CallsOK(Rest(i)) /\ Len(Rest(i)) = Len(calls) - 1
           /\ \A kind \in Kinds \ {"add"} : CallsOK(Append(Rest(i), New(kind)))
<1>1. /\ Rest(i) \in Seq(Call) /\ Len(Rest(i)) = Len(calls) - 1
      /\ \A j \in 1 .. Len(calls) - 1 : Rest(i)[j] = calls[Skip(i, j)]
  BY Removed DEF Rest, CallsOK
<1>2. \A j \in 1 .. Len(calls) - 1 : Skip(i, j) \in 1 .. Len(calls)
  BY DEF Skip, CallsOK
<1>3. CallsOK(Rest(i))
  BY <1>1, <1>2, Constants DEF CallsOK
<1>4. ASSUME NEW kind \in Kinds \ {"add"} PROVE CallsOK(Append(Rest(i), New(kind)))
  <2> DEFINE cs == Append(Rest(i), New(kind))
  <2>1. New(kind) \in Call /\ New(kind).kind # "add"
    BY NewIsCall
  <2>2. /\ cs \in Seq(Call) /\ Len(cs) = Len(calls)
        /\ \A j \in 1 .. Len(calls) - 1 : cs[j] = Rest(i)[j]
        /\ cs[Len(calls)] = New(kind)
    BY <1>1, <2>1, Appended DEF CallsOK
  <2> HIDE DEF cs
  <2> QED BY <1>1, <1>3, <2>1, <2>2 DEF CallsOK
<1> QED BY <1>1, <1>3, <1>4

LEMMA CallsSent ==
    ASSUME CallsOK(calls), NEW call \in Call, Send(call),
           call.kind = "add" => call.dialog # 0
    PROVE  CallsOK(calls')
<1>1. /\ calls' \in Seq(Call) /\ Len(calls') = Len(calls) + 1 /\ Len(calls) < MaxCalls
      /\ \A j \in 1 .. Len(calls) : calls'[j] = calls[j]
      /\ calls'[Len(calls) + 1] = call
  BY Appended DEF Send, CallsOK
<1> QED BY <1>1, Constants DEF CallsOK

LEMMA CallsFresh == CallsOK(<<>>) /\ CallsOK(<<New("status")>>)
<1>1. New("status") \in Call /\ New("status").kind = "status"
  BY NewIsCall DEF Kinds, Public
<1>2. CallsOK(<<>>)
  BY Constants DEF CallsOK
<1>3. CallsOK(<<New("status")>>)
  BY <1>1, Constants DEF CallsOK
<1> QED BY <1>2, <1>3

(* What an answer does to the calls.  *)
Answered(i, call) ==
    /\ Len(calls') = Len(calls)
    /\ \A j \in 1 .. Len(calls) : calls'[j] = IF j = i THEN call ELSE calls[j]

Replies == {"none", "ok", "landing", "unauthorized", "error"}

LEMMA AnswerFacts ==
    ASSUME CallsOK(calls), NEW i \in 1 .. Len(calls), NEW reply \in Replies,
           Answer(i, reply)
    PROVE  /\ CallsOK(calls')
           /\ Answered(i, [calls[i] EXCEPT !.reply = reply])
<1> DEFINE call == [calls[i] EXCEPT !.reply = reply]
<1>1. calls[i] \in Call
  BY DEF CallsOK
<1>2. call \in Call /\ call.kind = calls[i].kind /\ call.dialog = calls[i].dialog
  BY <1>1 DEF Call, Replies
<1>3. calls' = [calls EXCEPT ![i] = call]
  BY DEF Answer
<1> HIDE DEF call
<1>4. CallsOK(calls')
  BY <1>2, <1>3, CallsAnswered
<1>5. Answered(i, call)
  BY <1>2, <1>3, Replaced DEF Answered, CallsOK
<1> QED BY <1>4, <1>5 DEF call

LEMMA LoadFacts ==
    ASSUME Typed, NEW i \in 1 .. Len(calls), NEW eff, NEW found \in copies,
           AnswerLoad(i, eff, found)
    PROVE  /\ CallsOK(calls')
           /\ Answered(i, [calls[i] EXCEPT !.reply = "ok",
                              !.form = [path |-> found.path, rest |-> found.rest]])
<1> DEFINE form == [path |-> found.path, rest |-> found.rest]
           call == [calls[i] EXCEPT !.reply = "ok", !.form = form]
<1>1. calls[i] \in Call /\ CallsOK(calls)
  BY DEF CallsOK, Typed
<1>2. form \in Form
  BY Constants DEF Typed, ServerOK, Settings, Form
<1>3. calls' = [calls EXCEPT ![i].reply = "ok", ![i].form = form]
  BY DEF AnswerLoad
<1> HIDE DEF form
<1>4. call \in Call /\ call.kind = calls[i].kind /\ call.dialog = calls[i].dialog
  BY <1>1, <1>2 DEF Call
<1>5. calls' = [calls EXCEPT ![i] = call]
  BY <1>1, <1>3 DEF CallsOK, Call
<1> HIDE DEF call
<1>6. CallsOK(calls')
  BY <1>1, <1>4, <1>5, CallsAnswered
<1>7. Answered(i, call)
  BY <1>1, <1>4, <1>5, Replaced DEF Answered, CallsOK
<1> QED BY <1>6, <1>7 DEF call, form

LEMMA RefusalsKnown ==
    ASSUME NEW c PROVE Refusals(c) \subseteq {"error", "landing", "unauthorized"}
BY DEF Refusals

LEMMA Same ==
    ASSUME Typed
    PROVE  /\ UNCHANGED server => ServerOK'
           /\ UNCHANGED jar => JarOK'
           /\ UNCHANGED <<presses, chosen, untrue>> => RestOK'
           /\ UNCHANGED <<presses, history>> => RestOK' /\ MadeOK'
           /\ UNCHANGED made => MadeOK'
BY DEF Typed, ServerOK, JarOK, RestOK, MadeOK, server, history

LEMMA WriteTyped ==
    ASSUME Typed, NEW s \in Settings, Write(s), s.pw <= row.pw + 1
    PROVE  ServerOK'
<1>1. /\ writes < MaxWrites /\ writes' = writes + 1 /\ row' = s
      /\ copies' = copies \cup {s} /\ moved' = (moved \/ s.path # row.path)
  BY DEF Write
<1>2. row.pw \in Nat /\ s.pw \in Nat
  BY DEF Typed, ServerOK, Settings
<1>3. writes' \in 0 .. MaxWrites /\ row'.pw <= writes' + 1
  BY <1>1, <1>2, Constants DEF Typed, ServerOK
<1> QED BY <1>1, <1>3 DEF Typed, ServerOK

LEMMA SaltedKnown ==
    ASSUME Typed, NEW salted \in BOOLEAN
    PROVE  Salted(salted) \in Nat /\ Salted(salted) <= row.pw + 1
BY DEF Typed, ServerOK, Settings, Salted

LEMMA ServeTyped ==
    ASSUME Typed, NEW i \in 1 .. Len(calls), Serve(i) PROVE Typed'
<1>0. CallsOK(calls) /\ calls[i] \in Call
  BY DEF Typed, CallsOK
<1>1. CASE AnswerRefused(i)
  <2>1. PICK reply \in Refusals(calls[i]) : Answer(i, reply)
    BY <1>1 DEF AnswerRefused
  <2>2. reply \in Replies
    BY RefusalsKnown DEF Replies
  <2>3. CallsOK(calls')
    BY <1>0, <2>1, <2>2, AnswerFacts
  <2> QED BY <1>1, <2>1, <2>3, Same DEF AnswerRefused, Answer, Typed
<1>2. ASSUME NEW eff, NEW found \in copies, AnswerLoad(i, eff, found) PROVE Typed'
  <2>1. CallsOK(calls')
    BY <1>2, LoadFacts
  <2> QED BY <1>2, <2>1, Same DEF AnswerLoad, Typed
<1>3. ASSUME NEW eff, NEW reply \in {"ok", "error"}, AnswerSave(i, eff, reply)
      PROVE  Typed'
  <2>1. PICK s \in Stored(calls[i]) : Write(s)
    BY <1>3 DEF AnswerSave
  <2>2. s \in Settings /\ s.pw = Salted(calls[i].salted)
    BY <2>1 DEF Stored
  <2>3. ServerOK'
    BY <1>0, <2>1, <2>2, WriteTyped, SaltedKnown DEF Call
  <2>4. CallsOK(calls')
    BY <1>0, <1>3, AnswerFacts DEF AnswerSave, Replies
  <2> QED BY <1>3, <2>3, <2>4, Same DEF AnswerSave, Answer, Typed
<1>4. ASSUME NEW eff, NEW reply \in {"ok", "error"}, AnswerAdd(i, eff, reply)
      PROVE  Typed'
  <2>1. CallsOK(calls')
    BY <1>0, <1>4, AnswerFacts DEF AnswerAdd, Replies
  <2>2. MadeOK'
    <3>1. calls[i].dialog \in 1 .. MaxDialogs /\ calls[i].kind = "add"
      BY <1>0, <1>4, Constants DEF AnswerAdd, Pending, CallsOK, Call
    <3>2. made[calls[i].dialog].users + 1 \in 0 .. 2
      BY <1>4, <3>1 DEF AnswerAdd, Typed, MadeOK
    <3> QED BY <1>4, <3>1, <3>2 DEF AnswerAdd, Typed, MadeOK
  <2> QED BY <1>4, <2>1, <2>2, Same DEF AnswerAdd, Answer, Typed
<1> QED BY <1>1, <1>2, <1>3, <1>4 DEF Serve

LEMMA OnAgainIsPage ==
    ASSUME ui \in Page, NEW reply, NEW path \in Names \cup {Blank}
    PROVE  /\ OnAgain(reply) \in Page
           /\ [OnAgain(reply) EXCEPT !.leaving = path] \in Page
<1>1. Seen(reply) \in Page
  BY SeenIsPage
<1>2. OnAgain(reply) \in Page
  BY <1>1 DEF OnAgain, Page
<1> QED BY <1>2 DEF Page

LEMMA TakeSlowTyped ==
    ASSUME Typed, NEW i \in 1 .. Len(calls),
           TakeLoad(i) \/ TakeSave(i) \/ TakeAdd(i)
    PROVE  Typed'
<1>0. /\ CallsOK(calls) /\ calls[i] \in Call /\ ui \in Page
      /\ CallsOK(Rest(i)) /\ CallsOK(Append(Rest(i), New("load")))
      /\ Seen(calls[i].reply) \in Page /\ NoDialog(ui) \in Page
  BY CallsRest, SeenIsPage DEF Typed, CallsOK, Kinds
<1>1. CASE TakeLoad(i)
  <2>1. ui' \in Page
    <3>1. calls[i].form \in Form
      BY <1>0 DEF Call
    <3>2. [ui EXCEPT !.form = calls[i].form, !.known = calls[i].form.path] \in Page
      BY <1>0, <3>1 DEF Page, Form
    <3> QED BY <1>0, <1>1, <3>2 DEF TakeLoad
  <2> QED BY <1>0, <1>1, <2>1, Same DEF TakeLoad, Took, Typed, RestOK
<1>2. CASE TakeSave(i)
  <2>1. calls[i].form.path \in Names \cup {Blank} /\ ui.leaving \in Names \cup {Blank}
    BY <1>0 DEF Call, Form, Page
  <2>2. OnAgain(calls[i].reply).leaving = ui.leaving
    BY <1>0 DEF OnAgain, Seen, Page
  <2>3. ui' \in Page
    BY <1>2, <2>1, <2>2, <1>0, OnAgainIsPage DEF TakeSave
  <2>4. CallsOK(calls')
    BY <1>0, <1>2 DEF TakeSave
  <2>5. RestOK'
    BY <1>2 DEF TakeSave, Took, Typed, RestOK
  <2> QED BY <1>2, <2>3, <2>4, <2>5, Same DEF TakeSave, Took, Typed
<1>3. CASE TakeAdd(i)
  <2>1. ui' \in Page
    <3> DEFINE page == [Seen(calls[i].reply) EXCEPT
                          !.posting = @ /\ ui.dialog # calls[i].dialog]
    <3>1. page \in Page
      BY <1>0 DEF Page
    <3> QED BY <1>0, <1>3, <3>1 DEF TakeAdd
  <2>2. MadeOK'
    BY <1>3 DEF TakeAdd, Typed, MadeOK
  <2>3. CallsOK(calls')
    BY <1>0, <1>3 DEF TakeAdd
  <2> QED BY <1>3, <2>1, <2>2, <2>3, Same DEF TakeAdd, Took, Typed, RestOK
<1> QED BY <1>1, <1>2, <1>3

LEMMA TakeQuickTyped ==
    ASSUME Typed, NEW i \in 1 .. Len(calls), NEW eff \in Effective, NEW reply,
           \/ Status(i, eff, reply) \/ Me(i, eff, reply) \/ Login(i, eff, reply)
           \/ Logout(i, eff, reply) \/ Other(i, eff, reply)
    PROVE  Typed'
<1>0. /\ CallsOK(calls) /\ ui \in Page /\ CallsOK(Rest(i))
      /\ CallsOK(Append(Rest(i), New("load"))) /\ CallsOK(Append(Rest(i), New("me")))
      /\ Seen(reply) \in Page /\ NoDialog(ui) \in Page
      /\ \A view \in {"setup", "login", "main"} : [ui EXCEPT !.view = view] \in Page
  <2>1. \A view \in {"setup", "login", "main"} : [ui EXCEPT !.view = view] \in Page
    BY DEF Typed, Page
  <2> QED BY <2>1, CallsRest, SeenIsPage DEF Typed, Kinds
<1>1. eff \in Settings /\ JarOK
  BY EffectiveTyped DEF Typed
<1>2. ServerOK' /\ RestOK' /\ MadeOK'
  BY Same DEF Status, Me, Login, Logout, Other, Ends
<1>3. CallsOK(calls')
  BY <1>0 DEF Status, Me, Login, Logout, Other, EnterMain
<1>4. JarOK'
  <2>1. CASE UNCHANGED jar
    BY <2>1, Same
  <2>2. CASE jar' = Secret(eff)
    BY <1>1, <2>2, SecretTyped DEF JarOK
  <2>3. CASE jar' = NoCookie
    BY <2>3, Constants DEF JarOK, NoCookie
  <2> QED BY <2>1, <2>2, <2>3 DEF Status, Me, Login, Logout, Other
<1>5. ui' \in Page
  <2>1. CASE Status(i, eff, reply)
    <3>1. CASE reply # "ok"
      BY <1>0, <2>1, <3>1 DEF Status
    <3>2. CASE reply = "ok" /\ eff = Envless
      BY <1>0, <2>1, <3>2 DEF Status
    <3>3. CASE reply = "ok" /\ eff # Envless
      <4>1. ui' = [ui EXCEPT !.view = ui.view]
        BY <2>1, <3>3 DEF Status
      <4>2. [ui EXCEPT !.view = ui.view] \in Page
        BY <1>0 DEF Page
      <4> QED BY <4>1, <4>2
    <3> QED BY <3>1, <3>2, <3>3
  <2>2. CASE Me(i, eff, reply) \/ Login(i, eff, reply)
    BY <1>0, <2>2 DEF Me, Login, EnterMain
  <2>3. CASE Logout(i, eff, reply) \/ Other(i, eff, reply)
    BY <1>0, <2>3 DEF Logout, Other
  <2> QED BY <2>1, <2>2, <2>3
<1> QED BY <1>2, <1>3, <1>4, <1>5 DEF Typed

LEMMA OpenTyped ==
    ASSUME Typed, NEW addr \in Names, NEW eff, Open(addr, eff)
    PROVE  ServerOK' /\ JarOK' /\ ui' \in Page /\ CallsOK(calls') /\ MadeOK'
           /\ UNCHANGED <<chosen, untrue>>
<1>1. ui' \in Page
  BY FreshIsPage DEF Open
<1>2. CallsOK(calls')
  BY CallsFresh DEF Open
<1> QED BY <1>1, <1>2 DEF Open, Typed, ServerOK, JarOK, MadeOK, server, history

LEMMA SentCalls ==
    ASSUME Typed, NEW kind \in Kinds \ {"add"}, Send(New(kind))
    PROVE  CallsOK(calls')
BY NewIsCall, CallsSent DEF Typed

LEMMA PressTyped == ASSUME Typed, Press PROVE Typed'
<1>0. /\ presses' \in 0 .. MaxPresses /\ UNCHANGED <<server, jar>>
      /\ ServerOK' /\ JarOK' /\ ui \in Page /\ CallsOK(calls)
  BY Same, Constants DEF Press, Typed, RestOK
<1>1. CASE PressLogin \/ PressLogout \/ PressOther
  <2>1. CallsOK(calls')
    BY <1>1, SentCalls DEF PressLogin, PressLogout, PressOther, Kinds, Public
  <2> QED BY <1>0, <1>1, <2>1
        DEF PressLogin, PressLogout, PressOther, Typed, RestOK, MadeOK, history
<1>2. CASE CloseDialog
  BY <1>0, <1>2, SeenIsPage DEF CloseDialog, Typed, RestOK, MadeOK, history
<1>3. ASSUME NEW tab \in {"users", "set"}, SwitchTab(tab) PROVE Typed'
  <2>1. [ui EXCEPT !.tab = tab] \in Page
    BY <1>0 DEF Page
  <2> QED BY <1>0, <1>3, <2>1 DEF SwitchTab, Typed, RestOK, MadeOK, history
<1>4. ASSUME NEW d \in 1 .. MaxDialogs, OpenDialog(d) PROVE Typed'
  <2>1. [ui EXCEPT !.dialog = d, !.posting = FALSE] \in Page
    <3>1. d \in 0 .. MaxDialogs
      BY Constants
    <3> QED BY <1>0, <3>1 DEF Page
  <2>2. MadeOK'
    BY <1>4 DEF OpenDialog, Typed, MadeOK
  <2> QED BY <1>0, <1>4, <2>1, <2>2 DEF OpenDialog, Typed, RestOK
<1>5. ASSUME NEW path \in Names \cup {ui.form.path}, NEW rest \in Values \cup {ui.form.rest},
             NEW salted \in BOOLEAN, PressSave(path, rest, salted)
      PROVE  Typed'
  <2> DEFINE form == [path |-> path, rest |-> rest]
             call == [New("save") EXCEPT !.form = form, !.known = ui.known,
                                         !.salted = salted]
  <2>1. form \in Form /\ ui.known \in Names \cup {Blank}
    BY <1>0 DEF Form, Page
  <2>2. Send(call)
    BY <1>5 DEF PressSave
  <2>3. ui' = [ui EXCEPT !.form = form, !.saving = TRUE]
    BY <1>5 DEF PressSave
  <2> HIDE DEF form
  <2>4. New("save") \in Call /\ New("save").kind = "save"
    BY NewIsCall DEF Kinds
  <2>5. call \in Call /\ call.kind = "save"
    BY <2>1, <2>4 DEF Call
  <2>6. CallsOK(calls')
    BY <1>0, <2>2, <2>5, CallsSent
  <2>7. ui' \in Page
    BY <1>0, <2>1, <2>3 DEF Page
  <2>8. chosen' \subseteq Values
    <3>1. rest \in Values \cup {Blank}
      BY <1>0 DEF Page, Form
    <3> QED BY <1>5, <3>1, Constants DEF PressSave, Typed, RestOK
  <2> QED BY <1>0, <1>5, <2>6, <2>7, <2>8 DEF PressSave, Typed, RestOK, MadeOK
<1> QED BY <1>1, <1>2, <1>3, <1>4, <1>5 DEF Press

LEMMA OthersTyped ==
    ASSUME Typed,
           \/ PressAdd \/ Reopen \/ Forget
           \/ \E eff \in Effective : Retry(eff) \/ Leave(eff)
           \/ \E path \in Paths, rest \in Values, salted \in BOOLEAN :
                Elsewhere(path, rest, salted)
    PROVE  Typed'
<1>1. CASE PressAdd
  <2> DEFINE call == [New("add") EXCEPT !.dialog = ui.dialog]
  <2>0. ui \in Page /\ ui.dialog \in 0 .. MaxDialogs /\ ui.dialog # 0
    BY <1>1 DEF PressAdd, Typed, Page
  <2>1. New("add") \in Call /\ New("add").kind = "add"
    BY NewIsCall DEF Kinds
  <2>2. call \in Call /\ call.dialog # 0
    BY <2>0, <2>1 DEF Call
  <2>3. Send(call)
    BY <1>1 DEF PressAdd
  <2> HIDE DEF call
  <2>4. CallsOK(calls')
    BY <2>2, <2>3, CallsSent DEF Typed
  <2>5. ui' \in Page
    BY <1>1, <2>0 DEF PressAdd, Page
  <2> QED BY <1>1, <2>4, <2>5, Same DEF PressAdd, Typed
<1>2. CASE Reopen
  <2>1. PICK addr \in {ui.addr, row.path}, eff \in Effective : Open(addr, eff)
    BY <1>2 DEF Reopen
  <2>2. addr \in Names
    BY Constants DEF Typed, Page, ServerOK, Settings
  <2>3. presses' \in 0 .. MaxPresses
    BY <1>2, Constants DEF Reopen, Typed, RestOK
  <2> QED BY <2>1, <2>2, <2>3, OpenTyped DEF Typed, RestOK
<1>3. ASSUME NEW eff \in Effective, Retry(eff) \/ Leave(eff) PROVE Typed'
  <2>1. PICK addr \in Names : Open(addr, eff)
    BY <1>3 DEF Retry, Leave, Typed, Page
  <2>2. UNCHANGED presses
    BY <1>3 DEF Retry, Leave
  <2> QED BY <2>1, <2>2, OpenTyped DEF Typed, RestOK
<1>4. CASE Forget
  BY <1>4 DEF Forget, Typed, ServerOK, JarOK, RestOK, MadeOK, history
<1>5. ASSUME NEW path \in Paths, NEW rest \in Values, NEW salted \in BOOLEAN,
             Elsewhere(path, rest, salted)
      PROVE  Typed'
  <2> DEFINE s == [path |-> path, rest |-> rest, pw |-> Salted(salted)]
  <2>1. Write(s) /\ writes < MaxWrites
    BY <1>5 DEF Elsewhere, Write
  <2>2. Salted(salted) \in 0 .. MaxWrites + 1 /\ Salted(salted) <= row.pw + 1
    BY <2>1, SaltedKnown, Constants DEF Typed, ServerOK, Settings
  <2>3. s \in Settings
    BY <2>2 DEF Settings
  <2>4. ServerOK'
    BY <2>1, <2>2, <2>3, WriteTyped
  <2> QED BY <1>5, <2>4 DEF Elsewhere, Typed, JarOK, RestOK, MadeOK
<1> QED BY <1>1, <1>2, <1>3, <1>4, <1>5

LEMMA TypedStep == Typed /\ [Next]_vars => Typed'
<1> SUFFICES ASSUME Typed, [Next]_vars PROVE Typed'
  OBVIOUS
<1>1. CASE UNCHANGED vars
  BY <1>1 DEF vars, server, history, Typed, ServerOK, JarOK, CallsOK, RestOK, MadeOK
<1>2. ASSUME NEW i \in 1 .. Len(calls), Take(i) PROVE Typed'
  BY <1>2, TakeSlowTyped, TakeQuickTyped DEF Take
<1> QED BY <1>1, <1>2, ServeTyped, PressTyped, OthersTyped DEF Next

LEMMA TypedInit == Init => Typed
<1> SUFFICES ASSUME Init PROVE Typed
  OBVIOUS
<1>1. /\ row \in Settings /\ row.pw = 1 /\ writes = 0
  BY Constants DEF Init, Settings
<1>2. jar \in [path : Paths \cup {Blank}, pw : 0 .. MaxWrites + 1]
  BY <1>1, SecretTyped, Constants DEF Init, NoCookie
<1>3. ui \in Page
  BY FreshIsPage, Constants DEF Init
<1>4. CallsOK(calls)
  BY CallsFresh DEF Init
<1>5. RestOK
  <2>1. row.rest \in Values /\ 0 \in 0 .. MaxPresses
    BY <1>1, Constants DEF Settings
  <2> QED BY <2>1 DEF Init, RestOK
<1>6. MadeOK
  BY DEF Init, MadeOK
<1>7. ServerOK
  <2>1. copies = {row} /\ moved = FALSE
    BY DEF Init
  <2>2. writes \in 0 .. MaxWrites /\ row.pw <= writes + 1
    BY <1>1, Constants
  <2> QED BY <1>1, <2>1, <2>2 DEF ServerOK
<1> QED BY <1>2, <1>3, <1>4, <1>5, <1>6, <1>7 DEF Typed, JarOK

LEMMA AlwaysTyped == Spec => []Typed
BY TypedInit, TypedStep, PTL DEF Spec

(***************************************************************************)
(* Every variable keeps its type, whatever is pressed and answered: no     *)
(* page, call or stored settings but those of the program.                 *)
(***************************************************************************)
THEOREM PanelTypeCorrect == Spec => []TypeOK
BY AlwaysTyped, TypedIsTypeOK, PTL

-----------------------------------------------------------------------------
(* The calls after one of them is done, and after it led to another.  *)
LEMMA RestFacts ==
    ASSUME Typed, NEW i \in 1 .. Len(calls)
    PROVE  /\ Len(calls) \in Nat /\ Len(Rest(i)) = Len(calls) - 1
           /\ \A j \in 1 .. Len(calls) - 1 :
                 Rest(i)[j] = calls[Skip(i, j)] /\ Skip(i, j) \in 1 .. Len(calls)
           /\ \A j, k \in 1 .. Len(calls) - 1 : Skip(i, j) = Skip(i, k) => j = k
BY Removed DEF Typed, CallsOK, Rest, Skip

LEMMA RestAndFacts ==
    ASSUME Typed, NEW i \in 1 .. Len(calls), NEW kind \in Kinds
    PROVE  /\ Len(Append(Rest(i), New(kind))) = Len(calls)
           /\ \A j \in 1 .. Len(calls) - 1 :
                 Append(Rest(i), New(kind))[j] = calls[Skip(i, j)]
           /\ Append(Rest(i), New(kind))[Len(calls)] = New(kind)
<1>1. Rest(i) \in Seq(Call) /\ New(kind) \in Call
  BY CallsRest, NewIsCall DEF Typed, CallsOK
<1> QED BY <1>1, RestFacts, Appended

LEMMA SentFacts ==
    ASSUME Typed, NEW call \in Call, Send(call)
    PROVE  /\ Len(calls') = Len(calls) + 1
           /\ \A j \in 1 .. Len(calls) : calls'[j] = calls[j]
           /\ calls'[Len(calls) + 1] = call
BY Appended DEF Send, Typed, CallsOK

(***************************************************************************)
(* What is in a form was chosen, or has no path; and what a blank form is  *)
(* stored as was chosen, if it has one.                                    *)
(***************************************************************************)
SafeIn(f, c) ==
    /\ f.rest # Blank => f.rest \in c
    /\ f.path # Blank /\ f.rest = Blank => Fallback \in c

SafeCalls(cs, c) == \A j \in 1 .. Len(cs) : SafeIn(cs[j].form, c)

Forms ==
    /\ row.rest \in chosen
    /\ \A s \in copies : s.rest \in chosen
    /\ SafeIn(ui.form, chosen)
    /\ SafeCalls(calls, chosen)

LEMMA BlankIsSafe == ASSUME NEW c PROVE SafeIn(BlankForm, c)
BY DEF SafeIn, BlankForm

LEMMA NewIsSafe ==
    ASSUME NEW kind \in Kinds, NEW c
    PROVE  SafeIn(New(kind).form, c)
BY NewIsCall, BlankIsSafe

LEMMA RestIsSafe ==
    ASSUME Typed, SafeCalls(calls, chosen), NEW i \in 1 .. Len(calls)
    PROVE  /\ SafeCalls(Rest(i), chosen)
           /\ \A kind \in Kinds : SafeCalls(Append(Rest(i), New(kind)), chosen)
<1>1. SafeCalls(Rest(i), chosen)
  BY RestFacts DEF SafeCalls
<1>2. ASSUME NEW kind \in Kinds PROVE SafeCalls(Append(Rest(i), New(kind)), chosen)
  <2> DEFINE cs == Append(Rest(i), New(kind))
  <2>1. /\ Len(cs) = Len(calls) /\ Len(calls) \in Nat
        /\ \A j \in 1 .. Len(calls) - 1 :
              cs[j] = calls[Skip(i, j)] /\ Skip(i, j) \in 1 .. Len(calls)
        /\ cs[Len(calls)] = New(kind)
    BY RestFacts, RestAndFacts
  <2> HIDE DEF cs
  <2>2. ASSUME NEW j \in 1 .. Len(cs) PROVE SafeIn(cs[j].form, chosen)
    <3>1. CASE j = Len(calls)
      BY <2>1, <3>1, NewIsSafe
    <3>2. CASE j # Len(calls)
      <4>1. j \in 1 .. Len(calls) - 1
        BY <2>1, <3>2
      <4> QED BY <2>1, <4>1 DEF SafeCalls
    <3> QED BY <3>1, <3>2
  <2>3. SafeCalls(cs, chosen)
    BY <2>2 DEF SafeCalls
  <2> QED BY <2>3 DEF cs
<1> QED BY <1>1, <1>2

LEMMA AnsweredSafe ==
    ASSUME SafeCalls(calls, chosen), NEW i \in 1 .. Len(calls), NEW call,
           SafeIn(call.form, chosen), Answered(i, call)
    PROVE  SafeCalls(calls', chosen)
BY DEF SafeCalls, Answered

LEMMA SentSafe ==
    ASSUME Typed, NEW c, SafeCalls(calls, c), NEW call \in Call, Send(call),
           SafeIn(call.form, c)
    PROVE  SafeCalls(calls', c)
<1>1. Len(calls) \in Nat
  BY DEF Typed, CallsOK
<1> QED BY <1>1, SentFacts DEF SafeCalls

LEMMA FormsServe ==
    ASSUME Typed, Forms, NEW i \in 1 .. Len(calls), Serve(i) PROVE Forms'
<1>0. CallsOK(calls) /\ calls[i] \in Call /\ SafeIn(calls[i].form, chosen)
  BY DEF Typed, CallsOK, Forms, SafeCalls
<1>1. ASSUME NEW reply \in Replies, Answer(i, reply)
      PROVE  SafeCalls(calls', chosen') /\ UNCHANGED <<ui, chosen>>
  <2>1. Answered(i, [calls[i] EXCEPT !.reply = reply])
    BY <1>0, <1>1, AnswerFacts
  <2>2. [calls[i] EXCEPT !.reply = reply].form = calls[i].form
    BY <1>0 DEF Call
  <2> QED BY <1>0, <1>1, <2>1, <2>2, AnsweredSafe DEF Answer, Forms
<1>2. CASE AnswerRefused(i)
  <2>1. PICK reply \in Refusals(calls[i]) : Answer(i, reply)
    BY <1>2 DEF AnswerRefused
  <2>2. reply \in Replies
    BY RefusalsKnown DEF Replies
  <2> QED BY <1>1, <1>2, <2>1, <2>2 DEF AnswerRefused, Forms, server
<1>3. ASSUME NEW eff, NEW found \in copies, AnswerLoad(i, eff, found) PROVE Forms'
  <2> DEFINE form == [path |-> found.path, rest |-> found.rest]
  <2>1. SafeIn(form, chosen)
    <3>1. found.rest \in chosen /\ found.rest \in Values
      BY DEF Forms, Typed, ServerOK, Settings
    <3> QED BY <3>1, Constants DEF SafeIn
  <2>2. [calls[i] EXCEPT !.reply = "ok", !.form = form].form = form
    BY <1>0 DEF Call
  <2>3. Answered(i, [calls[i] EXCEPT !.reply = "ok", !.form = form])
    BY <1>3, LoadFacts
  <2>4. SafeCalls(calls', chosen)
    BY <2>1, <2>2, <2>3, AnsweredSafe DEF Forms
  <2> QED BY <1>3, <2>4 DEF AnswerLoad, Forms, server, history
<1>4. ASSUME NEW eff, NEW reply \in {"ok", "error"}, AnswerSave(i, eff, reply)
      PROVE  Forms'
  <2>1. PICK s \in Stored(calls[i]) : Write(s)
    BY <1>4 DEF AnswerSave
  <2>2. s.rest \in chosen
    BY <1>0, <2>1 DEF Stored, SafeIn
  <2>3. SafeCalls(calls', chosen') /\ UNCHANGED <<ui, chosen>>
    BY <1>1, <1>4 DEF AnswerSave, Replies
  <2> QED BY <2>1, <2>2, <2>3 DEF Write, Forms
<1>5. ASSUME NEW eff, NEW reply \in {"ok", "error"}, AnswerAdd(i, eff, reply)
      PROVE  Forms'
  <2>1. SafeCalls(calls', chosen') /\ UNCHANGED <<ui, chosen>>
    BY <1>1, <1>5 DEF AnswerAdd, Replies
  <2> QED BY <1>5, <2>1 DEF AnswerAdd, Forms, server
<1> QED BY <1>2, <1>3, <1>4, <1>5 DEF Serve

(* A step that changes no settings and sends nothing that was typed.  *)
LEMMA FormsKept ==
    ASSUME Forms, UNCHANGED <<row, copies, chosen>>,
           SafeIn(ui'.form, chosen), SafeCalls(calls', chosen)
    PROVE  Forms'
BY DEF Forms

LEMMA SameForm ==
    ASSUME ui \in Page, NEW reply
    PROVE  /\ Seen(reply).form = ui.form /\ NoDialog(ui).form = ui.form
           /\ \A view : [ui EXCEPT !.view = view].form = ui.form
           /\ \A path : [OnAgain(reply) EXCEPT !.leaving = path].form = ui.form
           /\ \A off : [Seen(reply) EXCEPT !.posting = off].form = ui.form
<1>1. Seen(reply) \in Page /\ Seen(reply).form = ui.form
  BY SeenIsPage DEF Seen, Page
<1>2. OnAgain(reply) \in Page /\ OnAgain(reply).form = ui.form
  BY <1>1 DEF OnAgain, Page
<1> QED BY <1>1, <1>2 DEF NoDialog, Page

LEMMA FormsTake ==
    ASSUME Typed, Forms, NEW i \in 1 .. Len(calls), Take(i) PROVE Forms'
<1>0. /\ SafeCalls(Rest(i), chosen) /\ SafeIn(ui.form, chosen) /\ ui \in Page
      /\ SafeCalls(Append(Rest(i), New("load")), chosen)
      /\ SafeCalls(Append(Rest(i), New("me")), chosen)
      /\ SafeIn(calls[i].form, chosen)
  BY RestIsSafe DEF Forms, Kinds, Typed, SafeCalls
<1>1. CASE TakeLoad(i)
  <2>1. [ui EXCEPT !.form = calls[i].form, !.known = calls[i].form.path].form
          = calls[i].form
    BY <1>0 DEF Page
  <2>2. SafeIn(ui'.form, chosen)
    BY <1>0, <1>1, <2>1, SameForm DEF TakeLoad
  <2> QED BY <1>0, <1>1, <2>2, FormsKept DEF TakeLoad, Took, server
<1>2. CASE TakeSave(i)
  <2>1. ui'.form = ui.form
    BY <1>0, <1>2, SameForm DEF TakeSave
  <2>2. SafeCalls(calls', chosen)
    BY <1>0, <1>2 DEF TakeSave
  <2> QED BY <1>0, <1>2, <2>1, <2>2, FormsKept DEF TakeSave, Took, server
<1>3. CASE TakeAdd(i)
  <2>1. ui'.form = ui.form
    <3>1. CASE Good(calls[i].reply)
      BY <1>0, <1>3, <3>1, SameForm DEF TakeAdd
    <3>2. CASE ~Good(calls[i].reply)
      <4>1. ui' = [Seen(calls[i].reply) EXCEPT !.posting = @ /\ ui.dialog # calls[i].dialog]
        BY <1>3, <3>2 DEF TakeAdd
      <4> QED BY <1>0, <4>1, SeenIsPage, SameForm DEF Page
    <3> QED BY <3>1, <3>2
  <2>2. SafeCalls(calls', chosen)
    BY <1>0, <1>3 DEF TakeAdd
  <2> QED BY <1>0, <1>3, <2>1, <2>2, FormsKept DEF TakeAdd, Took, server
<1>4. ASSUME NEW eff, NEW reply,
             \/ Status(i, eff, reply) \/ Me(i, eff, reply) \/ Login(i, eff, reply)
             \/ Logout(i, eff, reply) \/ Other(i, eff, reply)
      PROVE  Forms'
  <2>1. UNCHANGED <<row, copies, chosen>>
    BY <1>4 DEF Status, Me, Login, Logout, Other, Ends, server, history
  <2>2. SafeCalls(calls', chosen)
    BY <1>0, <1>4 DEF Status, Me, Login, Logout, Other, EnterMain
  <2>3. ui'.form = ui.form
    <3>0. /\ [ui EXCEPT !.view = "main"].form = ui.form
          /\ [ui EXCEPT !.view = "login"].form = ui.form
          /\ Seen(reply).form = ui.form /\ NoDialog(ui).form = ui.form
      BY <1>0, SameForm
    <3>1. CASE Status(i, eff, reply)
      BY <1>0, <3>1 DEF Status, Page
    <3>2. CASE Me(i, eff, reply) \/ Login(i, eff, reply)
      <4>1. ui' \in {[ui EXCEPT !.view = "main"], Seen(reply), ui}
        BY <3>2 DEF Me, Login, EnterMain
      <4> QED BY <3>0, <4>1
    <3>3. CASE Logout(i, eff, reply) \/ Other(i, eff, reply)
      <4>1. ui' \in {[ui EXCEPT !.view = "login"], NoDialog(ui), Seen(reply), ui}
        BY <3>3 DEF Logout, Other
      <4> QED BY <3>0, <4>1
    <3> QED BY <1>4, <3>1, <3>2, <3>3
  <2> QED BY <1>0, <2>1, <2>2, <2>3, FormsKept
<1> QED BY <1>1, <1>2, <1>3, <1>4 DEF Take

LEMMA SafeGrows ==
    ASSUME NEW f, NEW c, NEW d, c \subseteq d, SafeIn(f, c)
    PROVE  SafeIn(f, d)
BY DEF SafeIn

LEMMA FormsPress == ASSUME Typed, Forms, Press PROVE Forms'
<1>0. /\ UNCHANGED <<row, copies>> /\ ui \in Page
      /\ SafeIn(ui.form, chosen) /\ SafeCalls(calls, chosen)
  BY DEF Press, server, Typed, Forms
<1>1. CASE PressLogin \/ PressLogout \/ PressOther
  <2>1. PICK kind \in {"login", "logout", "other"} : Send(New(kind))
    BY <1>1 DEF PressLogin, PressLogout, PressOther
  <2>2. UNCHANGED <<ui, chosen>>
    BY <1>1 DEF PressLogin, PressLogout, PressOther, history
  <2>3. SafeCalls(calls', chosen)
    BY <1>0, <2>1, NewIsCall, NewIsSafe, SentSafe DEF Kinds, Public
  <2> QED BY <1>0, <2>2, <2>3, FormsKept
<1>2. CASE CloseDialog
  BY <1>0, <1>2, SameForm, FormsKept DEF CloseDialog, history
<1>3. ASSUME NEW tab, SwitchTab(tab) PROVE Forms'
  <2>1. ui'.form = ui.form
    BY <1>0, <1>3 DEF SwitchTab, Page
  <2> QED BY <1>0, <1>3, <2>1, FormsKept DEF SwitchTab, history
<1>4. ASSUME NEW d, OpenDialog(d) PROVE Forms'
  <2>1. ui'.form = ui.form
    BY <1>0, <1>4 DEF OpenDialog, Page
  <2> QED BY <1>0, <1>4, <2>1, FormsKept DEF OpenDialog
<1>5. ASSUME NEW path \in Names \cup {ui.form.path}, NEW rest \in Values \cup {ui.form.rest},
             NEW salted \in BOOLEAN, PressSave(path, rest, salted)
      PROVE  Forms'
  <2> DEFINE form == [path |-> path, rest |-> rest]
             call == [New("save") EXCEPT !.form = form, !.known = ui.known,
                                         !.salted = salted]
  <2>1. form \in Form /\ ui.known \in Names \cup {Blank}
    BY <1>0 DEF Form, Page
  <2>2. New("save") \in Call
    BY NewIsCall DEF Kinds
  <2>3. form.path = path /\ form.rest = rest
    OBVIOUS
  <2>4. chosen \subseteq chosen'
    BY <1>5 DEF PressSave
  <2>5. SafeIn(form, chosen')
    <3>1. rest # Blank => rest \in chosen'
      BY <1>0, <1>5 DEF PressSave, SafeIn
    <3>2. path # Blank /\ rest = Blank => Fallback \in chosen'
      <4>1. CASE path = ui.form.path
        <5>1. CASE ui.form.rest = Blank
          BY <1>0, <2>4, <4>1, <5>1 DEF SafeIn
        <5>2. CASE ui.form.rest # Blank
          BY <5>2, Constants
        <5> QED BY <5>1, <5>2
      <4>2. CASE path # ui.form.path
        BY <1>5, <4>2 DEF PressSave
      <4> QED BY <4>1, <4>2
    <3> QED BY <2>3, <3>1, <3>2 DEF SafeIn
  <2>6. Send(call) /\ ui' = [ui EXCEPT !.form = form, !.saving = TRUE]
    BY <1>5 DEF PressSave
  <2> HIDE DEF form
  <2>7. call \in Call /\ call.form = form
    BY <2>1, <2>2 DEF Call
  <2> HIDE DEF call
  <2>8. SafeCalls(calls, chosen')
    BY <1>0, <2>4, SafeGrows DEF SafeCalls
  <2>9. SafeCalls(calls', chosen')
    BY <2>5, <2>6, <2>7, <2>8, SentSafe
  <2>10. ui'.form = form
    BY <1>0, <2>6 DEF Page
  <2>11. row.rest \in chosen' /\ \A s \in copies : s.rest \in chosen'
    BY <2>4 DEF Forms
  <2> QED BY <1>0, <2>5, <2>9, <2>10, <2>11 DEF Forms
<1> QED BY <1>1, <1>2, <1>3, <1>4, <1>5 DEF Press

LEMMA FormsOthers ==
    ASSUME Typed, Forms,
           \/ PressAdd \/ Reopen \/ Forget
           \/ \E eff \in Effective : Retry(eff) \/ Leave(eff)
           \/ \E path \in Paths, rest \in Values, salted \in BOOLEAN :
                Elsewhere(path, rest, salted)
    PROVE  Forms'
<1>0. ui \in Page /\ SafeIn(ui.form, chosen) /\ SafeCalls(calls, chosen)
  BY DEF Typed, Forms
<1>1. CASE PressAdd
  <2> DEFINE call == [New("add") EXCEPT !.dialog = ui.dialog]
  <2>1. New("add") \in Call /\ SafeIn(New("add").form, chosen)
    BY NewIsCall, NewIsSafe DEF Kinds
  <2>2. call \in Call /\ call.form = New("add").form
    BY <1>0, <2>1 DEF Call, Page
  <2>3. Send(call)
    BY <1>1 DEF PressAdd
  <2> HIDE DEF call
  <2>4. SafeCalls(calls', chosen)
    BY <1>0, <2>1, <2>2, <2>3, SentSafe
  <2>5. ui'.form = ui.form
    BY <1>0, <1>1 DEF PressAdd, Page
  <2> QED BY <1>0, <1>1, <2>4, <2>5, FormsKept DEF PressAdd, server, history
<1>2. ASSUME NEW addr, NEW eff, Open(addr, eff) PROVE Forms'
  <2>1. ui'.form = BlankForm
    BY <1>2 DEF Open, Fresh
  <2>2. calls' = <<>> \/ calls' = <<New("status")>>
    BY <1>2 DEF Open
  <2>3. SafeIn(New("status").form, chosen)
    BY NewIsSafe DEF Kinds, Public
  <2>4. SafeCalls(calls', chosen)
    BY <2>2, <2>3 DEF SafeCalls
  <2> QED BY <1>2, <2>1, <2>4, BlankIsSafe, FormsKept DEF Open, server, history
<1>3. CASE Forget
  BY <1>3 DEF Forget, Forms, history
<1>4. ASSUME NEW path \in Paths, NEW rest \in Values, NEW salted \in BOOLEAN,
             Elsewhere(path, rest, salted)
      PROVE  Forms'
  <2>1. /\ row'.rest = rest /\ chosen' = chosen \cup {rest}
        /\ copies' = copies \cup {row'} /\ UNCHANGED <<ui, calls>>
    BY <1>4 DEF Elsewhere, Write
  <2>2. SafeIn(ui.form, chosen') /\ SafeCalls(calls, chosen')
    BY <1>0, <2>1, SafeGrows DEF SafeCalls
  <2> QED BY <2>1, <2>2 DEF Forms
<1> QED BY <1>1, <1>2, <1>3, <1>4 DEF Reopen, Retry, Leave

LEMMA FormsStep == Typed /\ Forms /\ [Next]_vars => Forms'
<1> SUFFICES ASSUME Typed, Forms, [Next]_vars PROVE Forms'
  OBVIOUS
<1>1. CASE UNCHANGED vars
  BY <1>1 DEF vars, server, history, Forms
<1> QED BY <1>1, FormsServe, FormsTake, FormsPress, FormsOthers DEF Next

LEMMA FormsInit == Init => Forms
BY BlankIsSafe DEF Init, Forms, Fresh, SafeCalls

(***************************************************************************)
(* Whatever order answers come in and however old they are, no values get  *)
(* into the row that nobody chose: a form on the page, or in a call, holds *)
(* values somebody chose or has no path, and without one it is refused.    *)
(***************************************************************************)
THEOREM FormsAreSafe == Spec => []NothingWiped
<1>1. Forms => NothingWiped
  BY DEF Forms, NothingWiped
<1> QED BY <1>1, AlwaysTyped, FormsInit, FormsStep, PTL DEF Spec

-----------------------------------------------------------------------------
(***************************************************************************)
(* Until the panel moves, every isolate goes by its first path.  A page    *)
(* under another one is the landing page: it calls nothing, and no call    *)
(* was answered with that page.                                            *)
(***************************************************************************)
Honest == {c \in Call : c.reply # "landing"}

Adrift == ui.view = "landing" /\ ui.dialog = 0 /\ calls = <<>>

Still ==
    /\ row.path = First /\ \A s \in copies : s.path = First
    /\ ui.addr = First \/ Adrift
    /\ calls \in Seq(Honest)
    /\ ~untrue

StillUnmoved == ~moved => Still

LEMMA NewIsHonest == ASSUME NEW kind \in Kinds PROVE New(kind) \in Honest
BY NewIsCall DEF Honest

LEMMA RestIsHonest ==
    ASSUME calls \in Seq(Honest), NEW i \in 1 .. Len(calls)
    PROVE  /\ Rest(i) \in Seq(Honest)
           /\ \A kind \in Kinds : Append(Rest(i), New(kind)) \in Seq(Honest)
BY Removed, NewIsHonest, AppendProperties DEF Rest

LEMMA SentHonest ==
    ASSUME calls \in Seq(Honest), NEW call \in Honest, Send(call)
    PROVE  calls' \in Seq(Honest)
BY AppendProperties DEF Send

LEMMA NoLandingAtHome ==
    ASSUME Still, NEW i \in 1 .. Len(calls)
    PROVE  /\ ui.addr = First /\ calls[i] \in Honest
           /\ \A c : Refusals(c) \subseteq {"error", "unauthorized"}
<1>1. ui.addr = First /\ calls[i] \in Honest
  BY DEF Still, Adrift
<1>2. \A e \in Effective : e.path = ui.addr
  BY <1>1 DEF Still, Effective, Envless
<1> QED BY <1>1, <1>2 DEF Refusals

(* The page stays where it is, unless it is opened anew.  *)
LEMMA SameAddress ==
    ASSUME ui \in Page, NEW reply
    PROVE  /\ Seen(reply).addr = ui.addr /\ NoDialog(ui).addr = ui.addr
           /\ \A view : [ui EXCEPT !.view = view].addr = ui.addr
           /\ \A path : [OnAgain(reply) EXCEPT !.leaving = path].addr = ui.addr
           /\ \A off : [Seen(reply) EXCEPT !.posting = off].addr = ui.addr
<1>1. Seen(reply) \in Page /\ Seen(reply).addr = ui.addr
  BY SeenIsPage DEF Seen, Page
<1>2. OnAgain(reply) \in Page /\ OnAgain(reply).addr = ui.addr
  BY <1>1 DEF OnAgain, Page
<1> QED BY <1>1, <1>2 DEF NoDialog, Page

LEMMA StillAtHome ==
    ASSUME Still, UNCHANGED <<row, copies, untrue>>,
           ui'.addr = First, calls' \in Seq(Honest)
    PROVE  Still'
BY DEF Still

LEMMA WriteMoves ==
    ASSUME Still, NEW s, Write(s), ~moved'
    PROVE  row'.path = First /\ \A t \in copies' : t.path = First
BY DEF Write, Still

LEMMA StillServe ==
    ASSUME Typed, Still, ~moved', NEW i \in 1 .. Len(calls), Serve(i) PROVE Still'
<1>0. /\ ui.addr = First /\ calls[i] \in Honest /\ calls[i] \in Call
      /\ \A c : Refusals(c) \subseteq {"error", "unauthorized"}
  BY NoLandingAtHome DEF Honest
<1>1. ASSUME NEW reply \in {"ok", "error", "unauthorized"}, Answer(i, reply)
      PROVE  calls' \in Seq(Honest) /\ UNCHANGED <<ui, untrue>>
  <2> DEFINE call == [calls[i] EXCEPT !.reply = reply]
  <2>1. call \in Honest
    BY <1>0 DEF Honest, Call
  <2>2. calls' = [calls EXCEPT ![i] = call] /\ UNCHANGED <<ui, untrue>>
    BY <1>1 DEF Answer
  <2> HIDE DEF call
  <2> QED BY <2>1, <2>2, Replaced DEF Still
<1>2. CASE AnswerRefused(i)
  <2>1. PICK reply \in Refusals(calls[i]) : Answer(i, reply)
    BY <1>2 DEF AnswerRefused
  <2>2. reply \in {"ok", "error", "unauthorized"}
    BY <1>0
  <2> QED BY <1>0, <1>1, <1>2, <2>1, <2>2, StillAtHome DEF AnswerRefused, server
<1>3. ASSUME NEW eff, NEW found \in copies, AnswerLoad(i, eff, found) PROVE Still'
  <2> DEFINE form == [path |-> found.path, rest |-> found.rest]
             call == [calls[i] EXCEPT !.reply = "ok", !.form = form]
  <2>1. form \in Form
    BY Constants DEF Typed, ServerOK, Settings, Form
  <2>2. calls' = [calls EXCEPT ![i].reply = "ok", ![i].form = form]
    BY <1>3 DEF AnswerLoad
  <2> HIDE DEF form
  <2>3. call \in Honest
    BY <1>0, <2>1 DEF Honest, Call
  <2>4. calls' = [calls EXCEPT ![i] = call]
    BY <1>0, <2>2 DEF Still, Call
  <2> HIDE DEF call
  <2>5. calls' \in Seq(Honest)
    BY <2>3, <2>4, Replaced DEF Still
  <2> QED BY <1>0, <1>3, <2>5, StillAtHome DEF AnswerLoad, server, history
<1>4. ASSUME NEW eff, NEW reply \in {"ok", "error"}, AnswerSave(i, eff, reply)
      PROVE  Still'
  <2>1. PICK s : Write(s)
    BY <1>4 DEF AnswerSave
  <2>2. calls' \in Seq(Honest) /\ UNCHANGED <<ui, untrue>>
    BY <1>1, <1>4 DEF AnswerSave
  <2> QED BY <1>0, <2>1, <2>2, WriteMoves DEF Still
<1>5. ASSUME NEW eff, NEW reply \in {"ok", "error"}, AnswerAdd(i, eff, reply)
      PROVE  Still'
  <2>1. calls' \in Seq(Honest) /\ UNCHANGED <<ui, untrue>>
    BY <1>1, <1>5 DEF AnswerAdd
  <2> QED BY <1>0, <1>5, <2>1, StillAtHome DEF AnswerAdd, server
<1> QED BY <1>2, <1>3, <1>4, <1>5 DEF Serve

LEMMA StillTake ==
    ASSUME Typed, Still, NEW i \in 1 .. Len(calls), Take(i) PROVE Still'
<1>0. /\ ui.addr = First /\ calls[i] \in Honest /\ ui \in Page
      /\ Rest(i) \in Seq(Honest) /\ Append(Rest(i), New("load")) \in Seq(Honest)
      /\ Append(Rest(i), New("me")) \in Seq(Honest)
  BY NoLandingAtHome, RestIsHonest DEF Still, Typed, Kinds
<1>1. CASE TakeLoad(i)
  <2>1. [ui EXCEPT !.form = calls[i].form, !.known = calls[i].form.path].addr = ui.addr
    BY <1>0 DEF Page
  <2>2. ui'.addr = First
    BY <1>0, <1>1, <2>1, SameAddress DEF TakeLoad
  <2> QED BY <1>0, <1>1, <2>2, StillAtHome DEF TakeLoad, Took, server
<1>2. CASE TakeSave(i)
  <2>1. ui'.addr = First
    BY <1>0, <1>2, SameAddress DEF TakeSave
  <2>2. calls' \in Seq(Honest)
    BY <1>0, <1>2 DEF TakeSave
  <2>3. UNCHANGED <<row, copies>> /\ untrue' = untrue
    <3>1. calls[i].reply # "landing" /\ untrue \in BOOLEAN
      BY <1>0 DEF Honest, Typed, RestOK
    <3>2. untrue' = (untrue \/ (Good(calls[i].reply) /\ calls[i].reply # "ok"))
      BY <1>2 DEF TakeSave
    <3>3. untrue' = untrue
      BY <3>1, <3>2 DEF Good
    <3> QED BY <1>2, <3>3 DEF TakeSave, Took, server
  <2> QED BY <2>1, <2>2, <2>3, StillAtHome
<1>3. CASE TakeAdd(i)
  <2>1. ui'.addr = First
    <3>1. CASE Good(calls[i].reply)
      BY <1>0, <1>3, <3>1, SameAddress DEF TakeAdd
    <3>2. CASE ~Good(calls[i].reply)
      <4>1. ui' = [Seen(calls[i].reply) EXCEPT !.posting = @ /\ ui.dialog # calls[i].dialog]
        BY <1>3, <3>2 DEF TakeAdd
      <4> QED BY <1>0, <4>1, SeenIsPage, SameAddress DEF Page
    <3> QED BY <3>1, <3>2
  <2> QED BY <1>0, <1>3, <2>1, StillAtHome DEF TakeAdd, Took, server
<1>4. ASSUME NEW eff, NEW reply,
             \/ Status(i, eff, reply) \/ Me(i, eff, reply) \/ Login(i, eff, reply)
             \/ Logout(i, eff, reply) \/ Other(i, eff, reply)
      PROVE  Still'
  <2>1. UNCHANGED <<row, copies, untrue>>
    BY <1>4 DEF Status, Me, Login, Logout, Other, Ends, server, history
  <2>2. calls' \in Seq(Honest)
    BY <1>0, <1>4 DEF Status, Me, Login, Logout, Other, EnterMain
  <2>3. ui'.addr = ui.addr
    <3>0. /\ [ui EXCEPT !.view = "main"].addr = ui.addr
          /\ [ui EXCEPT !.view = "login"].addr = ui.addr
          /\ Seen(reply).addr = ui.addr /\ NoDialog(ui).addr = ui.addr
      BY <1>0, SameAddress
    <3>1. CASE Status(i, eff, reply)
      BY <1>0, <3>1 DEF Status, Page
    <3>2. CASE ~Status(i, eff, reply)
      <4>1. ui' \in {[ui EXCEPT !.view = "main"], [ui EXCEPT !.view = "login"],
                     NoDialog(ui), Seen(reply), ui}
        BY <1>4, <3>2 DEF Me, Login, Logout, Other, EnterMain
      <4> QED BY <3>0, <4>1
    <3> QED BY <3>1, <3>2
  <2> QED BY <1>0, <2>1, <2>2, <2>3, StillAtHome
<1> QED BY <1>1, <1>2, <1>3, <1>4 DEF Take

LEMMA StillPress == ASSUME Typed, Still, Press PROVE Still'
<1>0. UNCHANGED <<row, copies>> /\ ui \in Page /\ calls \in Seq(Honest)
  BY DEF Press, server, Typed, Still
<1>1. CASE ui.addr = First
  <2>1. ASSUME NEW call \in Honest, Send(call), ui'.addr = ui.addr, UNCHANGED untrue
        PROVE  Still'
    BY <1>0, <1>1, <2>1, SentHonest, StillAtHome
  <2>2. CASE PressLogin \/ PressLogout \/ PressOther
    <3>1. PICK kind \in {"login", "logout", "other"} : Send(New(kind))
      BY <2>2 DEF PressLogin, PressLogout, PressOther
    <3>2. New(kind) \in Honest
      BY NewIsHonest DEF Kinds, Public
    <3> QED BY <2>1, <2>2, <3>1, <3>2 DEF PressLogin, PressLogout, PressOther, history
  <2>3. CASE CloseDialog
    BY <1>0, <1>1, <2>3, SameAddress, StillAtHome DEF CloseDialog, history
  <2>4. ASSUME NEW tab, SwitchTab(tab) PROVE Still'
    <3>1. ui'.addr = ui.addr
      BY <1>0, <2>4 DEF SwitchTab, Page
    <3> QED BY <1>0, <1>1, <2>4, <3>1, StillAtHome DEF SwitchTab, history
  <2>5. ASSUME NEW d, OpenDialog(d) PROVE Still'
    <3>1. ui'.addr = ui.addr
      BY <1>0, <2>5 DEF OpenDialog, Page
    <3> QED BY <1>0, <1>1, <2>5, <3>1, StillAtHome DEF OpenDialog
  <2>6. ASSUME NEW path \in Names \cup {ui.form.path},
               NEW rest \in Values \cup {ui.form.rest},
               NEW salted \in BOOLEAN, PressSave(path, rest, salted)
        PROVE  Still'
    <3> DEFINE form == [path |-> path, rest |-> rest]
               call == [New("save") EXCEPT !.form = form, !.known = ui.known,
                                           !.salted = salted]
    <3>1. form \in Form /\ ui.known \in Names \cup {Blank}
      BY <1>0 DEF Form, Page
    <3>2. Send(call) /\ ui' = [ui EXCEPT !.form = form, !.saving = TRUE]
      BY <2>6 DEF PressSave
    <3> HIDE DEF form
    <3>3. New("save") \in Honest
      BY NewIsHonest DEF Kinds
    <3>4. call \in Honest
      BY <3>1, <3>3 DEF Honest, Call
    <3>5. ui'.addr = ui.addr
      BY <1>0, <3>2 DEF Page
    <3> HIDE DEF call
    <3> QED BY <2>1, <2>6, <3>2, <3>4, <3>5 DEF PressSave
  <2> QED BY <2>2, <2>3, <2>4, <2>5, <2>6 DEF Press
<1>2. CASE Adrift
  BY <1>2 DEF Adrift, Press, PressLogin, PressLogout, PressOther, CloseDialog,
              SwitchTab, OpenDialog, PressSave
<1> QED BY <1>1, <1>2 DEF Still

LEMMA StillOthers ==
    ASSUME Typed, Still, ~moved',
           \/ PressAdd \/ Reopen \/ Forget
           \/ \E eff \in Effective : Retry(eff) \/ Leave(eff)
           \/ \E path \in Paths, rest \in Values, salted \in BOOLEAN :
                Elsewhere(path, rest, salted)
    PROVE  Still'
<1>0. ui \in Page /\ calls \in Seq(Honest)
  BY DEF Typed, Still
<1>1. CASE PressAdd
  <2> DEFINE call == [New("add") EXCEPT !.dialog = ui.dialog]
  <2>1. New("add") \in Honest
    BY NewIsHonest DEF Kinds
  <2>2. call \in Honest
    BY <1>0, <2>1 DEF Honest, Call, Page
  <2>3. Send(call) /\ ui.addr = First
    BY <1>1 DEF PressAdd, Still, Adrift
  <2> HIDE DEF call
  <2>4. calls' \in Seq(Honest)
    BY <1>0, <2>2, <2>3, SentHonest
  <2>5. ui'.addr = First
    BY <1>0, <1>1, <2>3 DEF PressAdd, Page
  <2> QED BY <1>1, <2>4, <2>5, StillAtHome DEF PressAdd, server, history
<1>2. ASSUME NEW addr, NEW eff \in Effective, Open(addr, eff) PROVE Still'
  <2>1. eff.path = First
    BY DEF Still, Effective, Envless
  <2>2. UNCHANGED <<row, copies, untrue>>
    BY <1>2 DEF Open, server, history
  <2>3. CASE addr = First
    <3>1. ui'.addr = First
      BY <1>2, <2>3 DEF Open, Fresh
    <3>2. calls' \in Seq(Honest)
      <4>1. calls' = <<New("status")>>
        BY <1>2, <2>1, <2>3 DEF Open
      <4> QED BY <4>1, NewIsHonest DEF Kinds, Public
    <3> QED BY <2>2, <3>1, <3>2, StillAtHome
  <2>4. CASE addr # First
    <3>1. ui' = Fresh(addr, "landing") /\ calls' = <<>>
      BY <1>2, <2>1, <2>4 DEF Open
    <3>2. Adrift' /\ calls' \in Seq(Honest)
      BY <3>1 DEF Fresh, Adrift
    <3> QED BY <2>2, <3>2 DEF Still
  <2> QED BY <2>3, <2>4
<1>3. CASE Forget
  BY <1>3 DEF Forget, Still, Adrift, history
<1>4. ASSUME NEW path, NEW rest, NEW salted, Elsewhere(path, rest, salted) PROVE Still'
  <2> DEFINE s == [path |-> path, rest |-> rest, pw |-> Salted(salted)]
  <2>1. Write(s) /\ UNCHANGED <<ui, calls, untrue>>
    BY <1>4 DEF Elsewhere
  <2> HIDE DEF s
  <2> QED BY <2>1, WriteMoves DEF Still, Adrift
<1> QED BY <1>1, <1>2, <1>3, <1>4 DEF Reopen, Retry, Leave

(* The panel does not move back: what was unmoved after a step, was before. *)
LEMMA MovedStays == ASSUME Typed, Next PROVE moved => moved'
<1>1. \A s : Write(s) => (moved => moved')
  BY DEF Write
<1>2. ASSUME NEW i, Serve(i) PROVE moved => moved'
  BY <1>1, <1>2 DEF Serve, AnswerRefused, AnswerLoad, AnswerSave, AnswerAdd, server
<1>3. ASSUME NEW i, Take(i) PROVE moved => moved'
  BY <1>3 DEF Take, TakeLoad, TakeSave, TakeAdd, Took, Status, Me, Login, Logout,
              Other, Ends, server
<1>4. Press \/ PressAdd \/ Reopen \/ Forget => (moved => moved')
  BY DEF Press, PressAdd, Reopen, Forget, Open, server
<1>5. \A eff : Retry(eff) \/ Leave(eff) => (moved => moved')
  BY DEF Retry, Leave, Open, server
<1>6. \A path, rest, salted : Elsewhere(path, rest, salted) => (moved => moved')
  BY <1>1 DEF Elsewhere
<1> QED BY <1>2, <1>3, <1>4, <1>5, <1>6 DEF Next

LEMMA StillStep == Typed /\ StillUnmoved /\ [Next]_vars => StillUnmoved'
<1> SUFFICES ASSUME Typed, StillUnmoved, [Next]_vars, ~moved' PROVE Still'
  BY DEF StillUnmoved
<1>1. CASE UNCHANGED vars
  BY <1>1 DEF vars, server, history, StillUnmoved, Still, Adrift
<1>2. CASE Next
  <2>1. Still
    BY <1>2, MovedStays DEF StillUnmoved
  <2> QED BY <1>2, <2>1, StillServe, StillTake, StillPress, StillOthers DEF Next
<1> QED BY <1>1, <1>2

LEMMA StillInit == Init => StillUnmoved
BY DEF Init, StillUnmoved, Still, Fresh

(***************************************************************************)
(* "Saved" is shown for nothing only after the panel has moved: as long as *)
(* it has not, every isolate answers under its path, and no landing page   *)
(* is there to pass for a success.                                         *)
(***************************************************************************)
THEOREM SavedMeansSaved == Spec => []SavedIsTrue
<1>1. StillUnmoved => SavedIsTrue
  BY DEF StillUnmoved, Still, SavedIsTrue
<1> QED BY <1>1, AlwaysTyped, StillInit, StillStep, PTL DEF Spec

-----------------------------------------------------------------------------
(***************************************************************************)
(* A dialog has created nothing before it was opened, and until one of its *)
(* calls failed it makes one: its button is on only before that.           *)
(***************************************************************************)
Adds(d) == {j \in 1 .. Len(calls) : calls[j].kind = "add" /\ calls[j].dialog = d}

Unopened(d) == Adds(d) = {} /\ made[d].users = 0 /\ ui.dialog # d

Unfailed(d) ==
    /\ made[d].users <= 1
    /\ \A j, k \in Adds(d) : j = k
    /\ \A j \in Adds(d) : calls[j].reply = "none" => made[d].users = 0
    /\ ui.dialog = d /\ ~ui.posting => Adds(d) = {} /\ made[d].users = 0

Once(d) ==
    /\ ~made[d].opened => Unopened(d)
    /\ ~made[d].failed => Unfailed(d)

AllOnce == \A d \in 1 .. MaxDialogs : Once(d)

(* The users to be created are those of before, and none is asked again.  *)
Traced ==
    \E f \in [1 .. Len(calls') -> Nat] :
        /\ \A j \in 1 .. Len(calls') : calls'[j].kind = "add" =>
              /\ f[j] \in 1 .. Len(calls) /\ calls[f[j]].kind = "add"
              /\ calls[f[j]].dialog = calls'[j].dialog
              /\ calls'[j].reply = "none" => calls[f[j]].reply = "none"
        /\ \A j, k \in 1 .. Len(calls') :
              calls'[j].kind = "add" /\ calls'[k].kind = "add" /\ f[j] = f[k] => j = k

(* No dialog is put on the screen, and no button of one is on again.  *)
ScreenKept(d) ==
    ui'.dialog = d => ui.dialog = d /\ (~ui'.posting => ~ui.posting)

LEMMA OnceKept ==
    ASSUME NEW d, Once(d), Traced, ScreenKept(d), made'[d] = made[d]
    PROVE  Once(d)'
<1>1. PICK f \in [1 .. Len(calls') -> Nat] :
        /\ \A j \in 1 .. Len(calls') : calls'[j].kind = "add" =>
              /\ f[j] \in 1 .. Len(calls) /\ calls[f[j]].kind = "add"
              /\ calls[f[j]].dialog = calls'[j].dialog
              /\ calls'[j].reply = "none" => calls[f[j]].reply = "none"
        /\ \A j, k \in 1 .. Len(calls') :
              calls'[j].kind = "add" /\ calls'[k].kind = "add" /\ f[j] = f[k] => j = k
  BY DEF Traced
<1>2. \A j \in Adds(d)' :
         f[j] \in Adds(d) /\ (calls'[j].reply = "none" => calls[f[j]].reply = "none")
  BY <1>1 DEF Adds
<1>3. \A j, k \in Adds(d)' : f[j] = f[k] => j = k
  BY <1>1 DEF Adds
<1>4. ~made[d].opened => Unopened(d)'
  BY <1>2 DEF Once, Unopened, ScreenKept
<1>5. ~made[d].failed => Unfailed(d)'
  BY <1>2, <1>3 DEF Once, Unfailed, ScreenKept
<1> QED BY <1>4, <1>5 DEF Once

LEMMA TracedSame == ASSUME Typed, UNCHANGED calls PROVE Traced
<1> DEFINE f == [j \in 1 .. Len(calls) |-> j]
<1>1. Len(calls) \in Nat /\ f \in [1 .. Len(calls) -> Nat]
  BY DEF Typed, CallsOK
<1>2. \A j \in 1 .. Len(calls) : f[j] = j
  OBVIOUS
<1> HIDE DEF f
<1> QED BY <1>1, <1>2 DEF Traced

LEMMA TracedAnswer ==
    ASSUME Typed, NEW i \in 1 .. Len(calls), NEW call, Answered(i, call),
           call.kind = calls[i].kind, call.dialog = calls[i].dialog,
           call.reply # "none"
    PROVE  Traced
<1> DEFINE f == [j \in 1 .. Len(calls) |-> j]
<1>1. Len(calls) \in Nat /\ f \in [1 .. Len(calls) -> Nat]
  BY DEF Typed, CallsOK
<1>2. \A j \in 1 .. Len(calls) : f[j] = j
  OBVIOUS
<1> HIDE DEF f
<1> QED BY <1>1, <1>2 DEF Traced, Answered

LEMMA TracedCall ==
    ASSUME Typed, NEW call \in Call, call.kind # "add", Send(call)
    PROVE  Traced
<1> DEFINE f == [j \in 1 .. Len(calls) + 1 |-> j]
<1>1. Len(calls) \in Nat /\ f \in [1 .. Len(calls) + 1 -> Nat]
  BY DEF Typed, CallsOK
<1>2. \A j \in 1 .. Len(calls) + 1 : f[j] = j
  OBVIOUS
<1>3. /\ Len(calls') = Len(calls) + 1 /\ calls'[Len(calls) + 1] = call
      /\ \A j \in 1 .. Len(calls) : calls'[j] = calls[j]
  BY SentFacts
<1> HIDE DEF f
<1>4. ASSUME NEW j \in 1 .. Len(calls'), calls'[j].kind = "add"
      PROVE  f[j] = j /\ j \in 1 .. Len(calls) /\ calls'[j] = calls[j]
  BY <1>1, <1>2, <1>3, <1>4
<1> QED BY <1>1, <1>3, <1>4 DEF Traced

LEMMA TracedSent ==
    ASSUME Typed, NEW kind \in Kinds \ {"add"}, Send(New(kind))
    PROVE  Traced
BY NewIsCall, TracedCall

LEMMA TracedRest ==
    ASSUME Typed, NEW i \in 1 .. Len(calls),
           calls' = Rest(i)
             \/ \E kind \in Kinds \ {"add"} : calls' = Append(Rest(i), New(kind))
    PROVE  Traced
<1> DEFINE f == [j \in 1 .. Len(calls') |-> Skip(i, j)]
<1>1. /\ Len(calls) \in Nat /\ Len(calls') \in {Len(calls) - 1, Len(calls)}
      /\ \A j \in 1 .. Len(calls) - 1 :
            calls'[j] = calls[Skip(i, j)] /\ Skip(i, j) \in 1 .. Len(calls)
      /\ Len(calls') = Len(calls) => calls'[Len(calls)].kind # "add"
      /\ \A j, k \in 1 .. Len(calls) - 1 : Skip(i, j) = Skip(i, k) => j = k
  <2>1. ASSUME calls' = Rest(i)
        PROVE  /\ Len(calls') = Len(calls) - 1
               /\ \A j \in 1 .. Len(calls) - 1 : calls'[j] = calls[Skip(i, j)]
    BY <2>1, RestFacts
  <2>2. ASSUME NEW kind \in Kinds \ {"add"}, calls' = Append(Rest(i), New(kind))
        PROVE  /\ Len(calls') = Len(calls) /\ calls'[Len(calls)].kind # "add"
               /\ \A j \in 1 .. Len(calls) - 1 : calls'[j] = calls[Skip(i, j)]
    BY <2>2, NewIsCall, RestAndFacts
  <2>3. Len(calls') = Len(calls) - 1
          \/ (Len(calls') = Len(calls) /\ calls'[Len(calls)].kind # "add")
    BY <2>1, <2>2, RestFacts
  <2>4. \A j \in 1 .. Len(calls) - 1 : calls'[j] = calls[Skip(i, j)]
    BY <2>1, <2>2, RestFacts
  <2>5. Len(calls) \in Nat /\ Len(calls) # Len(calls) - 1
    BY RestFacts
  <2> QED BY <2>3, <2>4, <2>5, RestFacts
<1>2. \A j \in 1 .. Len(calls') : Skip(i, j) \in Nat /\ f[j] = Skip(i, j)
  BY <1>1 DEF Skip
<1>3. f \in [1 .. Len(calls') -> Nat]
  BY <1>2
<1> HIDE DEF f
<1>4. ASSUME NEW j \in 1 .. Len(calls'), calls'[j].kind = "add"
      PROVE  f[j] = Skip(i, j) /\ j \in 1 .. Len(calls) - 1
  BY <1>1, <1>2, <1>4
<1> QED BY <1>1, <1>3, <1>4 DEF Traced

LEMMA TracedFresh ==
    ASSUME calls' = <<>> \/ calls' = <<New("status")>> PROVE Traced
<1> DEFINE f == [j \in 1 .. Len(calls') |-> j]
<1>1. Len(calls') \in Nat /\ f \in [1 .. Len(calls') -> Nat]
  OBVIOUS
<1>2. \A j \in 1 .. Len(calls') : calls'[j].kind # "add"
  BY NewIsCall DEF Kinds, Public
<1> HIDE DEF f
<1> QED BY <1>1, <1>2 DEF Traced

LEMMA OnceServe ==
    ASSUME Typed, AllOnce, NEW i \in 1 .. Len(calls), Serve(i) PROVE AllOnce'
<1>0. CallsOK(calls) /\ calls[i] \in Call
  BY DEF Typed, CallsOK
<1>1. ASSUME NEW reply \in {"ok", "landing", "unauthorized", "error"}, Answer(i, reply)
      PROVE  /\ Traced /\ \A d : ScreenKept(d)
             /\ Answered(i, [calls[i] EXCEPT !.reply = reply])
  <2> DEFINE call == [calls[i] EXCEPT !.reply = reply]
  <2>1. Answered(i, call)
    BY <1>0, <1>1, AnswerFacts DEF Replies
  <2>2. call.kind = calls[i].kind /\ call.dialog = calls[i].dialog /\ call.reply # "none"
    BY <1>0 DEF Call
  <2> HIDE DEF call
  <2>3. Traced
    BY <2>1, <2>2, TracedAnswer
  <2>4. \A d : ScreenKept(d)
    BY <1>1 DEF Answer, ScreenKept
  <2> QED BY <2>1, <2>3, <2>4 DEF call
<1>2. ASSUME Traced, \A d : ScreenKept(d), UNCHANGED made PROVE AllOnce'
  BY <1>2, OnceKept DEF AllOnce
<1>3. CASE AnswerRefused(i)
  <2>1. PICK reply \in Refusals(calls[i]) : Answer(i, reply)
    BY <1>3 DEF AnswerRefused
  <2> QED BY <1>1, <1>2, <1>3, <2>1, RefusalsKnown DEF AnswerRefused
<1>4. ASSUME NEW eff, NEW found \in copies, AnswerLoad(i, eff, found) PROVE AllOnce'
  <2> DEFINE form == [path |-> found.path, rest |-> found.rest]
             call == [calls[i] EXCEPT !.reply = "ok", !.form = form]
  <2>1. Answered(i, call)
    BY <1>4, LoadFacts
  <2>2. call.kind = calls[i].kind /\ call.dialog = calls[i].dialog /\ call.reply # "none"
    BY <1>0 DEF Call
  <2> HIDE DEF call
  <2>3. Traced
    BY <2>1, <2>2, TracedAnswer
  <2> QED BY <1>2, <1>4, <2>3 DEF AnswerLoad, ScreenKept, history
<1>5. ASSUME NEW eff, NEW reply \in {"ok", "error"}, AnswerSave(i, eff, reply)
      PROVE  AllOnce'
  BY <1>1, <1>2, <1>5 DEF AnswerSave
<1>6. ASSUME NEW eff, NEW reply \in {"ok", "error"}, AnswerAdd(i, eff, reply)
      PROVE  AllOnce'
  <2> DEFINE call == [calls[i] EXCEPT !.reply = reply]
  <2>0. PICK o \in 1 .. MaxDialogs : o = calls[i].dialog
    BY <1>0, <1>6, Constants DEF AnswerAdd, Pending, CallsOK, Call
  <2>1. i \in Adds(o) /\ calls[i].reply = "none"
    BY <1>6, <2>0 DEF AnswerAdd, Pending, Adds
  <2>2. Traced /\ (\A d : ScreenKept(d)) /\ Answered(i, call)
    BY <1>1, <1>6 DEF AnswerAdd
  <2>3. call.kind = calls[i].kind /\ call.dialog = o /\ call.reply # "none"
    BY <1>0, <2>0 DEF Call
  <2>4. /\ made'[o].opened = made[o].opened /\ made'[o].failed = made[o].failed
        /\ made'[o].users = made[o].users + 1
        /\ \A d \in (1 .. MaxDialogs) \ {o} : made'[d] = made[d]
        /\ UNCHANGED ui
    BY <1>6, <2>0 DEF AnswerAdd, Answer, Typed, MadeOK
  <2> HIDE DEF call
  <2>5. Adds(o)' = Adds(o)
    BY <2>0, <2>2, <2>3 DEF Adds, Answered
  <2>6. \A d \in (1 .. MaxDialogs) \ {o} : Once(d)'
    BY <2>2, <2>4, OnceKept DEF AllOnce
  <2>7. made[o].opened /\ (~made[o].failed => Unfailed(o))
    BY <2>1 DEF AllOnce, Once, Unopened
  <2>8. ASSUME ~made[o].failed PROVE Unfailed(o)'
    <3>1. Adds(o) = {i} /\ made[o].users = 0 /\ ~(ui.dialog = o /\ ~ui.posting)
      BY <2>1, <2>7, <2>8 DEF Unfailed
    <3>2. calls'[i].reply # "none" /\ made'[o].users = 1
      BY <2>2, <2>3, <2>4, <3>1 DEF Answered
    <3> QED BY <2>4, <2>5, <3>1, <3>2 DEF Unfailed
  <2>9. Once(o)'
    BY <2>4, <2>7, <2>8 DEF Once
  <2> QED BY <2>6, <2>9 DEF AllOnce
<1> QED BY <1>3, <1>4, <1>5, <1>6 DEF Serve

(* What does not open a dialog leaves the screen as it is, or without one.  *)
LEMMA SameScreen ==
    ASSUME ui \in Page, NEW reply, NEW d \in 1 .. MaxDialogs
    PROVE  /\ ui' = ui => ScreenKept(d)
           /\ ui' = Seen(reply) => ScreenKept(d)
           /\ ui' = NoDialog(ui) => ScreenKept(d)
           /\ \A view : ui' = [ui EXCEPT !.view = view] => ScreenKept(d)
           /\ \A tab : ui' = [ui EXCEPT !.tab = tab] => ScreenKept(d)
           /\ \A path : ui' = [OnAgain(reply) EXCEPT !.leaving = path] => ScreenKept(d)
<1>0. d # 0
  BY Constants
<1>1. /\ Seen(reply) \in Page
      /\ Seen(reply).dialog = ui.dialog /\ Seen(reply).posting = ui.posting
  BY SeenIsPage DEF Seen, Page
<1>2. /\ OnAgain(reply) \in Page
      /\ OnAgain(reply).dialog = ui.dialog /\ OnAgain(reply).posting = ui.posting
  BY <1>1 DEF OnAgain, Page
<1>3. NoDialog(ui).dialog = 0
  BY DEF NoDialog, Page
<1> QED BY <1>0, <1>1, <1>2, <1>3 DEF ScreenKept, Page

LEMMA OnceTake ==
    ASSUME Typed, AllOnce, NEW i \in 1 .. Len(calls), Take(i) PROVE AllOnce'
<1>0. ui \in Page /\ CallsOK(calls) /\ calls[i] \in Call
  BY DEF Typed, CallsOK
<1>1. ASSUME Traced, \A d \in 1 .. MaxDialogs : ScreenKept(d), UNCHANGED made
      PROVE  AllOnce'
  BY <1>1, OnceKept DEF AllOnce
<1>2. {"load", "me"} \subseteq Kinds \ {"add"}
  BY DEF Kinds
<1>3. CASE TakeLoad(i)
  <2>1. Traced /\ UNCHANGED made
    BY <1>3, TracedRest DEF TakeLoad
  <2>2. \A d \in 1 .. MaxDialogs : ScreenKept(d)
    <3>1. CASE Good(calls[i].reply)
      BY <1>0, <1>3, <3>1 DEF TakeLoad, ScreenKept, Page
    <3>2. CASE ~Good(calls[i].reply)
      BY <1>0, <1>3, <3>2, SameScreen DEF TakeLoad
    <3> QED BY <3>1, <3>2
  <2> QED BY <1>1, <2>1, <2>2
<1>4. CASE TakeSave(i)
  <2>1. Traced /\ UNCHANGED made
    BY <1>2, <1>4, TracedRest DEF TakeSave
  <2>2. PICK path : ui' = [OnAgain(calls[i].reply) EXCEPT !.leaving = path]
    BY <1>4 DEF TakeSave
  <2> QED BY <1>0, <1>1, <2>1, <2>2, SameScreen
<1>5. CASE TakeAdd(i)
  <2>0. PICK o \in 1 .. MaxDialogs : o = calls[i].dialog
    BY <1>0, <1>5, Constants DEF TakeAdd, Took, CallsOK, Call
  <2>1. Traced
    BY <1>5, TracedRest DEF TakeAdd
  <2>2. CASE Good(calls[i].reply)
    BY <1>0, <1>1, <1>5, <2>1, <2>2, SameScreen DEF TakeAdd
  <2>3. CASE ~Good(calls[i].reply)
    <3>1. /\ ui' = [Seen(calls[i].reply) EXCEPT !.posting = @ /\ ui.dialog # o]
          /\ made' = [made EXCEPT ![o].failed = TRUE]
      BY <1>5, <2>0, <2>3 DEF TakeAdd
    <3>2. i \in Adds(o)
      BY <1>5, <2>0 DEF TakeAdd, Took, Adds
    <3>3. made[o].opened
      BY <3>2 DEF AllOnce, Once, Unopened
    <3>4. /\ made'[o].opened /\ made'[o].failed
          /\ \A d \in (1 .. MaxDialogs) \ {o} : made'[d] = made[d]
      BY <3>1, <3>2, <3>3 DEF Typed, MadeOK
    <3>5. /\ Seen(calls[i].reply) \in Page
          /\ Seen(calls[i].reply).dialog = ui.dialog
          /\ Seen(calls[i].reply).posting = ui.posting
      BY <1>0, SeenIsPage DEF Seen, Page
    <3>6. ui'.dialog = ui.dialog /\ (ui.dialog # o => ui'.posting = ui.posting)
      BY <1>0, <3>1, <3>5 DEF Page
    <3>7. \A d \in (1 .. MaxDialogs) \ {o} : Once(d)'
      BY <2>1, <3>4, <3>6, OnceKept DEF AllOnce, ScreenKept
    <3>8. Once(o)'
      BY <3>4 DEF Once
    <3> QED BY <3>7, <3>8 DEF AllOnce
  <2> QED BY <2>2, <2>3
<1>6. ASSUME NEW eff, NEW reply,
             \/ Status(i, eff, reply) \/ Me(i, eff, reply) \/ Login(i, eff, reply)
             \/ Logout(i, eff, reply) \/ Other(i, eff, reply)
      PROVE  AllOnce'
  <2>1. UNCHANGED made
    BY <1>6 DEF Status, Me, Login, Logout, Other, Ends, history
  <2>2. \/ calls' = Rest(i) \/ calls' = Append(Rest(i), New("load"))
        \/ calls' = Append(Rest(i), New("me"))
    BY <1>6 DEF Status, Me, Login, Logout, Other, EnterMain
  <2>3. \/ ui' = ui \/ ui' = Seen(reply) \/ ui' = NoDialog(ui)
        \/ \E view : ui' = [ui EXCEPT !.view = view]
    BY <1>6 DEF Status, Me, Login, Logout, Other, EnterMain
  <2>4. Traced
    BY <1>2, <2>2, TracedRest
  <2> QED BY <1>0, <1>1, <2>1, <2>3, <2>4, SameScreen
<1> QED BY <1>3, <1>4, <1>5, <1>6 DEF Take

LEMMA OncePress == ASSUME Typed, AllOnce, Press PROVE AllOnce'
<1>0. ui \in Page
  BY DEF Typed
<1>1. ASSUME Traced, \A d \in 1 .. MaxDialogs : ScreenKept(d), UNCHANGED made
      PROVE  AllOnce'
  BY <1>1, OnceKept DEF AllOnce
<1>2. CASE PressLogin \/ PressLogout \/ PressOther
  <2>1. PICK kind \in {"login", "logout", "other"} : Send(New(kind))
    BY <1>2 DEF PressLogin, PressLogout, PressOther
  <2>2. Traced
    BY <2>1, TracedSent DEF Kinds, Public
  <2>3. UNCHANGED <<ui, made>>
    BY <1>2 DEF PressLogin, PressLogout, PressOther, history
  <2> QED BY <1>0, <1>1, <2>2, <2>3, SameScreen
<1>3. CASE CloseDialog
  BY <1>0, <1>1, <1>3, TracedSame, SameScreen DEF CloseDialog, history
<1>4. ASSUME NEW tab, SwitchTab(tab) PROVE AllOnce'
  BY <1>0, <1>1, <1>4, TracedSame, SameScreen DEF SwitchTab, history
<1>5. ASSUME NEW o \in 1 .. MaxDialogs, OpenDialog(o) PROVE AllOnce'
  <2>1. ~made[o].opened /\ UNCHANGED calls
    BY <1>5, Constants DEF OpenDialog
  <2>2. /\ made'[o].opened /\ made'[o].users = made[o].users
        /\ \A d \in (1 .. MaxDialogs) \ {o} : made'[d] = made[d]
    BY <1>5 DEF OpenDialog, Typed, MadeOK
  <2>3. ui'.dialog = o
    BY <1>0, <1>5 DEF OpenDialog, Page
  <2>4. Adds(o)' = {} /\ made'[o].users = 0
    BY <2>1, <2>2 DEF AllOnce, Once, Unopened, Adds
  <2>5. Once(o)'
    BY <2>2, <2>4 DEF Once, Unfailed
  <2>6. \A d \in (1 .. MaxDialogs) \ {o} : Once(d)'
    BY <2>1, <2>2, <2>3, TracedSame, OnceKept DEF AllOnce, ScreenKept
  <2> QED BY <2>5, <2>6 DEF AllOnce
<1>6. ASSUME NEW path, NEW rest, NEW salted \in BOOLEAN, PressSave(path, rest, salted),
             path \in Names \cup {ui.form.path}, rest \in Values \cup {ui.form.rest}
      PROVE  AllOnce'
  <2> DEFINE form == [path |-> path, rest |-> rest]
             call == [New("save") EXCEPT !.form = form, !.known = ui.known,
                                         !.salted = salted]
  <2>1. form \in Form /\ ui.known \in Names \cup {Blank}
    BY <1>0, <1>6 DEF Form, Page
  <2>2. Send(call) /\ ui' = [ui EXCEPT !.form = form, !.saving = TRUE] /\ UNCHANGED made
    BY <1>6 DEF PressSave
  <2> HIDE DEF form
  <2>3. New("save") \in Call /\ New("save").kind = "save"
    BY NewIsCall DEF Kinds
  <2>4. call \in Call /\ call.kind = "save"
    BY <2>1, <2>3 DEF Call
  <2> HIDE DEF call
  <2>5. Traced
    BY <2>2, <2>4, TracedCall
  <2>6. \A d : ScreenKept(d)
    BY <1>0, <2>2 DEF ScreenKept, Page
  <2> QED BY <1>1, <2>2, <2>5, <2>6
<1> QED BY <1>2, <1>3, <1>4, <1>5, <1>6 DEF Press

LEMMA OnceAdd == ASSUME Typed, AllOnce, PressAdd PROVE AllOnce'
<1> DEFINE call == [New("add") EXCEPT !.dialog = ui.dialog]
<1>0. ui \in Page
  BY DEF Typed
<1>1. PICK o \in 1 .. MaxDialogs : o = ui.dialog
  BY <1>0, Constants DEF PressAdd, Page
<1>2. /\ Send(call) /\ UNCHANGED made
      /\ ~ui.posting /\ ui' = [ui EXCEPT !.posting = TRUE]
  BY DEF PressAdd, history
<1>3. New("add") \in Call /\ New("add").kind = "add"
  BY NewIsCall DEF Kinds
<1>4. call \in Call /\ call.kind = "add" /\ call.dialog = o
  BY <1>0, <1>1, <1>3 DEF Call, Page
<1>5. ui'.dialog = o /\ ui'.posting
  BY <1>0, <1>1, <1>2 DEF Page
<1> HIDE DEF call
<1>6. /\ Len(calls) \in Nat /\ Len(calls') = Len(calls) + 1
      /\ \A j \in 1 .. Len(calls) : calls'[j] = calls[j]
      /\ calls'[Len(calls) + 1] = call
  BY <1>2, <1>4, SentFacts DEF Typed, CallsOK
<1>7. PICK m \in Nat : m = Len(calls) + 1
  BY <1>6
<1>8. Adds(o)' = Adds(o) \cup {m} /\ m \notin Adds(o)
  BY <1>4, <1>6, <1>7 DEF Adds
<1>9. \A d \in (1 .. MaxDialogs) \ {o} :
        Adds(d)' = Adds(d) /\ \A j \in Adds(d) : calls'[j] = calls[j]
  BY <1>4, <1>6, <1>7 DEF Adds
<1>10. Once(o)'
  <2>1. made[o].opened
    BY <1>1 DEF AllOnce, Once, Unopened
  <2>2. ASSUME ~made[o].failed PROVE Unfailed(o)'
    <3>1. Adds(o) = {} /\ made[o].users = 0
      BY <1>1, <1>2, <2>2 DEF AllOnce, Once, Unfailed
    <3> QED BY <1>2, <1>5, <1>8, <3>1 DEF Unfailed
  <2> QED BY <1>2, <2>1, <2>2 DEF Once
<1>11. ASSUME NEW d \in (1 .. MaxDialogs) \ {o} PROVE Once(d)'
  <2>1. Once(d)
    BY DEF AllOnce
  <2>2. ui'.dialog # d /\ made'[d] = made[d]
    BY <1>2, <1>5
  <2> QED BY <1>9, <2>1, <2>2 DEF Once, Unopened, Unfailed
<1> QED BY <1>10, <1>11 DEF AllOnce

LEMMA OnceOthers ==
    ASSUME Typed, AllOnce,
           \/ PressAdd \/ Reopen \/ Forget
           \/ \E eff \in Effective : Retry(eff) \/ Leave(eff)
           \/ \E path \in Paths, rest \in Values, salted \in BOOLEAN :
                Elsewhere(path, rest, salted)
    PROVE  AllOnce'
<1>1. ASSUME Traced, \A d \in 1 .. MaxDialogs : ScreenKept(d), UNCHANGED made
      PROVE  AllOnce'
  BY <1>1, OnceKept DEF AllOnce
<1>2. ASSUME NEW addr, NEW eff, Open(addr, eff) PROVE AllOnce'
  <2>1. ui'.dialog = 0 /\ UNCHANGED made
    BY <1>2 DEF Open, Fresh, history
  <2>2. Traced
    BY <1>2, TracedFresh DEF Open
  <2> QED BY <1>1, <2>1, <2>2, Constants DEF ScreenKept
<1>3. CASE Forget
  BY <1>1, <1>3, TracedSame DEF Forget, ScreenKept, history
<1>4. ASSUME NEW path, NEW rest, NEW salted, Elsewhere(path, rest, salted)
      PROVE  AllOnce'
  BY <1>1, <1>4, TracedSame DEF Elsewhere, ScreenKept
<1> QED BY <1>2, <1>3, <1>4, OnceAdd DEF Reopen, Retry, Leave

LEMMA OnceStep == Typed /\ AllOnce /\ [Next]_vars => AllOnce'
<1> SUFFICES ASSUME Typed, AllOnce, [Next]_vars PROVE AllOnce'
  OBVIOUS
<1>1. CASE UNCHANGED vars
  BY <1>1 DEF vars, history, AllOnce, Once, Unopened, Unfailed, Adds
<1> QED BY <1>1, OnceServe, OnceTake, OncePress, OnceOthers DEF Next

LEMMA OnceInit == Init => AllOnce
<1> SUFFICES ASSUME Init, NEW d \in 1 .. MaxDialogs PROVE Once(d)
  BY DEF AllOnce
<1>1. calls = <<>> /\ ui.dialog = 0 /\ made[d] = [opened |-> FALSE, users |-> 0, failed |-> FALSE]
  BY DEF Init, Fresh
<1> QED BY <1>1, Constants DEF Once, Unopened, Unfailed, Adds

(***************************************************************************)
(* A dialog that has shown no error has made one user at most: its button  *)
(* is on only while none of its calls is on the way or has come to a good  *)
(* end.                                                                    *)
(***************************************************************************)
THEOREM SecondOnlyAfterError == Spec => []MadeOnce
<1>1. AllOnce => MadeOnce
  BY DEF AllOnce, Once, Unfailed, MadeOnce
<1> QED BY <1>1, AlwaysTyped, OnceInit, OnceStep, PTL DEF Spec
-----------------------------------------------------------------------------
(* The landing page under a name that is no panel path, with nothing to    *)
(* press and nothing under way.                                            *)
Astray == ui.addr \notin Paths => ui = Fresh(ui.addr, "landing") /\ calls = <<>>

LEMMA AstrayIdle ==
    ASSUME Astray, ui.addr \notin Paths
    PROVE  /\ ui.view = "landing" /\ ui.dialog = 0 /\ ui.leaving = Blank
           /\ Len(calls) = 0
BY DEF Astray, Fresh

(* No answer moves the page, or takes a redirect back.  *)
LEMMA AnswersStay ==
    ASSUME ui \in Page, NEW i \in 1 .. Len(calls), Serve(i) \/ Take(i)
    PROVE  /\ ui'.addr = ui.addr
           /\ ui.leaving # Blank => ui'.leaving = ui.leaving
<1>1. \A reply : /\ Seen(reply) \in Page
                 /\ Seen(reply).addr = ui.addr /\ Seen(reply).leaving = ui.leaving
  BY DEF Seen, Page
<1>2. CASE Serve(i)
  BY <1>2 DEF Serve, AnswerRefused, AnswerLoad, AnswerSave, AnswerAdd, Answer
<1>3. CASE TakeLoad(i)
  BY <1>1, <1>3 DEF TakeLoad, Page
<1>4. CASE TakeSave(i)
  <2>1. \A reply : /\ OnAgain(reply) \in Page /\ OnAgain(reply).addr = ui.addr
                   /\ OnAgain(reply).leaving = ui.leaving
    BY <1>1 DEF OnAgain, Page
  <2> QED BY <2>1, <1>4 DEF TakeSave, Page
<1>5. CASE TakeAdd(i)
  BY <1>1, <1>5 DEF TakeAdd, NoDialog, Page
<1>6. ASSUME NEW eff, NEW reply, Status(i, eff, reply) \/ Me(i, eff, reply)
             \/ Login(i, eff, reply) \/ Logout(i, eff, reply) \/ Other(i, eff, reply)
      PROVE  /\ ui'.addr = ui.addr
             /\ ui.leaving # Blank => ui'.leaving = ui.leaving
  BY <1>1, <1>6 DEF Status, Me, Login, Logout, Other, EnterMain, NoDialog, Page
<1> QED BY <1>2, <1>3, <1>4, <1>5, <1>6 DEF Take

LEMMA AstrayStep == ASSUME Typed, Astray, [Next]_vars PROVE Astray'
<1>1. ASSUME NEW addr, NEW eff \in Effective, Open(addr, eff) PROVE Astray'
  <2>1. eff.path \in Paths
    BY EffectiveTyped DEF Typed, Settings
  <2>2. ui'.addr = addr
    BY <1>1 DEF Open, Fresh
  <2>3. addr \notin Paths => ui' = Fresh(addr, "landing") /\ calls' = <<>>
    BY <1>1, <2>1 DEF Open
  <2> QED BY <2>2, <2>3 DEF Astray
<1>2. ASSUME UNCHANGED <<ui, calls>> PROVE Astray'
  BY <1>2 DEF Astray
<1>3. ASSUME ui'.addr = ui.addr, ui.addr \in Paths PROVE Astray'
  BY <1>3 DEF Astray
<1>4. ui \in Page
  BY DEF Typed
<1>5. CASE \E i \in 1 .. Len(calls) : Serve(i) \/ Take(i)
  <2>1. ui.addr \in Paths
    BY <1>5, AstrayIdle
  <2>2. ui'.addr = ui.addr
    BY <1>4, <1>5, AnswersStay
  <2> QED BY <1>3, <2>1, <2>2
<1>6. CASE Press \/ PressAdd
  <2>1. ui.addr \in Paths
    BY <1>6, AstrayIdle DEF Press, PressLogin, PressLogout, CloseDialog, PressOther,
       SwitchTab, OpenDialog, PressSave, PressAdd
  <2>2. ui'.addr = ui.addr
    BY <1>4, <1>6 DEF Press, PressLogin, PressLogout, CloseDialog, PressOther,
       SwitchTab, OpenDialog, PressSave, PressAdd, NoDialog, Page
  <2> QED BY <1>3, <2>1, <2>2
<1>7. CASE Reopen \/ \E eff \in Effective : Retry(eff) \/ Leave(eff)
  BY <1>1, <1>7 DEF Reopen, Retry, Leave
<1>8. CASE Forget \/ (\E path \in Paths, rest \in Values, salted \in BOOLEAN :
                        Elsewhere(path, rest, salted)) \/ UNCHANGED vars
  BY <1>2, <1>8 DEF Forget, Elsewhere, vars
<1> QED BY <1>5, <1>6, <1>7, <1>8 DEF Next

(***************************************************************************)
(* i18n.ts:165: "You will be redirected to the new address after saving."  *)
(* The redirect goes to the path as it was typed (script.ts:411), and what *)
(* is stored is in lower case: where a name is no panel path, as one typed *)
(* in capitals, there is the landing page, whatever settings an isolate    *)
(* goes by, and no reload changes that.                                    *)
(***************************************************************************)
THEOREM CapitalsLeadAstray ==
    Spec => /\ [](ui.addr \notin Paths => ui.view = "landing")
            /\ [][ui.leaving # Blank /\ ui'.leaving = Blank =>
                     ui'.addr = ui.leaving]_vars
<1>1. Init => Astray
  BY PanelAssumption DEF Init, Fresh, Astray
<1>2. Astray => (ui.addr \notin Paths => ui.view = "landing")
  BY DEF Astray, Fresh
<1>3. ASSUME Typed, ui.leaving # Blank, ui'.leaving = Blank, Next
      PROVE  ui'.addr = ui.leaving
  <2> USE <1>3
  <2>1. ui \in Page
    BY DEF Typed
  <2>2. CASE \E i \in 1 .. Len(calls) : Serve(i) \/ Take(i)
    BY <2>1, <2>2, AnswersStay
  <2>3. CASE Press \/ PressAdd
    BY <2>1, <2>3 DEF Press, PressLogin, PressLogout, CloseDialog, PressOther,
       SwitchTab, OpenDialog, PressSave, PressAdd, NoDialog, Page
  <2>4. CASE \E eff \in Effective : Leave(eff)
    BY <2>4 DEF Leave, Open, Fresh
  <2>5. ~Reopen /\ ~(\E eff \in Effective : Retry(eff))
    BY DEF Reopen, Retry
  <2>6. CASE Forget \/ \E path \in Paths, rest \in Values, salted \in BOOLEAN :
                          Elsewhere(path, rest, salted)
    BY <2>6 DEF Forget, Elsewhere
  <2> QED BY <2>2, <2>3, <2>4, <2>5, <2>6 DEF Next
<1>4. Typed /\ [Next]_vars =>
        [ui.leaving # Blank /\ ui'.leaving = Blank => ui'.addr = ui.leaving]_vars
  BY <1>3
<1> QED BY <1>1, <1>2, <1>4, AlwaysTyped, AstrayStep, PTL DEF Spec
=============================================================================
