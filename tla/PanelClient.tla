----------------------------- MODULE PanelClient -----------------------------
(***************************************************************************)
(* The panel's page in one browser: its views, the settings form, the      *)
(* user dialog and the calls they make, against the server as far as the   *)
(* page can tell.                                                          *)
(*                                                                         *)
(*   src/panel/script.ts  api, boot, the views, loadSettings, saveSettings,*)
(*                        the dialogs, login and logout                    *)
(*   src/panel/api.ts     what the calls do and answer                     *)
(*   src/index.ts         the landing page under every other path          *)
(*                                                                         *)
(* A call is answered by an isolate that may still have old settings.      *)
(* Under a path that is not the panel's there, the answer is the landing   *)
(* page with status 200: api() finds no JSON in it and takes it for an     *)
(* empty success.  Answers come in any order, and the page may have moved  *)
(* on when they do.                                                        *)
(***************************************************************************)
EXTENDS Naturals, SequencesExt

CONSTANTS
    Names,       \* what can be typed as a panel path
    Lower,       \* toLowerCase of a name
    Values,      \* what else the form holds: proxyIPs and resetCycle
    Fallback,    \* what is stored for them when the form is blank
    Blank,       \* an empty field, or no name
    First,       \* the path of the first boot
    MaxCalls,    \* bound: calls in flight
    MaxWrites,   \* bound: settings stored
    MaxDialogs,  \* bound: user dialogs opened
    MaxPresses   \* bound: what the admin presses

Paths == {Lower[n] : n \in Names}

ASSUME PanelAssumption ==
    /\ Lower \in [Names -> Names]
    /\ \A p \in Paths : Lower[p] = p
    /\ First \in Paths
    /\ Fallback \in Values
    /\ Blank \notin Names \cup Values
    /\ MaxCalls \in Nat \ {0} /\ MaxWrites \in Nat
    /\ MaxDialogs \in Nat /\ MaxPresses \in Nat

VARIABLES
    row,      \* the settings in D1
    copies,   \* settings an isolate may serve: the row's and cached ones
    writes,   \* how often the row was written
    jar,      \* the gz_session cookie: the secret its token was made of
    ui,       \* the page
    calls,    \* its calls, in the order they were made
    presses,  \* how often something was pressed, the dialog's Save aside
    chosen,   \* history: the values somebody chose for the row
    moved,    \* history: the path of the row has changed
    untrue,   \* history: "saved" was shown although nothing was stored
    made      \* history: per dialog, the users it created and its errors

server  == <<row, copies, writes, moved>>
history == <<chosen, untrue, made>>
vars == <<server, jar, ui, calls, presses, history>>

-----------------------------------------------------------------------------
(* pw: the password hash, a new one for every change.  *)
Settings == [path : Paths, rest : Values, pw : 0 .. MaxWrites + 1]

(* envlessSettings: what an isolate goes by when D1 does not answer.  *)
Envless == [path |-> First, rest |-> Fallback, pw |-> 0]

Secret(s) == [path |-> s.path, pw |-> s.pw]

NoCookie == [path |-> Blank, pw |-> 0]

Form == [path : Names \cup {Blank}, rest : Values \cup {Blank}]

BlankForm == [path |-> Blank, rest |-> Blank]

(* addr: the address, and GZ.panelPath while the view is not "landing".    *)
(* known: S.settings.panelPath, or addr while S.settings is null.          *)
(* saving, posting: the Save button of the form, of the dialog, is off.    *)
(* leaving: where the redirect will go.                                    *)
(* dialog: the user dialog on the screen, 0 for none; opened: the last.    *)
Fresh(addr, view) ==
    [addr |-> addr, view |-> view, tab |-> "dash", form |-> BlankForm,
     known |-> addr, saving |-> FALSE, leaving |-> Blank,
     dialog |-> 0, posting |-> FALSE]

Page == [addr : Names, view : {"landing", "setup", "login", "main"},
         tab : {"dash", "users", "set"}, form : Form,
         known : Names \cup {Blank}, saving : BOOLEAN,
         leaving : Names \cup {Blank}, dialog : 0 .. MaxDialogs,
         posting : BOOLEAN]

Public == {"status", "login", "logout"}

Kinds == Public \cup {"me", "load", "save", "add", "other"}

(* form: what a save sends or a load brings; known: oldPanel of a save;    *)
(* salted: it has a new password; dialog: where an add was made.           *)
Call == [kind : Kinds,
         reply : {"none", "ok", "landing", "unauthorized", "error"},
         form : Form, known : Names \cup {Blank}, salted : BOOLEAN,
         dialog : 0 .. MaxDialogs]

New(kind) == [kind |-> kind, reply |-> "none", form |-> BlankForm,
              known |-> Blank, salted |-> FALSE, dialog |-> 0]

TypeOK ==
    /\ row \in Settings
    /\ copies \in SUBSET Settings
    /\ writes \in 0 .. MaxWrites
    /\ jar \in [path : Paths \cup {Blank}, pw : 0 .. MaxWrites + 1]
    /\ ui \in Page
    /\ calls \in Seq(Call) /\ Len(calls) <= MaxCalls
    /\ presses \in 0 .. MaxPresses
    /\ chosen \in SUBSET Values
    /\ moved \in BOOLEAN /\ untrue \in BOOLEAN
    /\ made \in [1 .. MaxDialogs ->
                   [opened : BOOLEAN, users : 0 .. 2, failed : BOOLEAN]]

Init ==
    /\ row \in [path : {First}, rest : Values \ {Fallback}, pw : {1}]
    /\ copies = {row}
    /\ writes = 0
    /\ jar \in {NoCookie, Secret(row)}
    /\ ui = Fresh(First, "landing")
    /\ calls = <<>>
    /\ presses = 0
    /\ chosen = {row.rest}
    /\ moved = FALSE /\ untrue = FALSE
    /\ made = [d \in 1 .. MaxDialogs |->
                 [opened |-> FALSE, users |-> 0, failed |-> FALSE]]

-----------------------------------------------------------------------------
(* The server.                                                             *)

Effective == copies \cup {Envless}

Accepts(c, eff) ==
    /\ eff.path = ui.addr
    /\ c.kind \in Public \/ jar = Secret(eff)

(* How a call ends without doing anything: nothing under this path; or no  *)
(* session of these settings; or a failure on the way.                     *)
Refusals(c) ==
    {"error"}
    \cup {"landing" : eff \in {e \in Effective : e.path # ui.addr}}
    \cup {"unauthorized" : eff \in {e \in Effective :
             e.path = ui.addr /\ ~Accepts(c, e)}}

(* What the server does and when the page hears of it are two steps for    *)
(* the calls that change or bring something.                               *)
Slow == {"load", "save", "add"}

Pending(i, kind) == calls[i].kind = kind /\ calls[i].reply = "none"

Answer(i, reply) ==
    /\ calls' = [calls EXCEPT ![i].reply = reply]
    /\ UNCHANGED <<jar, ui, presses, chosen, untrue>>

AnswerRefused(i) ==
    /\ calls[i].kind \in Slow /\ calls[i].reply = "none"
    /\ \E reply \in Refusals(calls[i]) : Answer(i, reply)
    /\ UNCHANGED <<server, made>>

(* GET settings looks for them once more.  *)
AnswerLoad(i, eff, found) ==
    /\ Pending(i, "load") /\ Accepts(calls[i], eff)
    /\ calls' = [calls EXCEPT ![i].reply = "ok",
                              ![i].form = [path |-> found.path, rest |-> found.rest]]
    /\ UNCHANGED <<server, jar, ui, presses, history>>

Salted(salted) == IF salted THEN row.pw + 1 ELSE row.pw

Write(s) ==
    /\ writes < MaxWrites
    /\ writes' = writes + 1
    /\ row' = s
    /\ copies' = copies \cup {s}
    /\ moved' = (moved \/ s.path # row.path)

(* Mutant: an empty path is left out instead of refused.  *)
StoredSkipping(c) ==
    {[path |-> IF c.form.path = Blank THEN row.path ELSE Lower[c.form.path],
      rest |-> IF c.form.rest = Blank THEN Fallback ELSE c.form.rest,
      pw |-> Salted(c.salted)]}

(* Mutant: the path is stored as it was typed.  *)
StoredAsTyped(c) ==
    {[path |-> c.form.path, rest |-> row.rest, pw |-> Salted(c.salted)] :
        p \in {c.form.path} \ {Blank}}

(* What POST settings makes of the form: the paths have to pass a pattern, *)
(* which no empty one does, and an empty list is the built-in one.         *)
Stored(c) ==
    {s \in Settings :
        /\ c.form.path # Blank /\ s.path = Lower[c.form.path]
        /\ s.rest = IF c.form.rest = Blank THEN Fallback ELSE c.form.rest
        /\ s.pw = Salted(c.salted)}

(* It is stored, and the answer may still be lost.  *)
AnswerSave(i, eff, reply) ==
    /\ Pending(i, "save") /\ Accepts(calls[i], eff)
    /\ \E s \in Stored(calls[i]) : Write(s)
    /\ Answer(i, reply)
    /\ UNCHANGED made

(* POST users creates one.  *)
AnswerAdd(i, eff, reply) ==
    /\ Pending(i, "add") /\ Accepts(calls[i], eff)
    /\ made[calls[i].dialog].users < 2
    /\ made' = [made EXCEPT ![calls[i].dialog].users = @ + 1]
    /\ Answer(i, reply)
    /\ UNCHANGED server

(* Somebody else saves a form that was filled.  *)
Elsewhere(path, rest, salted) ==
    /\ Write([path |-> path, rest |-> rest, pw |-> Salted(salted)])
    /\ chosen' = chosen \cup {rest}
    /\ UNCHANGED <<jar, ui, calls, presses, untrue, made>>

(* Cached copies get too old.  *)
Forget ==
    /\ copies # {row}
    /\ copies' = {row}
    /\ UNCHANGED <<row, writes, moved, jar, ui, calls, presses, history>>

-----------------------------------------------------------------------------
(* What the admin presses.                                                 *)

Send(call) ==
    /\ Len(calls) < MaxCalls
    /\ calls' = Append(calls, call)

(* The address is opened: the panel's page there, or the landing page.  A  *)
(* page that is left takes its calls with it.  boot() asks for the status. *)
Open(addr, eff) ==
    /\ ui' = Fresh(addr, IF eff.path = addr THEN "login" ELSE "landing")
    /\ calls' = IF eff.path = addr THEN <<New("status")>> ELSE <<>>
    /\ UNCHANGED <<server, jar, history>>

(* Enter does it although the button is off.  *)
PressLogin ==
    /\ ui.view = "login"
    /\ Send(New("login"))
    /\ UNCHANGED <<ui, history>>

PressLogout ==
    /\ ui.view = "main"
    /\ Send(New("logout"))
    /\ UNCHANGED <<ui, history>>

SwitchTab(tab) ==
    /\ ui.view = "main" /\ ui.tab # tab
    /\ ui' = [ui EXCEPT !.tab = tab]
    /\ UNCHANGED <<calls, history>>

(* saveSettings, of the form as it is and what is typed into it.  A path   *)
(* typed into a form that was never filled chooses what comes with it.     *)
PressSave(path, rest, salted) ==
    LET form == [path |-> path, rest |-> rest] IN
    /\ ui.view = "main" /\ ui.tab = "set" /\ ~ui.saving
    /\ Send([New("save") EXCEPT !.form = form, !.known = ui.known, !.salted = salted])
    /\ ui' = [ui EXCEPT !.form = form, !.saving = TRUE]
    /\ chosen' = chosen \cup ({rest} \ {ui.form.rest, Blank})
                        \cup {Fallback : p \in {path} \ {ui.form.path, Blank}}
    /\ UNCHANGED <<untrue, made>>

(* openEditUser, for a new user: it takes the place of what is there.  *)
OpenDialog(d) ==
    /\ ui.view = "main" /\ ui.tab = "users"
    /\ \A n \in 1 .. MaxDialogs : made[n].opened <=> n < d
    /\ made' = [made EXCEPT ![d].opened = TRUE]
    /\ ui' = [ui EXCEPT !.dialog = d, !.posting = FALSE]
    /\ UNCHANGED <<calls, chosen, untrue>>

NoDialog(page) == [page EXCEPT !.dialog = 0, !.posting = FALSE]

CloseDialog ==
    /\ ui.dialog # 0
    /\ ui' = NoDialog(ui)
    /\ UNCHANGED <<calls, history>>

(* Mutant: the button stays on.  *)
PressAddAgain ==
    /\ ui.dialog # 0
    /\ Send([New("add") EXCEPT !.dialog = ui.dialog])
    /\ UNCHANGED <<server, jar, ui, presses, history>>

PressAdd ==
    /\ ui.dialog # 0 /\ ~ui.posting
    /\ Send([New("add") EXCEPT !.dialog = ui.dialog])
    /\ ui' = [ui EXCEPT !.posting = TRUE]
    /\ UNCHANGED <<server, jar, presses, history>>

(* Links, the status page and a QR code; reset, rotate, delete, and edit,  *)
(* whose Save is off while it is under way as that of an add is.  That is  *)
(* not kept here: a second edit is the first one once more.                *)
PressOther ==
    /\ ui.view = "main" /\ ui.tab = "users"
    /\ Send(New("other"))
    /\ UNCHANGED <<ui, history>>

-----------------------------------------------------------------------------
(* What the page does with an answer.                                      *)

(* Mutant: api() leaves a 401 to its caller.  *)
GoodOrUnauthorized(reply) == reply \in {"ok", "landing", "unauthorized"}

(* api(): any status 200, with JSON or without.  *)
Good(reply) == reply \in {"ok", "landing"}

(* api() shows the login view before its caller hears of a 401.  *)
Seen(reply) == IF reply = "unauthorized" THEN [ui EXCEPT !.view = "login"] ELSE ui

Rest(i) == RemoveAt(calls, i)

(* A call that is answered and heard of in one step.  *)
Ends(i, kind, eff, reply) ==
    /\ Pending(i, kind)
    /\ \/ reply \in Refusals(calls[i])
       \/ reply = "ok" /\ Accepts(calls[i], eff)
    /\ UNCHANGED <<server, presses, history>>

(* boot(): whether there is a session is the next question.  *)
Status(i, eff, reply) ==
    /\ Ends(i, "status", eff, reply)
    /\ calls' = IF reply = "ok" /\ eff # Envless THEN Append(Rest(i), New("me"))
                ELSE Rest(i)
    /\ ui' = [ui EXCEPT !.view = CASE reply # "ok"  -> "login"
                                   [] reply = "ok" /\ eff = Envless -> "setup"
                                   [] OTHER         -> @]
    /\ UNCHANGED jar

(* The main view, and loadAll.  The users and the events are shown and     *)
(* nothing else; a 401 to them does what one to the settings does.         *)
EnterMain(i) ==
    /\ ui' = [ui EXCEPT !.view = "main"]
    /\ calls' = Append(Rest(i), New("load"))

Me(i, eff, reply) ==
    /\ Ends(i, "me", eff, reply)
    /\ \/ Good(reply) /\ EnterMain(i)
       \/ ~Good(reply) /\ calls' = Rest(i) /\ ui' = Seen(reply)
    /\ UNCHANGED jar

(* The right password is answered with a cookie; a wrong one, or too many, *)
(* with an error (Sessions).                                               *)
Login(i, eff, reply) ==
    /\ Ends(i, "login", eff, reply)
    /\ jar' = IF reply = "ok" THEN Secret(eff) ELSE jar
    /\ \/ Good(reply) /\ EnterMain(i)
       \/ ~Good(reply) /\ calls' = Rest(i) /\ UNCHANGED ui

Logout(i, eff, reply) ==
    /\ Ends(i, "logout", eff, reply)
    /\ calls' = Rest(i)
    /\ jar' = IF reply = "ok" THEN NoCookie ELSE jar
    /\ ui' = IF Good(reply) THEN [ui EXCEPT !.view = "login"] ELSE ui

(* Links and QR codes are put on the screen over a dialog, and an edit, a  *)
(* reset or a delete that worked closes what is there.                     *)
Other(i, eff, reply) ==
    /\ Ends(i, "other", eff, reply)
    /\ ui' = IF Good(reply) THEN NoDialog(ui) ELSE Seen(reply)
    /\ calls' = Rest(i)
    /\ UNCHANGED jar

Took(i, kind) ==
    /\ calls[i].kind = kind /\ calls[i].reply # "none"
    /\ UNCHANGED <<server, jar, presses, chosen>>

(* loadSettings fills the form, with nothing if there is nothing.  *)
TakeLoad(i) ==
    /\ Took(i, "load")
    /\ calls' = Rest(i)
    /\ ui' = IF Good(calls[i].reply)
             THEN [ui EXCEPT !.form = calls[i].form, !.known = calls[i].form.path]
             ELSE Seen(calls[i].reply)
    /\ UNCHANGED <<untrue, made>>

(* Mutant: only a success turns the button on again.  *)
OnAgainIfGood(reply) == [Seen(reply) EXCEPT !.saving = @ /\ ~Good(reply)]

(* The button of the form is on again.  *)
OnAgain(reply) == [Seen(reply) EXCEPT !.saving = FALSE]

(* The redirect is set up when the path that was sent is not the old one;  *)
(* otherwise the form is filled again.  Of two redirects the first fires.  *)
TakeSave(i) ==
    LET reply == calls[i].reply
        path  == calls[i].form.path
        goes  == Good(reply) /\ path \notin {Blank, calls[i].known} IN
    /\ Took(i, "save")
    /\ ui' = [OnAgain(reply) EXCEPT !.leaving =
                 IF goes /\ ui.leaving = Blank THEN path ELSE @]
    /\ calls' = IF Good(reply) /\ ~goes THEN Append(Rest(i), New("load")) ELSE Rest(i)
    /\ untrue' = (untrue \/ (Good(reply) /\ reply # "ok"))
    /\ UNCHANGED made

(* The dialog on the screen is closed, whichever it is; after an error the *)
(* button of the one that was answered is on again.                        *)
TakeAdd(i) ==
    LET d == calls[i].dialog IN
    /\ Took(i, "add")
    /\ calls' = Rest(i)
    /\ IF Good(calls[i].reply)
       THEN ui' = NoDialog(ui) /\ UNCHANGED made
       ELSE /\ ui' = [Seen(calls[i].reply) EXCEPT !.posting = @ /\ ui.dialog # d]
            /\ made' = [made EXCEPT ![d].failed = TRUE]
    /\ UNCHANGED untrue

-----------------------------------------------------------------------------
Serve(i) ==
    \/ AnswerRefused(i)
    \/ \E eff \in Effective :
         \/ \E found \in copies : AnswerLoad(i, eff, found)
         \/ \E reply \in {"ok", "error"} :
              AnswerSave(i, eff, reply) \/ AnswerAdd(i, eff, reply)

Take(i) ==
    \/ TakeLoad(i) \/ TakeSave(i) \/ TakeAdd(i)
    \/ \E eff \in Effective, reply \in {"ok", "landing", "unauthorized", "error"} :
         \/ Status(i, eff, reply) \/ Me(i, eff, reply) \/ Login(i, eff, reply)
         \/ Logout(i, eff, reply) \/ Other(i, eff, reply)

Press ==
    /\ presses < MaxPresses
    /\ presses' = presses + 1
    /\ \/ PressLogin \/ PressLogout \/ CloseDialog \/ PressOther
       \/ \E tab \in {"users", "set"} : SwitchTab(tab)
       \/ \E d \in 1 .. MaxDialogs : OpenDialog(d)
       \/ \E path \in Names \cup {ui.form.path}, rest \in Values \cup {ui.form.rest},
             salted \in BOOLEAN : PressSave(path, rest, salted)
    /\ UNCHANGED <<server, jar>>

(* The admin reloads the page, or opens the path somebody said; but waits  *)
(* for a redirect that is announced.                                       *)
Reopen ==
    /\ presses < MaxPresses /\ ui.leaving = Blank
    /\ presses' = presses + 1
    /\ \E addr \in {ui.addr, row.path}, eff \in Effective : Open(addr, eff)

(* Where there is nothing to press, it is reloaded all the time.  *)
Retry(eff) ==
    /\ ui.view \in {"landing", "setup"} /\ ui.leaving = Blank
    /\ Open(ui.addr, eff)
    /\ UNCHANGED presses

(* The redirect, 700 ms after the save.  *)
Leave(eff) ==
    /\ ui.leaving # Blank
    /\ Open(ui.leaving, eff)
    /\ UNCHANGED presses

Next ==
    \/ \E i \in 1 .. Len(calls) : Serve(i) \/ Take(i)
    \/ Press \/ PressAdd \/ Reopen
    \/ \E eff \in Effective : Retry(eff) \/ Leave(eff)
    \/ Forget
    \/ \E path \in Paths, rest \in Values, salted \in BOOLEAN :
         Elsewhere(path, rest, salted)

Spec == Init /\ [][Next]_vars

-----------------------------------------------------------------------------
(***************************************************************************)
(* A form that never got its settings (they come late, or not at all, or   *)
(* the landing page came instead) is not stored: that the server refuses   *)
(* an empty path keeps the proxy IPs and the reset cycle, unless the admin *)
(* has typed a path into that form (script.ts:382-402, api.ts:121-142).    *)
(***************************************************************************)
NothingWiped == row.rest \in chosen

(***************************************************************************)
(* As long as the panel has not moved, "saved" is true, although sessions  *)
(* end, D1 fails and answers are lost: only the landing page passes for a  *)
(* success (script.ts:35-45), and only another path leads to it.           *)
(***************************************************************************)
SavedIsTrue == untrue => moved

(***************************************************************************)
(* A dialog creates a second user only after it has shown an error: that   *)
(* its first one may have been created all the same is what the admin      *)
(* cannot know (script.ts:338-350).                                        *)
(***************************************************************************)
MadeOnce == \A d \in 1 .. MaxDialogs : made[d].users = 2 => made[d].failed

(***************************************************************************)
(* The page comes to rest: whatever a call comes to, refused, lost or      *)
(* answered after the page has moved on, the button that made it is on     *)
(* again in the end, or its dialog gone, and a redirect that was announced *)
(* is made (script.ts:345-354, 392-415).                                   *)
(***************************************************************************)
Busy == ui.saving \/ ui.posting \/ ui.leaving # Blank

ComesToRest == Busy ~> ~Busy

-----------------------------------------------------------------------------
(***************************************************************************)
(* Fairness: calls are answered, if only by a failure; timers fire.        *)
(***************************************************************************)
Fairness ==
    /\ WF_vars(\E i \in 1 .. Len(calls) : AnswerRefused(i) \/ Take(i))
    /\ WF_vars(\E eff \in Effective : Leave(eff))

FairSpec == Spec /\ Fairness
=============================================================================
