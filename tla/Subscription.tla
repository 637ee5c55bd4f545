----------------------------- MODULE Subscription -----------------------------
(***************************************************************************)
(* One user's credentials on their way through the worker: into D1 by a    *)
(* rotation, into the copies of the users table that isolates keep, into   *)
(* links and profiles that clients are given or poll, and back with every  *)
(* connection and every poll, to be looked up in such a copy again.        *)
(*                                                                         *)
(*   src/db/users.ts        listUsers, getUserByUuid, findUserByTrojanHash *)
(*   src/panel/api.ts       users/:id/links, rotateCredentials             *)
(*   src/index.ts           the subscription route                         *)
(*   src/subscription.ts    findUserByToken                                *)
(*                                                                         *)
(* A poll's token is made of the uuid, so a rotation replaces it, too.     *)
(***************************************************************************)
EXTENDS Profile

CONSTANTS
    Isolates,       \* V8 isolates running the worker
    CacheTtl,       \* DEFAULTS.cacheTtlMs
    Requests,       \* what clients ask for
    MaxRotations,   \* bound: rotations
    MaxTime         \* bound: the clock stops here

ASSUME SubscriptionAssumption ==
    /\ CacheTtl \in Nat \ {0}
    /\ Requests \subseteq Request
    /\ MaxRotations \in Nat
    /\ MaxTime \in Nat \ {0}

VARIABLES
    now,        \* the clock (1 .. MaxTime)
    creds,      \* the user's credentials in D1
    listCache,  \* per isolate: the credentials in listCache; at = 0 for null
    url,        \* the token in the client's subscription link
    profile,    \* what the client has imported; {} or a singleton
    answer,     \* the worker's last answer: kind, to what, when, from a list?
    since       \* history: when each version of the credentials began

vars == <<now, creds, listCache, url, profile, answer, since>>

Versions == 0 .. MaxRotations

NoList == [at |-> 0, creds |-> 0]

ByHand == [override |-> "none", ua |-> {}, opts |-> NoOpts]

Answer(kind, c, r) ==
    [kind |-> kind, creds |-> c, asked |-> r, at |-> now, listed |-> TRUE]

(* An answer that is given without a list of users.  *)
Unlisted(kind, c) == [Answer(kind, c, ByHand) EXCEPT !.listed = FALSE]

Imported(app, c, r) == [asked |-> r, creds |-> c, body |-> renderSub(app, c, r.opts)]

Asked == Requests \cup {ByHand}

Apps == {"v2ray", "clash", "singbox", "xray"}

AnswerKinds == {"none", "links", "profile", "page", "landing", "accepted", "refused"}

TypeOK ==
    /\ now \in 1 .. MaxTime
    /\ creds \in Versions
    /\ listCache \in [Isolates -> [at : 0 .. now, creds : 0 .. creds]]
    /\ url \in 0 .. creds
    /\ profile = {} \/
       \E c \in 0 .. creds, r \in Asked, app \in Apps : profile = {Imported(app, c, r)}
    /\ answer \in [kind : AnswerKinds, creds : 0 .. creds, asked : Asked,
                   at : 1 .. now, listed : BOOLEAN]
    /\ since \in [Versions -> 0 .. now]

Init ==
    /\ now = 1
    /\ creds = 0
    /\ listCache = [i \in Isolates |-> NoList]
    /\ url = 0
    /\ profile = {}
    /\ answer = Answer("none", 0, ByHand)
    /\ since = [v \in Versions |-> IF v = 0 THEN 1 ELSE 0]

-----------------------------------------------------------------------------
(* Mutant: every use of the copy prolongs it.  *)
ListUsersSliding(i) ==
    IF listCache[i].at # 0 /\ now - listCache[i].at < CacheTtl
    THEN [listCache[i] EXCEPT !.at = now]
    ELSE [at |-> now, creds |-> creds]

(* Mutant: a copy once made is always good.  *)
ListUsersForever(i) ==
    IF listCache[i].at # 0 THEN listCache[i]
    ELSE [at |-> now, creds |-> creds]

(* Mutant: the entry has the time it ends, and is read as before.  *)
ListUsersUntil(i) ==
    IF listCache[i].at # 0 /\ now - listCache[i].at < CacheTtl
    THEN listCache[i]
    ELSE [at |-> now + CacheTtl, creds |-> creds]

(* The copy that listUsers gives in isolate i, and keeps.  *)
ListUsers(i) ==
    IF listCache[i].at # 0 /\ now - listCache[i].at < CacheTtl
    THEN listCache[i]
    ELSE [at |-> now, creds |-> creds]

Keeps(i, list) == listCache' = [listCache EXCEPT ![i] = list]

(* GET users/:id/links: the panel's user is given a link to pass on, whose *)
(* subscription link comes with it.                                        *)
Links(i) ==
    LET list == ListUsers(i) IN
    /\ Keeps(i, list)
    /\ url' = list.creds
    /\ profile' = {Imported("v2ray", list.creds, ByHand)}
    /\ answer' = Answer("links", list.creds, ByHand)
    /\ UNCHANGED <<now, creds, since>>

(* A poll: the token is looked for among the users of the copy; when it is *)
(* not there the answer is the landing page, and a client keeps what it    *)
(* has.  A page is shown and not imported.                                 *)
Serve(i, r) ==
    LET list == ListUsers(i)
        app  == resolveApp(r.override, r.ua) IN
    /\ Keeps(i, list)
    /\ url = list.creds
    /\ IF app = "page"
       THEN answer' = Answer("page", url, r) /\ UNCHANGED profile
       ELSE answer' = Answer("profile", url, r) /\ profile' = {Imported(app, url, r)}
    /\ UNCHANGED <<now, creds, url, since>>

UnknownToken(i) ==
    LET list == ListUsers(i) IN
    /\ Keeps(i, list)
    /\ url # list.creds
    /\ answer' = Answer("landing", url, ByHand)
    /\ UNCHANGED <<now, creds, url, profile, since>>

(* The outbounds that the client sends traffic to: Xray's balancer takes   *)
(* tags that start with one of its selectors, other clients take names.    *)
StartsWith(tag, prefix) ==
    /\ \/ tag.base = prefix.base
       \/ prefix.base = "gz-" /\ tag.base \in {"gz-vless", "gz-trojan", "gz-frag"}
    /\ prefix.op \in {"neutral", tag.op}

Selects(p, sel, o) ==
    IF p.app = "xray" THEN StartsWith(o.tag, sel) ELSE o.tag = sel

Routed(p) == {o \in p.outbounds : \E sel \in p.final : Selects(p, sel, o)}

(* The credentials a client may connect with: an outbound's.  *)
Presented == UNION {{o.creds : o \in Routed(p.body)} : p \in profile}

(* A connection with them: both protocols look them up in the copy.  *)
Connect(i) ==
    LET list == ListUsers(i) IN
    /\ \E c \in Presented :
         answer' = Answer(IF c = list.creds THEN "accepted" ELSE "refused", c, ByHand)
    /\ Keeps(i, list)
    /\ UNCHANGED <<now, creds, url, profile, since>>

(* The SELECT fails, and the promise is dropped.  A poll is answered with  *)
(* the landing page and a connection is closed, whatever their credentials *)
(* are; the panel is given an error.                                       *)
ListFails(i) ==
    /\ ListUsers(i) # listCache[i]
    /\ Keeps(i, NoList)
    /\ \/ answer' = Unlisted("landing", url)
       \/ \E c \in Presented : answer' = Unlisted("refused", c)
       \/ UNCHANGED answer
    /\ UNCHANGED <<now, creds, url, profile, since>>

(* A poll is routed by settings with another subPath, old ones or those of *)
(* the fallback: it falls through to the landing page.                     *)
PathUnknown ==
    /\ answer' = Unlisted("landing", url)
    /\ UNCHANGED <<now, creds, listCache, url, profile, since>>

(* PATCH users/:id, rotateCredentials: a read of the copy, then the        *)
(* UPDATE, then invalidateUsers, unless the reply is lost.                 *)
Rotate(i) ==
    /\ creds < MaxRotations
    /\ creds' = creds + 1
    /\ since' = [since EXCEPT ![creds + 1] = now]
    /\ Keeps(i, NoList) \/ Keeps(i, ListUsers(i))
    /\ UNCHANGED <<now, url, profile, answer>>

Evict(i) ==
    /\ Keeps(i, NoList)
    /\ UNCHANGED <<now, creds, url, profile, answer, since>>

Tick ==
    /\ now < MaxTime
    /\ now' = now + 1
    /\ UNCHANGED <<creds, listCache, url, profile, answer, since>>

Next ==
    \/ \E i \in Isolates :
         \/ Links(i) \/ UnknownToken(i) \/ Connect(i)
         \/ ListFails(i) \/ Rotate(i) \/ Evict(i)
         \/ \E r \in Requests : Serve(i, r)
    \/ PathUnknown
    \/ Tick

Spec == Init /\ [][Next]_vars

-----------------------------------------------------------------------------
(***************************************************************************)
(* The profile a client has imported can be used as it is: every name that *)
(* traffic is sent to is that of a server, all of the user's servers are   *)
(* used (sing-box has one default and offers the other), what a server is  *)
(* dialed through is there and is no server itself, and Xray measures all  *)
(* that it balances (subscription.ts:197-209).                             *)
(***************************************************************************)
Servers(p) == {o \in p.outbounds : o.protocol \in {"vless", "trojan"}}

ProfileRoutes ==
    \A q \in profile :
      LET p == q.body IN
        /\ \A sel \in p.final : \E o \in p.outbounds : Selects(p, sel, o)
        /\ Routed(p) \subseteq Servers(p)
        /\ p.app # "singbox" => Routed(p) = Servers(p)
        /\ \A o \in Servers(p) : o.dialer # NoTag =>
             \E via \in p.outbounds \ Servers(p) : via.tag = o.dialer
        /\ p.app = "xray" =>
             \A o \in Routed(p) : \E probe \in p.probes : StartsWith(o.tag, probe)

(***************************************************************************)
(* operators.ts:10-15: a preset is applied only when it is asked for, and  *)
(* then in every server of every format: its fingerprint and its name, and *)
(* in Xray a fragmented clone if the operator has a preset for one.  And   *)
(* ECH is never on unless it was asked for (operators.ts:100).             *)
(***************************************************************************)
TunedAsAsked ==
    \A q \in profile :
      LET p  == q.body
          op == IF q.asked.opts.opKey \in DOMAIN OPERATORS THEN q.asked.opts.opKey
                ELSE "neutral" IN
        /\ \A o \in Servers(p) :
             /\ o.fp = IF op = "neutral" THEN DEFAULT_FP ELSE OPERATORS[op].fp
             /\ o.tag.op = op
             /\ o.ech => q.asked.opts.ech
        /\ (\E o \in Servers(p) : o.dialer # NoTag) =
             (p.app = "xray" /\ op # "neutral" /\ OPERATORS[op].frag)

(***************************************************************************)
(* subscription.ts:331-335: a proxy client gets a configuration and never  *)
(* the status page, unless the link asks for the page.                     *)
(***************************************************************************)
PageForBrowsers ==
    answer.kind = "page" =>
        \/ answer.asked.override \in {"page", "status"}
        \/ answer.asked.ua = {"browser"}

(***************************************************************************)
(* Rotated credentials are given out, and accepted, for less than a TTL    *)
(* after the rotation; and where a list of users is looked in, new ones    *)
(* are refused, and links made of them not known, only within that time.   *)
(* In every isolate, whatever replies were lost (users.ts:57-87,           *)
(* api.ts:230-236).  Without a list (the SELECT fails, or the path is not  *)
(* known) current credentials are turned away at any time.                 *)
(***************************************************************************)
AnswersTimely ==
    LET c     == answer.creds
        Ended == c < creds /\ since[c + 1] <= answer.at IN
    /\ answer.kind \in {"links", "profile", "page", "accepted"} =>
         c = creds \/ answer.at < since[c + 1] + CacheTtl
    /\ answer.kind \in {"landing", "refused"} /\ answer.listed =>
         Ended \/ answer.at < since[c] + CacheTtl

(***************************************************************************)
(* A client that has imported the current credentials and keeps trying is  *)
(* let in, unless they are rotated again or it imports something else.     *)
(***************************************************************************)
Has(c) == \E q \in profile : q.creds = c

LinkComesToWork ==
    \A c \in Versions :
        Has(c) /\ c = creds /\ now + CacheTtl <= MaxTime
            ~> answer.kind = "accepted" \/ creds # c \/ ~Has(c)

-----------------------------------------------------------------------------
(***************************************************************************)
(* Fairness: time passes, and the client keeps connecting until a try of   *)
(* its is looked up; tries that D1 fails may come in between.              *)
(***************************************************************************)
Fairness ==
    /\ WF_vars(Tick)
    /\ WF_vars(\E i \in Isolates : Connect(i))

FairSpec == Spec /\ Fairness
=============================================================================
