-------------------------- MODULE SubscriptionProofs --------------------------
(***************************************************************************)
(* Theorems about Profile and Subscription: every profile can be used and  *)
(* is tuned as asked, for every request; and rotated credentials are gone  *)
(* from every isolate within a TTL, for every number of rotations.         *)
(***************************************************************************)
EXTENDS Subscription, TLAPS

LEMMA KeysResolved ==
    ASSUME NEW opts \in SubOpts
    PROVE  /\ opBranding(opts) = IF opts.opKey \in DOMAIN OPERATORS THEN opts.opKey
                                 ELSE "neutral"
           /\ resolveOp(opts.opKey) = opBranding(opts)
           /\ "neutral" \notin DOMAIN OPERATORS
BY DEF opBranding, resolveOp, OPERATORS, SubOpts, Keys

LEMMA ServerFields ==
    ASSUME NEW tag, NEW protocol, NEW c, NEW opts
    PROVE  LET o == Server(tag, protocol, c, opts) IN
           /\ o.tag = tag /\ o.protocol = protocol /\ o.creds = c
           /\ o.fp = fpFor(opts) /\ o.ech = opts.ech /\ o.dialer = NoTag
BY DEF Server

LEMMA HelperFields ==
    ASSUME NEW tag, NEW protocol
    PROVE  LET o == Helper(tag, protocol) IN
           o.tag = tag /\ o.protocol = protocol /\ o.creds = 0
BY DEF Helper

(* The fragmented clone of Xray.  *)
Clone(c, opts) ==
    [XrayServer("gz-frag", "vless", c, opts) EXCEPT !.dialer = Fixed("gzx-frag")]

LEMMA TagFields ==
    ASSUME NEW base, NEW opts
    PROVE  /\ Tag(base, opts).base = base /\ Tag(base, opts).op = opBranding(opts)
           /\ Fixed(base).base = base /\ Fixed(base).op = "neutral"
           /\ NoTag.base = "none"
BY DEF Tag, Fixed, NoTag

(***************************************************************************)
(* What each format holds.                                                 *)
(***************************************************************************)
LEMMA Formats ==
    ASSUME NEW c, NEW opts
    PROVE  /\ renderSub("clash", c, opts) = buildClashYaml(c, opts)
           /\ renderSub("singbox", c, opts) = buildSingBoxJson(c, opts)
           /\ renderSub("xray", c, opts) = buildXrayJson(c, opts)
           /\ renderSub("v2ray", c, opts) = buildBase64(c, opts)
BY DEF renderSub

-----------------------------------------------------------------------------
(* What ProfileRoutes and TunedAsAsked say of a single profile.  *)
Routes(p) ==
    /\ \A sel \in p.final : \E o \in p.outbounds : Selects(p, sel, o)
    /\ Routed(p) \subseteq Servers(p)
    /\ p.app # "singbox" => Routed(p) = Servers(p)
    /\ \A o \in Servers(p) : o.dialer # NoTag =>
         \E via \in p.outbounds \ Servers(p) : via.tag = o.dialer
    /\ p.app = "xray" =>
         \A o \in Routed(p) : \E probe \in p.probes : StartsWith(o.tag, probe)

Tuned(p, opts) ==
    LET op == IF opts.opKey \in DOMAIN OPERATORS THEN opts.opKey ELSE "neutral" IN
    /\ \A o \in Servers(p) :
         /\ o.fp = IF op = "neutral" THEN DEFAULT_FP ELSE OPERATORS[op].fp
         /\ o.tag.op = op
         /\ o.ech => opts.ech
    /\ (\E o \in Servers(p) : o.dialer # NoTag) =
         (p.app = "xray" /\ op # "neutral" /\ OPERATORS[op].frag)

LEMMA FpResolved ==
    ASSUME NEW opts \in SubOpts
    PROVE  LET op == opBranding(opts) IN
           fpFor(opts) = IF op = "neutral" THEN DEFAULT_FP ELSE OPERATORS[op].fp
BY KeysResolved DEF fpFor, opBranding

LEMMA PlainFormats ==
    ASSUME NEW c, NEW opts \in SubOpts, NEW app \in {"v2ray", "clash", "singbox"}
    PROVE  LET p == renderSub(app, c, opts) IN
           /\ Routes(p) /\ Tuned(p, opts)
           /\ \A o \in p.outbounds : o.creds \in {0, c}
<1>1. CASE app = "v2ray"
  <2> DEFINE p == buildBase64(c, opts)
             v == WithoutEch(Server(Tag("link", opts), "vless", c, opts))
             t == WithoutEch(Server(Tag("link", opts), "trojan", c, opts))
  <2>1. /\ p.app = "v2ray" /\ p.final = {Tag("link", opts)} /\ p.outbounds = {v, t}
    BY DEF buildBase64
  <2>2. /\ v.tag = Tag("link", opts) /\ v.protocol = "vless" /\ v.creds = c
        /\ v.fp = fpFor(opts) /\ v.ech = FALSE /\ v.dialer = NoTag
        /\ t.tag = Tag("link", opts) /\ t.protocol = "trojan" /\ t.creds = c
        /\ t.fp = fpFor(opts) /\ t.ech = FALSE /\ t.dialer = NoTag
    BY DEF WithoutEch, Server
  <2> HIDE DEF p, v, t
  <2>3. Servers(p) = {v, t} /\ Routed(p) = {v, t}
    BY <2>1, <2>2 DEF Servers, Routed, Selects
  <2>4. Routes(p)
    BY <2>1, <2>2, <2>3 DEF Routes, Selects
  <2>5. Tuned(p, opts)
    <3>1. v.tag.op = opBranding(opts) /\ t.tag.op = opBranding(opts)
      BY <2>2, TagFields
    <3> QED BY <2>1, <2>2, <2>3, <3>1, KeysResolved, FpResolved DEF Tuned
  <2>6. \A o \in p.outbounds : o.creds \in {0, c}
    BY <2>1, <2>2
  <2> QED BY <1>1, <2>4, <2>5, <2>6, Formats DEF p
<1>2. ASSUME app \in {"clash", "singbox"}
      PROVE  LET p == renderSub(app, c, opts) IN
             /\ Routes(p) /\ Tuned(p, opts)
             /\ \A o \in p.outbounds : o.creds \in {0, c}
  <2> DEFINE p == renderSub(app, c, opts)
             vTag == Tag("Gozargah-VLESS", opts)
             tTag == Tag("Gozargah-Trojan", opts)
             v == Server(vTag, "vless", c, opts)
             t == Server(tTag, "trojan", c, opts)
             d == Helper(Fixed("direct"), "direct")
  <2>1. /\ v.tag = vTag /\ v.protocol = "vless" /\ v.creds = c
        /\ v.fp = fpFor(opts) /\ v.ech = opts.ech /\ v.dialer = NoTag
        /\ t.tag = tTag /\ t.protocol = "trojan" /\ t.creds = c
        /\ t.fp = fpFor(opts) /\ t.ech = opts.ech /\ t.dialer = NoTag
        /\ d.tag = Fixed("direct") /\ d.protocol = "direct" /\ d.creds = 0
    BY ServerFields, HelperFields
  <2>2. /\ vTag # tTag /\ vTag # Fixed("direct")
        /\ vTag.op = opBranding(opts) /\ tTag.op = opBranding(opts)
    <3>1. /\ vTag.base = "Gozargah-VLESS" /\ tTag.base = "Gozargah-Trojan"
          /\ Fixed("direct").base = "direct"
      BY TagFields
    <3> QED BY <3>1, TagFields
  <2>3. /\ app = "clash" => /\ p.app = "clash" /\ p.final = {vTag, tTag}
                            /\ p.outbounds = {v, t}
        /\ app = "singbox" => /\ p.app = "singbox" /\ p.final = {vTag}
                              /\ p.outbounds = {v, t} \cup {d}
    BY Formats DEF buildClashYaml, buildSingBoxJson, Named
  <2> HIDE DEF p, v, t, d, vTag, tTag
  <2>4. /\ Servers(p) = {v, t}
        /\ app = "clash" => Routed(p) = {v, t}
        /\ app = "singbox" => Routed(p) = {v}
    BY <1>2, <2>1, <2>2, <2>3 DEF Servers, Routed, Selects
  <2>5. Routes(p)
    BY <1>2, <2>1, <2>3, <2>4 DEF Routes, Selects
  <2>6. Tuned(p, opts)
    BY <1>2, <2>1, <2>2, <2>3, <2>4, KeysResolved, FpResolved DEF Tuned, SubOpts
  <2>7. \A o \in p.outbounds : o.creds \in {0, c}
    BY <1>2, <2>1, <2>3
  <2> QED BY <2>5, <2>6, <2>7 DEF p
<1> QED BY <1>1, <1>2

LEMMA XrayFormat ==
    ASSUME NEW c, NEW opts \in SubOpts
    PROVE  LET p == renderSub("xray", c, opts) IN
           /\ Routes(p) /\ Tuned(p, opts)
           /\ \A o \in p.outbounds : o.creds \in {0, c}
<1> DEFINE p == renderSub("xray", c, opts)
           op == opBranding(opts)
           vTag == Tag("gz-vless", opts)
           tTag == Tag("gz-trojan", opts)
           fTag == Tag("gz-frag", opts)
           hTag == Fixed("gzx-frag")
           v == XrayServer("gz-vless", "vless", c, opts)
           t == XrayServer("gz-trojan", "trojan", c, opts)
           f == Clone(c, opts)
           h == Helper(hTag, "freedom")
<1>1. /\ v.tag = vTag /\ v.protocol = "vless" /\ v.creds = c
      /\ v.fp = fpFor(opts) /\ v.ech = FALSE /\ v.dialer = NoTag
      /\ t.tag = tTag /\ t.protocol = "trojan" /\ t.creds = c
      /\ t.fp = fpFor(opts) /\ t.ech = FALSE /\ t.dialer = NoTag
  BY DEF XrayServer, WithoutEch, Server
<1>2. /\ f.tag = fTag /\ f.protocol = "vless" /\ f.creds = c
      /\ f.fp = fpFor(opts) /\ f.ech = FALSE /\ f.dialer = hTag
      /\ h.tag = hTag /\ h.protocol = "freedom" /\ h.creds = 0
  BY DEF Clone, XrayServer, WithoutEch, Server, Helper
<1>3. /\ vTag.base = "gz-vless" /\ tTag.base = "gz-trojan" /\ fTag.base = "gz-frag"
      /\ hTag.base = "gzx-frag" /\ hTag # NoTag
      /\ vTag.op = op /\ tTag.op = op /\ fTag.op = op
      /\ Fixed("gz-").base = "gz-" /\ Fixed("gz-").op = "neutral"
  BY TagFields
<1>4. /\ p.app = "xray" /\ p.probes = {Fixed("gz-")}
      /\ p.final = IF Fragmented(opts) THEN {vTag, tTag, fTag} ELSE {vTag, tTag}
      /\ p.outbounds = IF Fragmented(opts) THEN {v, t, f, h} ELSE {v, t}
  <2>1. p = buildXrayJson(c, opts)
    BY Formats
  <2>2. AppTags(opts) = IF Fragmented(opts) THEN {vTag, tTag, fTag} ELSE {vTag, tTag}
    BY DEF AppTags
  <2>3. XrayFragment(c, opts) = {h, f}
    BY DEF XrayFragment, Clone
  <2> HIDE DEF v, t, f, h, vTag, tTag, fTag, hTag
  <2>4. p = [app |-> "xray", probes |-> {Fixed("gz-")}, final |-> AppTags(opts),
             outbounds |-> {v, t} \cup (IF Fragmented(opts) THEN {h, f} ELSE {})]
    BY <2>1, <2>3 DEF buildXrayJson, v, t
  <2> HIDE DEF p
  <2> QED BY <2>2, <2>4
<1>5. Fragmented(opts) = (op # "neutral" /\ OPERATORS[op].frag)
  BY KeysResolved DEF Fragmented
<1>6. op = IF opts.opKey \in DOMAIN OPERATORS THEN opts.opKey ELSE "neutral"
  BY KeysResolved
<1>7. fpFor(opts) = IF op = "neutral" THEN DEFAULT_FP ELSE OPERATORS[op].fp
  BY FpResolved
<1> HIDE DEF p, op, v, t, f, h, vTag, tTag, fTag, hTag
<1>8. /\ Servers(p) = IF Fragmented(opts) THEN {v, t, f} ELSE {v, t}
      /\ Routed(p) = Servers(p)
  <2>1. Servers(p) = IF Fragmented(opts) THEN {v, t, f} ELSE {v, t}
    BY <1>1, <1>2, <1>4 DEF Servers
  <2>2. \A sel \in p.final, o \in p.outbounds : Selects(p, sel, o) => o \in Servers(p)
    BY <2>1, <1>1, <1>2, <1>3, <1>4 DEF Selects, StartsWith
  <2>3. \A o \in Servers(p) : \E sel \in p.final : Selects(p, sel, o)
    BY <2>1, <1>1, <1>2, <1>3, <1>4 DEF Selects, StartsWith
  <2>4. Servers(p) \subseteq p.outbounds
    BY DEF Servers
  <2> QED BY <2>1, <2>2, <2>3, <2>4 DEF Routed
<1>9. Routes(p)
  <2>1. \A sel \in p.final : \E o \in p.outbounds : Selects(p, sel, o)
    BY <1>1, <1>2, <1>3, <1>4 DEF Selects, StartsWith
  <2>2. \A o \in Servers(p) : o.dialer # NoTag =>
          \E via \in p.outbounds \ Servers(p) : via.tag = o.dialer
    <3>1. Fragmented(opts) => h \in p.outbounds \ Servers(p)
      BY <1>2, <1>4 DEF Servers
    <3> QED BY <3>1, <1>1, <1>2, <1>8
  <2>3. \A o \in Routed(p) : \E probe \in p.probes : StartsWith(o.tag, probe)
    BY <1>1, <1>2, <1>3, <1>4, <1>8 DEF StartsWith
  <2> QED BY <2>1, <2>2, <2>3, <1>8 DEF Routes
<1>10. Tuned(p, opts)
  <2>1. \A o \in Servers(p) :
          o.fp = fpFor(opts) /\ o.tag.op = op /\ o.ech = FALSE
    BY <1>1, <1>2, <1>3, <1>8
  <2>2. (\E o \in Servers(p) : o.dialer # NoTag) <=> Fragmented(opts)
    BY <1>1, <1>2, <1>3, <1>8
  <2> QED BY <2>1, <2>2, <1>4, <1>5, <1>6, <1>7 DEF Tuned, SubOpts
<1>11. \A o \in p.outbounds : o.creds \in {0, c}
  BY <1>1, <1>2, <1>4
<1> QED BY <1>9, <1>10, <1>11 DEF p

(***************************************************************************)
(* Every profile that is rendered routes to its servers and is tuned as    *)
(* asked, and its credentials are the user's.                              *)
(***************************************************************************)
THEOREM EveryProfile ==
    ASSUME NEW c, NEW opts \in SubOpts, NEW app \in Apps
    PROVE  LET p == renderSub(app, c, opts) IN
           /\ Routes(p) /\ Tuned(p, opts)
           /\ \A o \in p.outbounds : o.creds \in {0, c}
BY PlainFormats, XrayFormat DEF Apps

(***************************************************************************)
(* README.md:224: "ECH opt-in in all formats".  In two of the four it is   *)
(* never on: base64 links carry an ech parameter without a value           *)
(* (subscription.ts:46), and Xray's configuration has none (223-320).      *)
(***************************************************************************)
THEOREM EchOnlyInClashAndSingBox ==
    ASSUME NEW c, NEW opts \in SubOpts
    PROVE  /\ \A app \in {"xray", "v2ray"} :
                \A o \in Servers(renderSub(app, c, opts)) : o.ech = FALSE
           /\ \A app \in {"clash", "singbox"} :
                \A o \in Servers(renderSub(app, c, opts)) : o.ech = opts.ech
<1>1. ASSUME NEW o \in Servers(renderSub("v2ray", c, opts)) PROVE o.ech = FALSE
  <2>1. o \in {WithoutEch(Server(Tag("link", opts), "vless", c, opts)),
               WithoutEch(Server(Tag("link", opts), "trojan", c, opts))}
    BY Formats DEF buildBase64, Servers
  <2> QED BY <2>1 DEF WithoutEch, Server
<1>2. ASSUME NEW o \in Servers(renderSub("xray", c, opts)) PROVE o.ech = FALSE
  <2>1. renderSub("xray", c, opts).outbounds \subseteq
          {XrayServer("gz-vless", "vless", c, opts), XrayServer("gz-trojan", "trojan", c, opts),
           Clone(c, opts), Helper(Fixed("gzx-frag"), "freedom")}
    BY Formats DEF buildXrayJson, XrayFragment, Clone
  <2>2. o \in {XrayServer("gz-vless", "vless", c, opts),
               XrayServer("gz-trojan", "trojan", c, opts),
               Clone(c, opts), Helper(Fixed("gzx-frag"), "freedom")}
    BY <2>1 DEF Servers
  <2>3. o.protocol # "freedom"
    BY DEF Servers
  <2>4. o # Helper(Fixed("gzx-frag"), "freedom")
    BY <2>3, HelperFields
  <2>5. CASE o = Clone(c, opts)
    BY <2>5 DEF Clone, XrayServer, WithoutEch, Server
  <2>6. CASE o \in {XrayServer("gz-vless", "vless", c, opts),
                   XrayServer("gz-trojan", "trojan", c, opts)}
    BY <2>6 DEF XrayServer, WithoutEch, Server
  <2> QED BY <2>2, <2>4, <2>5, <2>6
<1>3. ASSUME NEW app \in {"clash", "singbox"}, NEW o \in Servers(renderSub(app, c, opts))
      PROVE  o.ech = opts.ech
  <2>1. o.protocol # "direct" /\ o \in renderSub(app, c, opts).outbounds
    BY DEF Servers
  <2>2. o \in Named(c, opts) \cup {Helper(Fixed("direct"), "direct")}
    BY <2>1, <1>3, Formats DEF buildClashYaml, buildSingBoxJson
  <2>3. o \in Named(c, opts)
    BY <2>1, <2>2, HelperFields
  <2> QED BY <2>3, ServerFields DEF Named
<1> QED BY <1>1, <1>2, <1>3

-----------------------------------------------------------------------------
(* A copy was made before the next rotation, and versions began in order.  *)
Dated ==
    /\ TypeOK
    /\ \A v, w \in 0 .. creds : v <= w => since[v] <= since[w]
    /\ \A i \in Isolates : listCache[i].at # 0 /\ listCache[i].creds # creds =>
          listCache[i].at <= since[listCache[i].creds + 1]

CopyDated(list) ==
    /\ list \in [at : 1 .. now, creds : 0 .. creds]
    /\ now - list.at < CacheTtl
    /\ list.creds # creds => list.at <= since[list.creds + 1]

LEMMA AskedTyped ==
    /\ ByHand \in Asked
    /\ \A r \in Asked : r.opts \in SubOpts
<1>1. NoOpts \in SubOpts
  BY DEF NoOpts, SubOpts, Keys
<1>2. ByHand.opts = NoOpts
  BY DEF ByHand
<1>3. \A r \in Request : r.opts \in SubOpts
  BY DEF Request
<1> QED BY <1>1, <1>2, <1>3, SubscriptionAssumption DEF Asked

LEMMA ListDated ==
    ASSUME Dated, NEW i \in Isolates
    PROVE  CopyDated(ListUsers(i))
<1>1. listCache[i] \in [at : 0 .. now, creds : 0 .. creds] /\ now \in Nat \ {0}
  BY SubscriptionAssumption DEF Dated, TypeOK
<1>2. creds \in Nat /\ CacheTtl \in Nat \ {0}
  BY SubscriptionAssumption DEF Dated, TypeOK, Versions
<1>3. CASE listCache[i].at # 0 /\ now - listCache[i].at < CacheTtl
  BY <1>1, <1>2, <1>3 DEF ListUsers, CopyDated, Dated
<1>4. CASE ~(listCache[i].at # 0 /\ now - listCache[i].at < CacheTtl)
  BY <1>1, <1>2, <1>4 DEF ListUsers, CopyDated
<1> QED BY <1>3, <1>4

LEMMA KeepsDated ==
    ASSUME Dated, NEW i \in Isolates, NEW list, Keeps(i, list),
           CopyDated(list) \/ list = NoList, UNCHANGED <<now, creds, since>>
    PROVE  /\ listCache' \in [Isolates -> [at : 0 .. now', creds : 0 .. creds']]
           /\ \A v, w \in 0 .. creds' : v <= w => since'[v] <= since'[w]
           /\ \A j \in Isolates : listCache'[j].at # 0 /\ listCache'[j].creds # creds' =>
                 listCache'[j].at <= since'[listCache'[j].creds + 1]
<1>1. list \in [at : 0 .. now, creds : 0 .. creds]
  <2>1. now \in Nat /\ creds \in Nat
    BY SubscriptionAssumption DEF Dated, TypeOK, Versions
  <2> QED BY <2>1 DEF CopyDated, NoList
<1>2. listCache' = [listCache EXCEPT ![i] = list]
  BY DEF Keeps
<1>3. listCache \in [Isolates -> [at : 0 .. now, creds : 0 .. creds]]
  BY DEF Dated, TypeOK
<1>4. list.at # 0 /\ list.creds # creds => list.at <= since[list.creds + 1]
  BY DEF CopyDated, NoList
<1>5. listCache' \in [Isolates -> [at : 0 .. now', creds : 0 .. creds']]
  BY <1>1, <1>2, <1>3
<1>6. \A j \in Isolates : listCache'[j] = IF j = i THEN list ELSE listCache[j]
  BY <1>2, <1>3
<1>7. \A v, w \in 0 .. creds' : v <= w => since'[v] <= since'[w]
  BY DEF Dated
<1>8. ASSUME NEW j \in Isolates, listCache'[j].at # 0, listCache'[j].creds # creds'
      PROVE  listCache'[j].at <= since'[listCache'[j].creds + 1]
  BY <1>4, <1>6, <1>8 DEF Dated
<1> QED BY <1>5, <1>7, <1>8

LEMMA RoutedTyped ==
    ASSUME Dated, NEW p \in profile, NEW o \in Routed(p.body)
    PROVE  o.creds \in 0 .. creds
<1>1. PICK c \in 0 .. creds, r \in Asked, app \in Apps : p = Imported(app, c, r)
  BY DEF Dated, TypeOK
<1>2. p.body = renderSub(app, c, r.opts)
  BY <1>1 DEF Imported
<1>3. o \in p.body.outbounds
  BY DEF Routed
<1>4. o.creds \in {0, c}
  BY <1>2, <1>3, EveryProfile, AskedTyped
<1>5. creds \in Nat
  BY SubscriptionAssumption DEF Dated, TypeOK, Versions
<1> QED BY <1>4, <1>5

-----------------------------------------------------------------------------
(***************************************************************************)
(* Each answer is typed and, when it is made, timely.                      *)
(***************************************************************************)
Timely(a, cr, sn) ==
    LET Ended == a.creds < cr /\ sn[a.creds + 1] <= a.at IN
    /\ a.kind \in {"links", "profile", "page", "accepted"} =>
         a.creds = cr \/ a.at < sn[a.creds + 1] + CacheTtl
    /\ a.kind \in {"landing", "refused"} /\ a.listed =>
         Ended \/ a.at < sn[a.creds] + CacheTtl

LEMMA AnswersTimelyIs == AnswersTimely <=> Timely(answer, creds, since)
BY DEF AnswersTimely, Timely

LEMMA Numbers ==
    ASSUME Dated
    PROVE  /\ now \in Nat \ {0} /\ creds \in Nat /\ CacheTtl \in Nat \ {0}
           /\ creds <= MaxRotations /\ MaxRotations \in Nat
           /\ \A v \in 0 .. creds : since[v] \in 0 .. now
           /\ \A v \in 0 .. creds : v # creds => since[v + 1] \in 0 .. now
BY SubscriptionAssumption DEF Dated, TypeOK, Versions

(* What is found in a copy is what a copy made in time can show.  *)
LEMMA FoundTimely ==
    ASSUME Dated, NEW list, CopyDated(list), NEW kind, NEW r
    PROVE  Timely(Answer(kind, list.creds, r), creds, since)
             \/ kind \in {"landing", "refused"}
<1>1. /\ list.creds \in 0 .. creds /\ list.at \in 1 .. now /\ now - list.at < CacheTtl
      /\ list.creds # creds => list.at <= since[list.creds + 1]
  BY DEF CopyDated
<1>2. list.creds # creds => now < since[list.creds + 1] + CacheTtl
  BY <1>1, Numbers
<1> QED BY <1>1, <1>2, Numbers DEF Timely, Answer

(* What is not found is new, or old.  *)
LEMMA MissedTimely ==
    ASSUME Dated, NEW list, CopyDated(list), NEW kind \in {"landing", "refused"}, NEW r,
           NEW c \in 0 .. creds, c # list.creds
    PROVE  Timely(Answer(kind, c, r), creds, since)
<1>1. /\ list.creds \in 0 .. creds /\ list.at \in 1 .. now /\ now - list.at < CacheTtl
      /\ list.creds # creds => list.at <= since[list.creds + 1]
  BY DEF CopyDated
<1>2. CASE c < list.creds
  <2>1. c < creds /\ c # creds
    BY <1>1, <1>2, Numbers
  <2>2. since[c + 1] <= now
    BY <2>1, Numbers
  <2> QED BY <2>1, <2>2 DEF Timely, Answer
<1>3. CASE c > list.creds
  <2>1. list.creds # creds /\ list.creds + 1 \in 0 .. creds /\ list.creds + 1 <= c
    BY <1>1, <1>3, Numbers
  <2>2. since[list.creds + 1] <= since[c]
    BY <2>1 DEF Dated
  <2>3. since[list.creds + 1] \in Nat /\ since[c] \in Nat
    BY <2>1, Numbers
  <2>4. now < since[c] + CacheTtl
    BY <1>1, <2>1, <2>2, <2>3, Numbers
  <2> QED BY <2>4 DEF Timely, Answer
<1> QED BY <1>1, <1>2, <1>3, Numbers

-----------------------------------------------------------------------------
Inv == Dated /\ Timely(answer, creds, since)

LEMMA AnswerTyped ==
    ASSUME Dated, NEW kind \in AnswerKinds, NEW c \in 0 .. creds, NEW r \in Asked
    PROVE  Answer(kind, c, r) \in [kind : AnswerKinds, creds : 0 .. creds,
                                  asked : Asked, at : 1 .. now, listed : BOOLEAN]
BY Numbers DEF Answer

(* Steps that answer, and leave D1 and the clock alone.  *)
LEMMA AnswerStep ==
    ASSUME Inv, NEW i \in Isolates, Keeps(i, ListUsers(i)),
           UNCHANGED <<now, creds, since>>,
           url' \in 0 .. creds,
           profile' = profile \/ (\E c \in 0 .. creds, r \in Asked, app \in Apps :
                                    profile' = {Imported(app, c, r)}),
           NEW kind \in AnswerKinds, NEW c \in 0 .. creds, NEW r \in Asked,
           answer' = Answer(kind, c, r), Timely(answer', creds, since)
    PROVE  Inv'
<1>1. CopyDated(ListUsers(i))
  BY ListDated DEF Inv
<1>2. /\ listCache' \in [Isolates -> [at : 0 .. now', creds : 0 .. creds']]
      /\ \A v, w \in 0 .. creds' : v <= w => since'[v] <= since'[w]
      /\ \A j \in Isolates : listCache'[j].at # 0 /\ listCache'[j].creds # creds' =>
            listCache'[j].at <= since'[listCache'[j].creds + 1]
  BY <1>1, KeepsDated DEF Inv
<1>3. answer' \in [kind : AnswerKinds, creds : 0 .. creds', asked : Asked,
                     at : 1 .. now', listed : BOOLEAN]
  BY AnswerTyped DEF Inv
<1>4. profile' = {} \/
       \E cc \in 0 .. creds', rr \in Asked, app \in Apps : profile' = {Imported(app, cc, rr)}
  BY DEF Inv, Dated, TypeOK
<1>5. TypeOK'
  BY <1>2, <1>3, <1>4 DEF Inv, Dated, TypeOK
<1>6. Timely(answer', creds', since')
  OBVIOUS
<1> QED BY <1>2, <1>5, <1>6 DEF Inv, Dated

(* Answers given without a list.  *)
LEMMA UnlistedTimely ==
    ASSUME Dated, NEW c \in 0 .. creds, NEW kind \in {"landing", "refused"}
    PROVE  /\ Unlisted(kind, c) \in [kind : AnswerKinds, creds : 0 .. creds,
                asked : Asked, at : 1 .. now, listed : BOOLEAN]
           /\ Timely(Unlisted(kind, c), creds, since)
<1> DEFINE a == Answer(kind, c, ByHand)
           T == [kind : AnswerKinds, creds : 0 .. creds, asked : Asked,
                 at : 1 .. now, listed : BOOLEAN]
<1>1. a \in T
  BY AnswerTyped, AskedTyped DEF AnswerKinds
<1>2. Unlisted(kind, c) = [a EXCEPT !.listed = FALSE]
  BY DEF Unlisted
<1> HIDE DEF a
<1>3. [a EXCEPT !.listed = FALSE] \in T
  BY <1>1
<1>4. [a EXCEPT !.listed = FALSE].kind = a.kind /\ [a EXCEPT !.listed = FALSE].listed = FALSE
  BY <1>1
<1>5. a.kind = kind
  BY DEF a, Answer
<1> QED BY <1>2, <1>3, <1>4, <1>5 DEF Timely

(* Steps that only drop or refill a copy, or answer without one.  *)
LEMMA CopyStep ==
    ASSUME Inv, (\E i \in Isolates : Keeps(i, NoList)) \/ UNCHANGED listCache,
           UNCHANGED <<now, creds, url, profile, since>>,
           UNCHANGED answer
             \/ \E c \in 0 .. creds, kind \in {"landing", "refused"} :
                  answer' = Unlisted(kind, c)
    PROVE  Inv'
<1>1. /\ listCache' \in [Isolates -> [at : 0 .. now', creds : 0 .. creds']]
      /\ \A v, w \in 0 .. creds' : v <= w => since'[v] <= since'[w]
      /\ \A j \in Isolates : listCache'[j].at # 0 /\ listCache'[j].creds # creds' =>
            listCache'[j].at <= since'[listCache'[j].creds + 1]
  <2>1. CASE \E i \in Isolates : Keeps(i, NoList)
    BY <2>1, KeepsDated DEF Inv
  <2>2. CASE UNCHANGED listCache
    BY <2>2 DEF Inv, Dated, TypeOK
  <2> QED BY <2>1, <2>2
<1>2. /\ answer' \in [kind : AnswerKinds, creds : 0 .. creds', asked : Asked,
                      at : 1 .. now', listed : BOOLEAN]
      /\ Timely(answer', creds', since')
  <2>1. CASE UNCHANGED answer
    BY <2>1 DEF Inv, Dated, TypeOK
  <2>2. ASSUME NEW c \in 0 .. creds, NEW kind \in {"landing", "refused"},
               answer' = Unlisted(kind, c)
        PROVE  /\ answer' \in [kind : AnswerKinds, creds : 0 .. creds, asked : Asked,
                               at : 1 .. now, listed : BOOLEAN]
               /\ Timely(answer', creds, since)
    BY <2>2, UnlistedTimely DEF Inv
  <2> QED BY <2>1, <2>2
<1>3. TypeOK'
  BY <1>1, <1>2 DEF Inv, Dated, TypeOK
<1> QED BY <1>1, <1>2, <1>3 DEF Inv, Dated

LEMMA LinksStep == ASSUME Inv, NEW i \in Isolates, Links(i) PROVE Inv'
<1> DEFINE list == ListUsers(i)
<1>1. CopyDated(list) /\ list.creds \in 0 .. creds
  BY ListDated DEF Inv, CopyDated
<1>2. /\ Keeps(i, list) /\ url' = list.creds
      /\ profile' = {Imported("v2ray", list.creds, ByHand)}
      /\ answer' = Answer("links", list.creds, ByHand)
      /\ UNCHANGED <<now, creds, since>>
  BY DEF Links
<1> HIDE DEF list
<1>3. Timely(answer', creds, since)
  BY <1>1, <1>2, FoundTimely DEF Inv
<1>4. \E c \in 0 .. creds, r \in Asked, app \in Apps : profile' = {Imported(app, c, r)}
  BY <1>1, <1>2, AskedTyped DEF Apps
<1> QED BY <1>1, <1>2, <1>3, <1>4, AskedTyped, AnswerStep DEF AnswerKinds, list

LEMMA ServeStep ==
    ASSUME Inv, NEW i \in Isolates, NEW r \in Requests, Serve(i, r)
    PROVE  Inv'
<1> DEFINE list == ListUsers(i)
           app == resolveApp(r.override, r.ua)
<1>1. CopyDated(list) /\ list.creds \in 0 .. creds
  BY ListDated DEF Inv, CopyDated
<1>2. /\ Keeps(i, list) /\ url = list.creds
      /\ UNCHANGED <<now, creds, url, since>>
      /\ \/ answer' = Answer("page", url, r) /\ UNCHANGED profile
         \/ /\ answer' = Answer("profile", url, r) /\ app # "page"
            /\ profile' = {Imported(app, url, r)}
  BY DEF Serve
<1>3. app \in Apps \cup {"page"}
  <2>1. r.override \in Overrides
    BY SubscriptionAssumption DEF Request
  <2>2. sniffApp(r.ua) \in {"clash", "singbox", "v2ray"}
    BY DEF sniffApp
  <2> QED BY <2>1, <2>2 DEF resolveApp, Overrides, Apps
<1>4. r \in Asked
  BY DEF Asked
<1> HIDE DEF list, app
<1>5. Timely(Answer("page", list.creds, r), creds, since)
      /\ Timely(Answer("profile", list.creds, r), creds, since)
  BY <1>1, FoundTimely DEF Inv
<1>6. CASE answer' = Answer("page", url, r) /\ UNCHANGED profile
  BY <1>1, <1>2, <1>4, <1>5, <1>6, AnswerStep DEF AnswerKinds, list
<1>7. CASE answer' = Answer("profile", url, r) /\ app # "page"
           /\ profile' = {Imported(app, url, r)}
  <2>1. \E c \in 0 .. creds, q \in Asked, a \in Apps : profile' = {Imported(a, c, q)}
    BY <1>1, <1>2, <1>3, <1>4, <1>7
  <2> QED BY <1>1, <1>2, <1>4, <1>5, <1>7, <2>1, AnswerStep DEF AnswerKinds, list
<1> QED BY <1>2, <1>6, <1>7

LEMMA UnknownStep == ASSUME Inv, NEW i \in Isolates, UnknownToken(i) PROVE Inv'
<1>1. CopyDated(ListUsers(i)) /\ url \in 0 .. creds
  BY ListDated DEF Inv, Dated, TypeOK
<1>2. /\ Keeps(i, ListUsers(i)) /\ url # ListUsers(i).creds
      /\ answer' = Answer("landing", url, ByHand)
      /\ UNCHANGED <<now, creds, url, profile, since>>
  BY DEF UnknownToken
<1>3. Timely(answer', creds, since)
  BY <1>1, <1>2, MissedTimely DEF Inv
<1> QED BY <1>1, <1>2, <1>3, AskedTyped, AnswerStep DEF AnswerKinds

LEMMA PresentedTyped == ASSUME Dated PROVE Presented \subseteq 0 .. creds
BY RoutedTyped DEF Presented

LEMMA ConnectStep == ASSUME Inv, NEW i \in Isolates, Connect(i) PROVE Inv'
<1> DEFINE list == ListUsers(i)
<1>1. CopyDated(list) /\ url \in 0 .. creds
  BY ListDated DEF Inv, Dated, TypeOK
<1>2. PICK c \in Presented :
         answer' = Answer(IF c = list.creds THEN "accepted" ELSE "refused", c, ByHand)
  BY DEF Connect
<1>3. c \in 0 .. creds
  BY PresentedTyped DEF Inv
<1>4. Keeps(i, list) /\ UNCHANGED <<now, creds, url, profile, since>>
  BY DEF Connect
<1> HIDE DEF list
<1>5. CASE c = list.creds
  <2>1. answer' = Answer("accepted", c, ByHand)
    BY <1>2, <1>5
  <2>2. Timely(answer', creds, since)
    BY <1>1, <1>5, <2>1, FoundTimely DEF Inv
  <2> QED BY <1>1, <1>3, <1>4, <2>1, <2>2, AskedTyped, AnswerStep DEF AnswerKinds, list
<1>6. CASE c # list.creds
  <2>1. answer' = Answer("refused", c, ByHand)
    BY <1>2, <1>6
  <2>2. Timely(answer', creds, since)
    BY <1>1, <1>3, <1>6, <2>1, MissedTimely DEF Inv
  <2> QED BY <1>1, <1>3, <1>4, <2>1, <2>2, AskedTyped, AnswerStep DEF AnswerKinds, list
<1> QED BY <1>5, <1>6

LEMMA UnlistedStep ==
    ASSUME Inv, PathUnknown \/ \E i \in Isolates : ListFails(i)
    PROVE  Inv'
<1>1. url \in 0 .. creds /\ Presented \subseteq 0 .. creds
  BY PresentedTyped DEF Inv, Dated, TypeOK
<1>2. CASE PathUnknown
  BY <1>1, <1>2, CopyStep DEF PathUnknown
<1>3. ASSUME NEW i \in Isolates, ListFails(i) PROVE Inv'
  BY <1>1, <1>3, CopyStep DEF ListFails
<1> QED BY <1>2, <1>3

(* A rotation ends the version before it now.  *)
LEMMA RotateStep == ASSUME Inv, NEW i \in Isolates, Rotate(i) PROVE Inv'
<1>1. PICK list \in {NoList, ListUsers(i)} : Keeps(i, list)
  BY DEF Rotate
<1>2. /\ creds < MaxRotations /\ creds' = creds + 1
      /\ since' = [since EXCEPT ![creds + 1] = now]
      /\ UNCHANGED <<now, url, profile, answer>>
  BY DEF Rotate
<1>3. /\ now \in Nat \ {0} /\ creds \in Nat /\ creds' \in Versions /\ creds' \in Nat
      /\ since \in [Versions -> 0 .. now] /\ CacheTtl \in Nat \ {0}
      /\ 0 .. creds \subseteq 0 .. creds' /\ MaxRotations \in Nat
  BY <1>2, Numbers DEF Inv, Dated, TypeOK, Versions
<1>4. /\ since' \in [Versions -> 0 .. now] /\ since'[creds + 1] = now
      /\ \A v \in 0 .. creds : since'[v] = since[v] /\ v \in Versions
  BY <1>2, <1>3 DEF Versions
<1>5. CopyDated(ListUsers(i))
  BY ListDated DEF Inv
<1>6. list \in [at : 0 .. now, creds : 0 .. creds]
      /\ (list.at # 0 /\ list.creds # creds => list.at <= since[list.creds + 1])
  <2>1. CASE list = NoList
    BY <1>3, <2>1 DEF NoList
  <2>2. CASE list = ListUsers(i)
    BY <1>3, <1>5, <2>2 DEF CopyDated
  <2> QED BY <1>1, <2>1, <2>2
<1>7. /\ listCache' = [listCache EXCEPT ![i] = list]
      /\ listCache \in [Isolates -> [at : 0 .. now, creds : 0 .. creds]]
  BY <1>1 DEF Keeps, Inv, Dated, TypeOK
<1>8. \A j \in Isolates :
        /\ listCache'[j] \in [at : 0 .. now, creds : 0 .. creds]
        /\ listCache'[j].at # 0 /\ listCache'[j].creds # creds =>
              listCache'[j].at <= since[listCache'[j].creds + 1]
  <2>1. \A j \in Isolates : listCache'[j] = IF j = i THEN list ELSE listCache[j]
    BY <1>7
  <2> QED BY <1>6, <1>7, <2>1 DEF Inv, Dated
<1>9. listCache' \in [Isolates -> [at : 0 .. now', creds : 0 .. creds']]
  BY <1>2, <1>3, <1>6, <1>7
<1>10. \A j \in Isolates : listCache'[j].at # 0 /\ listCache'[j].creds # creds' =>
         listCache'[j].at <= since'[listCache'[j].creds + 1]
  <2> SUFFICES ASSUME NEW j \in Isolates, listCache'[j].at # 0,
                      listCache'[j].creds # creds'
               PROVE  listCache'[j].at <= since'[listCache'[j].creds + 1]
    OBVIOUS
  <2>1. listCache'[j].at \in 0 .. now /\ listCache'[j].creds \in 0 .. creds
    BY <1>8
  <2>2. CASE listCache'[j].creds = creds
    BY <1>3, <1>4, <2>1, <2>2
  <2>3. CASE listCache'[j].creds # creds
    BY <1>3, <1>4, <1>8, <2>1, <2>3
  <2> QED BY <2>2, <2>3
<1>11. \A v, w \in 0 .. creds' : v <= w => since'[v] <= since'[w]
  <2> SUFFICES ASSUME NEW v \in 0 .. creds', NEW w \in 0 .. creds', v <= w
               PROVE  since'[v] <= since'[w]
    OBVIOUS
  <2>1. CASE w = creds + 1
    BY <1>2, <1>3, <1>4, <2>1 DEF Versions
  <2>2. CASE w # creds + 1
    <3>1. v \in 0 .. creds /\ w \in 0 .. creds
      BY <1>2, <1>3, <2>2
    <3> QED BY <1>4, <3>1 DEF Inv, Dated
  <2> QED BY <2>1, <2>2
<1>12. TypeOK'
  <2>1. /\ url' \in 0 .. creds'
        /\ answer' \in [kind : AnswerKinds, creds : 0 .. creds', asked : Asked,
                     at : 1 .. now', listed : BOOLEAN]
    BY <1>2, <1>3 DEF Inv, Dated, TypeOK
  <2>2. profile' = {} \/
         \E c \in 0 .. creds', r \in Asked, app \in Apps : profile' = {Imported(app, c, r)}
    BY <1>2, <1>3 DEF Inv, Dated, TypeOK
  <2>3. now' \in 1 .. MaxTime
    BY <1>2 DEF Inv, Dated, TypeOK
  <2> QED BY <1>2, <1>3, <1>4, <1>9, <2>1, <2>2, <2>3 DEF TypeOK
<1>13. Timely(answer', creds', since')
  <2>1. answer.creds \in 0 .. creds /\ answer.at \in 1 .. now
    BY DEF Inv, Dated, TypeOK
  <2>2. CASE answer.creds = creds
    BY <1>2, <1>3, <1>4, <2>1, <2>2 DEF Timely, Inv
  <2>3. CASE answer.creds # creds
    <3>1. answer.creds + 1 \in 0 .. creds /\ answer.creds < creds
      BY <1>3, <2>1, <2>3
    <3>2. since'[answer.creds] = since[answer.creds]
          /\ since'[answer.creds + 1] = since[answer.creds + 1]
      BY <1>4, <2>1, <3>1
    <3> QED BY <1>2, <1>3, <2>1, <3>1, <3>2 DEF Timely, Inv
  <2> QED BY <2>2, <2>3
<1> QED BY <1>10, <1>11, <1>12, <1>13 DEF Inv, Dated

LEMMA TickStep == ASSUME Inv, Tick PROVE Inv'
<1>1. /\ now' = now + 1 /\ now < MaxTime
      /\ UNCHANGED <<creds, listCache, url, profile, answer, since>>
  BY DEF Tick
<1>2. /\ now \in 1 .. MaxTime /\ MaxTime \in Nat /\ now' \in 1 .. MaxTime
      /\ 0 .. now \subseteq 0 .. now' /\ 1 .. now \subseteq 1 .. now'
  BY <1>1, SubscriptionAssumption DEF Inv, Dated, TypeOK
<1>3. TypeOK'
  <2>1. /\ listCache' \in [Isolates -> [at : 0 .. now', creds : 0 .. creds']]
        /\ since' \in [Versions -> 0 .. now']
    BY <1>1, <1>2 DEF Inv, Dated, TypeOK
  <2>2. answer' \in [kind : AnswerKinds, creds : 0 .. creds', asked : Asked,
                     at : 1 .. now', listed : BOOLEAN]
    BY <1>1, <1>2 DEF Inv, Dated, TypeOK
  <2> QED BY <1>1, <1>2, <2>1, <2>2 DEF Inv, Dated, TypeOK
<1> QED BY <1>1, <1>3 DEF Inv, Dated, Timely

-----------------------------------------------------------------------------
(***************************************************************************)
(* Whatever is answered is timely, in every isolate and at any time.       *)
(***************************************************************************)
THEOREM SubscriptionInvariant == Spec => []Inv
<1>1. Init => Inv
  <2> SUFFICES ASSUME Init PROVE Inv
    OBVIOUS
  <2>1. /\ now = 1 /\ creds = 0 /\ 0 \in Versions /\ Versions \subseteq Nat
        /\ since = [v \in Versions |-> IF v = 0 THEN 1 ELSE 0]
    BY SubscriptionAssumption DEF Init, Versions
  <2>2. answer = [kind |-> "none", creds |-> 0, asked |-> ByHand, at |-> 1,
                  listed |-> TRUE]
    BY DEF Init, Answer
  <2>3. TypeOK
    <3>1. answer \in [kind : AnswerKinds, creds : 0 .. creds, asked : Asked,
                      at : 1 .. now, listed : BOOLEAN]
      BY <2>1, <2>2, AskedTyped DEF AnswerKinds
    <3> QED BY <3>1, <2>1, AskedTyped, SubscriptionAssumption
       DEF Init, TypeOK, NoList, AnswerKinds
  <2>4. Timely(answer, creds, since)
    BY <2>2 DEF Timely
  <2>5. \A i \in Isolates : listCache[i].at = 0
    BY DEF Init, NoList
  <2>6. \A v, w \in 0 .. creds : v <= w => since[v] <= since[w]
    BY <2>1
  <2> QED BY <2>3, <2>4, <2>5, <2>6 DEF Inv, Dated
<1>2. ASSUME Inv, [Next]_vars PROVE Inv'
  <2>1. CASE UNCHANGED vars
    BY <1>2, <2>1 DEF vars, Inv, Dated, Timely, TypeOK
  <2>2. ASSUME NEW i \in Isolates, Evict(i) PROVE Inv'
    BY <1>2, <2>2, CopyStep DEF Evict
  <2> QED BY <1>2, <2>1, <2>2, LinksStep, ServeStep, UnknownStep, ConnectStep,
            UnlistedStep, RotateStep, TickStep DEF Next
<1> QED BY <1>1, <1>2, PTL DEF Spec

(***************************************************************************)
(* Lists, links, imported profiles and answers keep their types: none has  *)
(* credentials newer than the row's.                                       *)
(***************************************************************************)
THEOREM SubscriptionTypeCorrect == Spec => []TypeOK
<1>1. Inv => TypeOK
  BY DEF Inv, Dated
<1> QED BY <1>1, SubscriptionInvariant, PTL

(***************************************************************************)
(* After PATCH with rotateCredentials the old uuid, password and token are *)
(* given out and accepted for less than a TTL, and the new ones refused    *)
(* for less than that by what looks in a list; what answers without one,   *)
(* because D1 fails or the path is not known, may refuse at any time.      *)
(***************************************************************************)
THEOREM RotationTakesEffect == Spec => []AnswersTimely
<1>1. Inv => AnswersTimely
  BY AnswersTimelyIs DEF Inv
<1> QED BY <1>1, SubscriptionInvariant, PTL

(***************************************************************************)
(* Every profile a client ever holds can be used, and is tuned as it       *)
(* asked.                                                                  *)
(***************************************************************************)
THEOREM ProfilesSound == Spec => [](ProfileRoutes /\ TunedAsAsked)
<1>1. ASSUME Inv, NEW q \in profile
      PROVE  Routes(q.body) /\ Tuned(q.body, q.asked.opts)
  <2>1. PICK c \in 0 .. creds, r \in Asked, app \in Apps : q = Imported(app, c, r)
    BY <1>1 DEF Inv, Dated, TypeOK
  <2>2. q.body = renderSub(app, c, r.opts) /\ q.asked = r
    BY <2>1 DEF Imported
  <2> QED BY <2>2, EveryProfile, AskedTyped
<1>2. Inv => ProfileRoutes
  BY <1>1 DEF ProfileRoutes, Routes
<1>3. Inv => TunedAsAsked
  BY <1>1 DEF TunedAsAsked, Tuned
<1> QED BY <1>2, <1>3, SubscriptionInvariant, PTL

(***************************************************************************)
(* operators.ts:10-15 for everything a client ever imports.                *)
(***************************************************************************)
THEOREM ProfilesTuned == Spec => []TunedAsAsked
BY ProfilesSound, PTL

(***************************************************************************)
(* The status page is for browsers, and for who asks for it, whatever      *)
(* words a User-Agent has (subscription.ts:324-359).                       *)
(***************************************************************************)
LEMMA PageOfRequest ==
    ASSUME NEW r \in Request, resolveApp(r.override, r.ua) = "page"
    PROVE  r.override \in {"page", "status"} \/ r.ua = {"browser"}
<1>1. r.override \in Overrides /\ r.ua \subseteq Markers
  BY DEF Request
<1>2. CASE r.override \in {"page", "status"}
  BY <1>2
<1>3. CASE r.override \in {"clash", "singbox", "xray", "v2ray", "base64"}
  BY <1>3 DEF resolveApp
<1>4. CASE r.override \in {"none", "unknown"}
  <2>1. sniffApp(r.ua) = "v2ray" /\ isBrowserUa(r.ua)
    <3>1. sniffApp(r.ua) # "page"
      BY DEF sniffApp
    <3> QED BY <1>4, <3>1 DEF resolveApp
  <2>2. "vera" \notin r.ua
    BY <2>1 DEF sniffApp
  <2>3. "browser" \in r.ua /\ "clash" \notin r.ua /\ "singbox" \notin r.ua
        /\ "client" \notin r.ua
    BY <2>1 DEF isBrowserUa
  <2> QED BY <1>1, <2>2, <2>3 DEF Markers
<1> QED BY <1>1, <1>2, <1>3, <1>4 DEF Overrides

(***************************************************************************)
(* resolveApp and the subscription route answer with the status page only  *)
(* browsers and requests that ask for it, whatever words an agent has.     *)
(***************************************************************************)
THEOREM PagesForBrowsersOnly == Spec => []PageForBrowsers
<1>1. Init => PageForBrowsers
  BY DEF Init, Answer, PageForBrowsers
<1>2. ASSUME PageForBrowsers, [Next]_vars PROVE PageForBrowsers'
  <2>1. CASE UNCHANGED answer
    BY <1>2, <2>1 DEF PageForBrowsers
  <2>2. CASE answer'.kind # "page"
    BY <2>2 DEF PageForBrowsers
  <2>3. ASSUME NEW i \in Isolates, NEW r \in Requests, Serve(i, r)
        PROVE  PageForBrowsers'
    <3>1. r \in Request
      BY SubscriptionAssumption
    <3>2. CASE resolveApp(r.override, r.ua) = "page"
      <4>1. answer'.asked = r
        BY <2>3, <3>2 DEF Serve, Answer
      <4> QED BY <3>1, <3>2, <4>1, PageOfRequest DEF PageForBrowsers
    <3>3. CASE resolveApp(r.override, r.ua) # "page"
      <4>1. answer'.kind = "profile"
        BY <2>3, <3>3 DEF Serve, Answer
      <4> QED BY <2>2, <4>1
    <3> QED BY <3>2, <3>3
  <2>4. ASSUME NEW i \in Isolates, Links(i) \/ UnknownToken(i)
        PROVE  answer'.kind # "page"
    BY <2>4 DEF Links, UnknownToken, Answer
  <2>5. ASSUME NEW i \in Isolates, Connect(i) PROVE answer'.kind # "page"
    BY <2>5 DEF Connect, Answer
  <2>6. ASSUME NEW i \in Isolates, Rotate(i) \/ Evict(i)
        PROVE  UNCHANGED answer
    BY <2>6 DEF Rotate, Evict
  <2>7. ASSUME PathUnknown \/ \E i \in Isolates : ListFails(i)
        PROVE  UNCHANGED answer \/ answer'.kind # "page"
    BY <2>7 DEF PathUnknown, ListFails, Unlisted, Answer
  <2> QED BY <1>2, <2>1, <2>2, <2>3, <2>4, <2>5, <2>6, <2>7
          DEF Next, Tick, vars
<1> QED BY <1>1, <1>2, PTL DEF Spec
=============================================================================
