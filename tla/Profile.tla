------------------------------- MODULE Profile -------------------------------
(***************************************************************************)
(* The client configurations the worker generates, as far as a client acts *)
(* on them: which outbounds there are, with whose credentials and with     *)
(* which tuning, what traffic is sent to, and what is dialed through what. *)
(*                                                                         *)
(*   src/sub/operators.ts   resolveOp, fpFor, opBranding                   *)
(*   src/subscription.ts    the four builders, resolveApp                  *)
(*                                                                         *)
(* Credentials are numbered by the rotations before them: one number       *)
(* stands for a uuid and the trojan password that goes with it.            *)
(***************************************************************************)
EXTENDS Naturals

(* frag: the operator has a fragment preset.  *)
OPERATORS ==
    [mci      |-> [fp |-> "randomized", frag |-> TRUE],
     irancell |-> [fp |-> "chrome",     frag |-> TRUE],
     rightel  |-> [fp |-> "firefox",    frag |-> TRUE],
     shatel   |-> [fp |-> "chrome",     frag |-> FALSE],
     tci      |-> [fp |-> "safari",     frag |-> TRUE]]

DEFAULT_FP == "chrome"

(* What ?op= says: an operator's key, nothing, "auto", anything else.  *)
Keys == DOMAIN OPERATORS \cup {"absent", "auto", "unknown"}

(* Mutant: a key that is not known means the first operator.  *)
resolveOpFirst(key) ==
    IF key \in DOMAIN OPERATORS THEN key
    ELSE IF key = "unknown" THEN "mci"
    ELSE "neutral"

(* The operator in effect, or the absence of one.  *)
resolveOp(key) == IF key \in DOMAIN OPERATORS THEN key ELSE "neutral"

fpFor(opts) ==
    IF resolveOp(opts.opKey) = "neutral" THEN DEFAULT_FP
    ELSE OPERATORS[resolveOp(opts.opKey)].fp

opBranding(opts) == resolveOp(opts.opKey)

SubOpts == [opKey : Keys, ech : BOOLEAN]

NoOpts == [opKey |-> "absent", ech |-> FALSE]     \* opts = null

-----------------------------------------------------------------------------
(* A tag is a base and, after it, the operator's name if there is one.     *)
Tag(base, opts) == [base |-> base, op |-> opBranding(opts)]

Fixed(base) == [base |-> base, op |-> "neutral"]

NoTag == Fixed("none")

Server(tag, protocol, creds, opts) ==
    [tag |-> tag, protocol |-> protocol, creds |-> creds, fp |-> fpFor(opts),
     ech |-> opts.ech, dialer |-> NoTag]

Helper(tag, protocol) ==
    [tag |-> tag, protocol |-> protocol, creds |-> 0, fp |-> "none",
     ech |-> FALSE, dialer |-> NoTag]

(* The links have an ech parameter without a value, the tls settings of    *)
(* Xray none at all: neither turns ECH on.                                 *)
WithoutEch(server) == [server EXCEPT !.ech = FALSE]

(* final: the tags named for traffic to go to; probes: those measured.     *)
buildBase64(creds, opts) ==
    LET tag == Tag("link", opts) IN
    [app |-> "v2ray", final |-> {tag}, probes |-> {},
     outbounds |-> {WithoutEch(Server(tag, "vless", creds, opts)),
                    WithoutEch(Server(tag, "trojan", creds, opts))}]

Named(creds, opts) ==
    {Server(Tag("Gozargah-VLESS", opts), "vless", creds, opts),
     Server(Tag("Gozargah-Trojan", opts), "trojan", creds, opts)}

buildClashYaml(creds, opts) ==
    [app |-> "clash", probes |-> {},
     final |-> {Tag("Gozargah-VLESS", opts), Tag("Gozargah-Trojan", opts)},
     outbounds |-> Named(creds, opts)]

buildSingBoxJson(creds, opts) ==
    [app |-> "singbox", probes |-> {},
     final |-> {Tag("Gozargah-VLESS", opts)},
     outbounds |-> Named(creds, opts) \cup {Helper(Fixed("direct"), "direct")}]

XrayServer(base, protocol, creds, opts) ==
    WithoutEch(Server(Tag(base, opts), protocol, creds, opts))

XrayFragment(creds, opts) ==
    {Helper(Fixed("gzx-frag"), "freedom"),
     [XrayServer("gz-frag", "vless", creds, opts)
        EXCEPT !.dialer = Fixed("gzx-frag")]}

Fragmented(opts) ==
    /\ resolveOp(opts.opKey) # "neutral"
    /\ OPERATORS[resolveOp(opts.opKey)].frag

(* Mutant: the clone is not given to the balancer.  *)
AppTagsFixed(opts) == {Tag("gz-vless", opts), Tag("gz-trojan", opts)}

AppTags(opts) ==
    {Tag("gz-vless", opts), Tag("gz-trojan", opts)}
      \cup (IF Fragmented(opts) THEN {Tag("gz-frag", opts)} ELSE {})

buildXrayJson(creds, opts) ==
    [app |-> "xray", probes |-> {Fixed("gz-")},
     final |-> AppTags(opts),
     outbounds |->
        {XrayServer("gz-vless", "vless", creds, opts),
         XrayServer("gz-trojan", "trojan", creds, opts)}
          \cup (IF Fragmented(opts) THEN XrayFragment(creds, opts) ELSE {})]

renderSub(app, creds, opts) ==
    CASE app = "clash"   -> buildClashYaml(creds, opts)
      [] app = "singbox" -> buildSingBoxJson(creds, opts)
      [] app = "xray"    -> buildXrayJson(creds, opts)
      [] OTHER           -> buildBase64(creds, opts)

-----------------------------------------------------------------------------
(* The words of a User-Agent that matter, in classes: "vera" is known to   *)
(* sniffApp only, "client" to isBrowserUa only, "clash" (and stash) and    *)
(* "singbox" (and karing, hiddify) to both.                                *)
Markers == {"clash", "vera", "singbox", "client", "browser"}

Overrides == {"none", "page", "status", "clash", "singbox", "xray", "v2ray",
              "base64", "unknown"}

sniffApp(ua) ==
    IF ua \cap {"clash", "vera"} # {} THEN "clash"
    ELSE IF "singbox" \in ua THEN "singbox"
    ELSE "v2ray"

(* Mutant: the clients' own words are not looked for.  *)
AnyBrowser(ua) == "browser" \in ua

isBrowserUa(ua) ==
    ua \cap {"clash", "singbox", "client"} = {} /\ "browser" \in ua

resolveApp(override, ua) ==
    CASE override \in {"page", "status"}   -> "page"
      [] override \in {"clash", "singbox", "xray"} -> override
      [] override \in {"v2ray", "base64"}  -> "v2ray"
      [] override \in {"none", "unknown"}  ->
            IF sniffApp(ua) # "v2ray" THEN sniffApp(ua)
            ELSE IF isBrowserUa(ua) THEN "page"
            ELSE "v2ray"

(* What a client asks for with a poll of its subscription.  *)
Request == [override : Overrides, ua : SUBSET Markers, opts : SubOpts]
=============================================================================
