------------------------------ MODULE WireHeader ------------------------------
(***************************************************************************)
(* What the two protocol parsers make of the first n bytes of a client's   *)
(* stream.  A stream is a record of the fields of its header; the parsers  *)
(* only ever see how many of its bytes have come.                          *)
(*                                                                         *)
(*   src/handlers/websocket.ts   tryParseAndResolve                        *)
(*   src/protocols/vless.ts      parseVless                                *)
(*   src/protocols/trojan.ts     parseTrojan                               *)
(*   src/protocols/common.ts     parseAddress                              *)
(*                                                                         *)
(*   VLESS   ver 1, uuid 16, optLen 1, opt, cmd 1, port 2, atyp 1, addr    *)
(*   Trojan  hash 56, CRLF, cmd 1, port 2, atyp 1, addr, CRLF              *)
(***************************************************************************)
EXTENDS Naturals

Protocols == {"vless", "trojan", "other"}   \* told apart by the first byte

(* opt: length of the VLESS options; name: length of a domain; fault: the  *)
(* bytes before ("head") or after ("tail") the address are not as they     *)
(* should be; payload: bytes after the header.                             *)
Stream == [proto : Protocols, opt : Nat, cmd : {"tcp", "udp", "bad"},
           atyp : {"ipv4", "domain", "ipv6", "bad"}, name : Nat,
           fault : {"none", "head", "tail"}, payload : Nat]

AtypAt(s) == IF s.proto = "vless" THEN 21 + s.opt ELSE 61

AddressLen(s) ==
    CASE s.atyp = "ipv4"   -> 4
      [] s.atyp = "ipv6"   -> 16
      [] s.atyp = "domain" -> 1 + s.name
      [] s.atyp = "bad"    -> 0

AddressEnd(s) == AtypAt(s) + 1 + AddressLen(s)

HeaderLen(s) == IF s.proto = "trojan" THEN AddressEnd(s) + 2 ELSE AddressEnd(s)

Total(s) == HeaderLen(s) + s.payload

WellFormed(s) ==
    /\ s.proto # "other" /\ s.cmd # "bad" /\ s.atyp # "bad" /\ s.fault = "none"

-----------------------------------------------------------------------------
(* Mutant: a whole Trojan header of 68 bytes is not enough.  *)
TooShortLate(s, n) ==
    \/ n < 24
    \/ s.proto = "vless" /\ (n < 26 \/ n < 22 + s.opt)
    \/ s.proto = "trojan" /\ n <= 68

(* The lengths asked for before anything is read of the address.  *)
TooShort(s, n) ==
    \/ n < 24
    \/ s.proto = "vless" /\ (n < 26 \/ n < 22 + s.opt)
    \/ s.proto = "trojan" /\ n < 68

(* The length byte of the domain has not come: chunk[i] is undefined, and  *)
(* so are the comparison and every offset computed from it.                *)
LengthMissing(s, n) == s.atyp = "domain" /\ n = AtypAt(s) + 1

AddressShort(s, n) == ~LengthMissing(s, n) /\ n < AddressEnd(s)

(* Errors thrown before the address is looked at.  *)
BadStart(s) ==
    \/ s.proto = "other" \/ s.cmd = "bad" \/ s.atyp = "bad"
    \/ s.proto = "trojan" /\ s.fault = "head"

(* Mutant: one byte more is asked for.  *)
BadTailEarly(s, n) ==
    s.proto = "trojan" /\ (n <= HeaderLen(s) \/ s.fault = "tail")

(* The CRLF after a Trojan address is wrong, or has not come: an error     *)
(* without the word "short" in it.                                         *)
BadTail(s, n) ==
    s.proto = "trojan" /\ (n < HeaderLen(s) \/ s.fault = "tail")

(* "wait": read more; "bad": an error; "empty": VLESS taken for complete,  *)
(* with no host and no header length; "target": parsed.                    *)
Parse(s, n) ==
    IF TooShort(s, n) THEN "wait"
    ELSE IF BadStart(s) THEN "bad"
    ELSE IF AddressShort(s, n) THEN "wait"
    ELSE IF BadTail(s, n) THEN "bad"
    ELSE IF LengthMissing(s, n) THEN "empty"
    ELSE "target"
=============================================================================
