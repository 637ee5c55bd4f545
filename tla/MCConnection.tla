----------------------------- MODULE MCConnection -----------------------------
(***************************************************************************)
(* Finite values for the constants of Connection.                          *)
(***************************************************************************)
EXTENDS Connection

CONSTANTS d, p1, p2

Vless == [proto |-> "vless", opt |-> 0, cmd |-> "tcp", atyp |-> "ipv4",
          name |-> 0, fault |-> "none", payload |-> 0]
Trojan == [Vless EXCEPT !.proto = "trojan"]

(* The shortest headers there are, without payload.  *)
Shortest == {Vless, Trojan,
             [Vless  EXCEPT !.atyp = "domain", !.name = 3],
             [Trojan EXCEPT !.atyp = "domain", !.name = 3]}

(* Longer ones: options, IPv6, payload; a domain cut at its length byte.   *)
Longer == {[Vless  EXCEPT !.opt = 5, !.atyp = "domain", !.name = 3, !.payload = 2],
           [Vless  EXCEPT !.opt = 1, !.atyp = "ipv6"],
           [Trojan EXCEPT !.atyp = "ipv6", !.payload = 2]}

(* What no client should send, and what is refused.  *)
Refused == {[Vless  EXCEPT !.proto = "other"],
            [Vless  EXCEPT !.cmd = "bad"],
            [Vless  EXCEPT !.atyp = "bad", !.payload = 4],
            [Vless  EXCEPT !.cmd = "udp"],
            [Trojan EXCEPT !.fault = "head"],
            [Trojan EXCEPT !.fault = "tail", !.payload = 1]}

AllStreams  == Shortest \cup Longer \cup Refused
OneTrojan   == {[Trojan EXCEPT !.atyp = "domain", !.name = 4]}

Three       == {d, p1, p2}
List        == <<p1, p2, p1>>
=============================================================================
