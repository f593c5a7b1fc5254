--------------------------- MODULE SocketAddress ---------------------------
(***************************************************************************)
(* SocketAddress: an address as text (ip_, port_) and as the native        *)
(* structure, each computed from the other when it is first asked for and  *)
(* then kept.  The getters are const and change the cache; copies share    *)
(* what has been computed so far.                                          *)
(*                                                                         *)
(* A text is one of a few kinds: a dotted IPv4 address, an IPv6 address,   *)
(* an IPv4-mapped IPv6 address, which has colons and dots, or a name with  *)
(* neither.  A port is two bytes, and native structures hold it swapped.   *)
(*                                                                         *)
(* A definition introduced by "Slip" is a plausible mistake in the         *)
(* operation that follows it and is not part of the specification.         *)
(***************************************************************************)
EXTENDS Naturals

CONSTANTS Objects,      \* SocketAddress objects
          Ports         \* ports used, each below 65536

Texts == {"v4", "v6", "mapped", "name"}

Swapped(port) == (port % 256) * 256 + port \div 256     \* htons, ntohs

HasDot(ip) == ip \in {"v4", "mapped"}
HasColon(ip) == ip \in {"v6", "mapped"}
Parses(family, ip) ==                                   \* inet_pton
  ip \in (IF family = "AF_INET" THEN {"v4"} ELSE {"v6", "mapped"})

Native(family, ip, port) ==
  [sa_family |-> family, address |-> ip, sa_port |-> Swapped(port)]
NoNative == [sa_family |-> "none", address |-> "", sa_port |-> 0]
Natives == {Native("AF_UNIX", "", 0)}
             \cup {Native("AF_INET", "v4", p) : p \in Ports}
             \cup {Native("AF_INET6", "v6", p) : p \in Ports}
             \cup {Native("AF_INET6", "mapped", p) : p \in Ports}

Protocol(family) == CASE family = "AF_INET" -> "IP_V4"
                      [] family = "AF_INET6" -> "IP_V6"
                      [] OTHER -> "UNKNOWN"
Size(protocol) == CASE protocol = "IP_V4" -> 16
                    [] protocol = "IP_V6" -> 28
                    [] OTHER -> 0

VARIABLES obj,          \* obj[o]: the members of Impl
          given         \* given[o]: what the object was last successfully given

vars == <<obj, given>>

Empty == [has_addr |-> FALSE, ip |-> "", port |-> 0, has_native |-> FALSE,
          protocol |-> "UNKNOWN", native |-> NoNative, size |-> 0]

Init == /\ obj = [o \in Objects |-> Empty]
        /\ given = [o \in Objects |-> [as |-> "nothing"]]

-----------------------------------------------------------------------------
TranslateNativeAddressToAddress(x) ==
  IF x.protocol = "UNKNOWN" THEN [x EXCEPT !.ip = "", !.port = 0]
  ELSE [x EXCEPT !.ip = x.native.address, !.port = Swapped(x.native.sa_port),
                 !.has_addr = TRUE]

(* A dot is looked for first.                                              *)
FamilyOf(ip) == IF HasDot(ip) THEN "AF_INET" ELSE "AF_INET6"

(* Slip: the former protocol is not forgotten when the text does not parse.*)
TranslateKeepsProtocol(x) ==
  IF (HasDot(x.ip) \/ HasColon(x.ip)) /\ Parses(FamilyOf(x.ip), x.ip)
  THEN [x EXCEPT !.native = Native(FamilyOf(x.ip), x.ip, x.port),
                 !.protocol = Protocol(FamilyOf(x.ip)),
                 !.size = Size(Protocol(FamilyOf(x.ip))), !.has_native = TRUE]
  ELSE [x EXCEPT !.native = NoNative]

TranslateAddressToNativeAddress(x) ==
  IF (HasDot(x.ip) \/ HasColon(x.ip)) /\ Parses(FamilyOf(x.ip), x.ip)
  THEN [x EXCEPT !.native = Native(FamilyOf(x.ip), x.ip, x.port),
                 !.protocol = Protocol(FamilyOf(x.ip)),
                 !.size = Size(Protocol(FamilyOf(x.ip))), !.has_native = TRUE]
  ELSE [x EXCEPT !.native = NoNative, !.protocol = "UNKNOWN", !.size = 0]

(* The two tests every getter begins with.                                 *)
WithText(x) == IF ~x.has_addr /\ x.has_native
               THEN TranslateNativeAddressToAddress(x) ELSE x
WithNative(x) == IF ~x.has_native /\ x.has_addr
                 THEN TranslateAddressToNativeAddress(x) ELSE x

-----------------------------------------------------------------------------
(* getIp and getPort return these of the object they leave behind.         *)
GetText(o) ==
  /\ obj' = [obj EXCEPT ![o] = WithText(@)]
  /\ UNCHANGED given

(* getProtocol, getNativeAddress and getNativeAddressSize.                 *)
GetNative(o) ==
  /\ obj' = [obj EXCEPT ![o] = WithNative(@)]
  /\ UNCHANGED given

SetAddress(o, ip, port) ==
  /\ obj' = [obj EXCEPT ![o].ip = ip, ![o].port = port,
                        ![o].has_addr = TRUE, ![o].has_native = FALSE]
  /\ given' = [given EXCEPT ![o] = [as |-> "text", ip |-> ip, port |-> port]]

(* Slip: the text that was there is still taken for valid.                 *)
SetNativeKeepsText(o, n) ==
  /\ IF Protocol(n.sa_family) = "UNKNOWN" THEN UNCHANGED vars
     ELSE /\ obj' = [obj EXCEPT ![o].protocol = Protocol(n.sa_family),
                                ![o].size = Size(Protocol(n.sa_family)),
                                ![o].native = n, ![o].has_native = TRUE]
          /\ given' = [given EXCEPT ![o] = [as |-> "native", native |-> n]]

(* Another family is refused and changes nothing.                          *)
SetNativeAddress(o, n) ==
  /\ IF Protocol(n.sa_family) = "UNKNOWN" THEN UNCHANGED vars
     ELSE /\ obj' = [obj EXCEPT ![o].protocol = Protocol(n.sa_family),
                                ![o].size = Size(Protocol(n.sa_family)),
                                ![o].native = n, ![o].has_addr = FALSE,
                                ![o].has_native = TRUE]
          /\ given' = [given EXCEPT ![o] = [as |-> "native", native |-> n]]

(* The copy constructor and the assignment.                                *)
Assign(o, from) ==
  /\ o # from
  /\ obj' = [obj EXCEPT ![o] = obj[from]]
  /\ given' = [given EXCEPT ![o] = given[from]]

Next == \E o \in Objects :
  \/ GetText(o) \/ GetNative(o)
  \/ \E ip \in Texts, port \in Ports : SetAddress(o, ip, port)
  \/ \E n \in Natives : SetNativeAddress(o, n)
  \/ \E from \in Objects : Assign(o, from)

Spec == Init /\ [][Next]_vars

-----------------------------------------------------------------------------
(* getIp and getPort say what the object was last given, in whichever form *)
(* and whatever was asked of it, or of the object it is a copy of, before. *)
TextIsCurrent ==
  \A o \in Objects :
    LET x == WithText(obj[o])
        g == given[o]
    IN  CASE g.as = "text" -> x.ip = g.ip /\ x.port = g.port
          [] g.as = "native" -> x.ip = g.native.address
                                /\ x.port = Swapped(g.native.sa_port)
          [] OTHER -> x.ip = "" /\ x.port = 0

(* The structure handed to connect and bind is the one of the present      *)
(* address, its size fits its family, and there is none if the text is not *)
(* an address the code understands (a name, and also an IPv4-mapped one):  *)
(* never the structure of an earlier address.                              *)
NativeIsCurrent ==
  \A o \in Objects :
    LET x == WithNative(obj[o])
        g == given[o]
        none == x.protocol = "UNKNOWN" /\ x.size = 0
    IN  CASE g.as = "native" -> x.native = g.native /\ x.size = Size(x.protocol)
          [] g.as = "text" /\ g.ip \in {"v4", "v6"} ->
               /\ x.native.address = g.ip /\ Swapped(x.native.sa_port) = g.port
               /\ x.protocol = Protocol(x.native.sa_family)
               /\ x.size = Size(x.protocol)
          [] OTHER -> none
=============================================================================
