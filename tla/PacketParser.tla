---------------------------- MODULE PacketParser ----------------------------
(***************************************************************************)
(* The frame parser of the capture thread (parse_transport, parse_ipv4 and *)
(* parse_ipv6 in src/capture.rs) and the places where analyze cuts the     *)
(* captured bytes at the offset it returns (src/ids/mod.rs).  A frame is   *)
(* its captured length and the header fields that decide where the parser  *)
(* looks next; all of them come from the wire and may have any value.      *)
(***************************************************************************)
EXTENDS Integers

CONSTANTS Lengths, EtherTypes, Versions, Ihls, Protocols, DataOffsets, Ports

ASSUME FrameAssumption ==
    /\ Lengths \subseteq Nat
    /\ Ihls \subseteq 0..15
    /\ DataOffsets \subseteq 0..15

LinkTypes == {"Ethernet", "Loopback", "RawIp", "Unknown"}

\* `tagged` is the type behind an 802.1Q tag, `port` the one that decides
\* whether the payload is taken for DNS.
Frames == [link: LinkTypes, len: Lengths, etype: EtherTypes, tagged: EtherTypes,
           version: Versions, ihl: Ihls, proto: Protocols, data_off: DataOffsets,
           port: Ports]

ETH_IPV4 == 2048
ETH_IPV6 == 34525
ETH_VLAN == 33024
-----------------------------------------------------------------------------
\* Layer 2: where the IP header begins, if the parser gets there.
\* Mutant: the tag is taken to be there.
HasTagUnchecked(f) == f.etype = ETH_VLAN
HasTag(f) == f.etype = ETH_VLAN /\ f.len > 18

IpOffset(f) ==
    CASE f.link = "Ethernet" -> IF HasTag(f) THEN 18 ELSE 14
      [] f.link = "Loopback" -> 4
      [] OTHER -> 0

LinkOk(f) ==
    \/ /\ f.link = "Ethernet" /\ f.len >= 14
       /\ (IF HasTag(f) THEN f.tagged ELSE f.etype) \in {ETH_IPV4, ETH_IPV6}
    \/ f.link \in {"Loopback", "RawIp"}

\* data.get(ip_offset..) and ip.first()
HasIp(f) == LinkOk(f) /\ f.len > IpOffset(f)
IpLen(f) == f.len - IpOffset(f)

\* Layer 3: the length of a header that the parser accepts.
IpHeader(f) == IF f.version = 4 THEN 4 * f.ihl ELSE 40

IpOk(f) ==
    /\ HasIp(f)
    /\ \/ f.version = 4 /\ IpLen(f) >= 20 /\ IpHeader(f) >= 20 /\ IpLen(f) >= IpHeader(f)
       \/ f.version = 6 /\ IpLen(f) >= 40

\* Layer 4: what is behind the IP header is long enough for its protocol.
TlOffset(f) == IpOffset(f) + IpHeader(f)
TlLen(f) == f.len - TlOffset(f)
ICMP(f) == IF f.version = 4 THEN 1 ELSE 58

IsTcp(f) == f.proto = 6 /\ TlLen(f) >= 20
IsUdp(f) == f.proto = 17 /\ TlLen(f) >= 8
IsIcmp(f) == f.proto = ICMP(f) /\ TlLen(f) >= 4

\* Mutant: the offset counts from the IP header.
PayloadOffsetFromIp(f) ==
    IpOffset(f) + (IF IsTcp(f) THEN 4 * f.data_off ELSE IF IsUdp(f) \/ IsIcmp(f) THEN 8 ELSE 0)
PayloadOffset(f) ==
    TlOffset(f) + (IF IsTcp(f) THEN 4 * f.data_off ELSE IF IsUdp(f) \/ IsIcmp(f) THEN 8 ELSE 0)

\* The bytes that are read, by index.
LinkReads(f) ==
    IF f.link = "Ethernet" /\ f.len >= 14
    THEN 6..13 \cup (IF HasTag(f) THEN 14..17 ELSE {}) ELSE {}
IpReads(f) ==
    (IF HasIp(f) THEN {IpOffset(f)} ELSE {})
    \cup (IF IpOk(f) THEN {IpOffset(f) + i : i \in IF f.version = 4 THEN 0..19 ELSE 0..39}
          ELSE {})
TlReads(f) ==
    IF ~IpOk(f) THEN {}
    ELSE {TlOffset(f) + i : i \in IF IsTcp(f) THEN 0..3 \cup {12, 13}
                                  ELSE IF IsUdp(f) THEN 0..3
                                  ELSE IF IsIcmp(f) THEN 0..1 ELSE {}}

NoMeta == [parsed |-> FALSE, ports |-> FALSE, payload_offset |-> 0]

\* What TransportMeta says of the layout.
parse_transport(f) ==
    IF ~IpOk(f) THEN NoMeta
    ELSE [parsed |-> TRUE, ports |-> IsTcp(f) \/ IsUdp(f), payload_offset |-> PayloadOffset(f)]

\* The guards of analyze in front of &pkt.data[tm.payload_offset..].
Scanned(f, m) == m.parsed /\ m.payload_offset > 0 /\ m.payload_offset < f.len
TakenForDns(f, m) == Scanned(f, m) /\ f.proto = 17 /\ m.ports /\ f.port = 53
-----------------------------------------------------------------------------
VARIABLES
    frame,
    reads,      \* the indices of the bytes that were looked at
    meta        \* the layout in TransportMeta

frameVars == <<frame, reads, meta>>

FrameInit == frame \in Frames /\ reads = {} /\ meta = NoMeta

\* The capture thread parses a frame.
ParseFrame ==
    /\ reads' = LinkReads(frame) \cup IpReads(frame) \cup TlReads(frame)
    /\ meta' = parse_transport(frame)
    /\ UNCHANGED frame

FrameNext == ParseFrame

FrameSpec == FrameInit /\ [][FrameNext]_frameVars

(***************************************************************************)
(* No header field makes the parser read behind the captured bytes, which  *)
(* would end the capture thread with a panic (capture.rs:131-160, 176-217, *)
(* 252-286).                                                               *)
(***************************************************************************)
ReadsAreInside == reads \subseteq 0..(frame.len - 1)

(***************************************************************************)
(* The bytes given to the payload scanner and to the DNS walk begin behind *)
(* the IP header and are never none, and a DNS walk begins right behind a  *)
(* whole UDP header (capture.rs:196-226, ids/mod.rs:183, 196-199).         *)
(***************************************************************************)
PayloadIsBehindHeaders ==
    /\ Scanned(frame, meta) => meta.payload_offset \in TlOffset(frame)..(frame.len - 1)
    /\ TakenForDns(frame, meta) =>
          meta.payload_offset = TlOffset(frame) + 8 /\ TlLen(frame) > 8
=============================================================================
