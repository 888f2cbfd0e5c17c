------------------------- MODULE PacketParserProofs -------------------------
(***************************************************************************)
(* The frame parser for frames of every length and with every value of the *)
(* header fields.                                                          *)
(***************************************************************************)
EXTENDS PacketParser, TLAPS

\* The fields of a frame that enter the arithmetic.
LEMMA FrameFields ==
    ASSUME NEW f \in Frames
    PROVE  /\ f.len \in Nat
           /\ f.ihl \in 0..15
           /\ f.data_off \in 0..15
           /\ f.link \in LinkTypes
  BY FrameAssumption DEF Frames

\* Where the headers begin and how long they are.
LEMMA Offsets ==
    ASSUME NEW f \in Frames
    PROVE  /\ IpOffset(f) \in {0, 4, 14, 18}
           /\ f.link = "Ethernet" => IpOffset(f) >= 14
           /\ IpHeader(f) \in Nat
           /\ IpOk(f) => /\ IpHeader(f) >= 20
                         /\ f.version # 4 => IpHeader(f) = 40
                         /\ IpOffset(f) + IpHeader(f) <= f.len
           /\ IpOk(f) /\ f.version = 4 => IpOffset(f) + 20 <= f.len
           /\ TlOffset(f) = IpOffset(f) + IpHeader(f)
           /\ TlLen(f) = f.len - TlOffset(f)
  <1>1. IpOffset(f) \in {0, 4, 14, 18} /\ (f.link = "Ethernet" => IpOffset(f) >= 14)
    BY FrameFields DEF IpOffset, LinkTypes
  <1>2. IpHeader(f) \in Nat
    BY FrameFields DEF IpHeader
  <1>3. IpOk(f) => /\ IpHeader(f) >= 20
                   /\ f.version # 4 => IpHeader(f) = 40
                   /\ IpOffset(f) + IpHeader(f) <= f.len
    BY <1>1, <1>2, FrameFields DEF IpOk, IpLen, IpHeader
  <1>4. IpOk(f) /\ f.version = 4 => IpOffset(f) + 20 <= f.len
    BY <1>1, <1>2, <1>3, FrameFields
  <1> QED BY <1>1, <1>2, <1>3, <1>4 DEF TlOffset, TlLen

\* The Ethernet header and the tag (capture.rs:131-149).
LEMMA LinkReadsInside ==
    ASSUME NEW f \in Frames
    PROVE  LinkReads(f) \subseteq 0..(f.len - 1)
  BY FrameFields DEF LinkReads, HasTag

\* The IP header (capture.rs:160-161, 176-191, 252-262).
LEMMA IpReadsInside ==
    ASSUME NEW f \in Frames
    PROVE  IpReads(f) \subseteq 0..(f.len - 1)
  <1>1. HasIp(f) => IpOffset(f) \in 0..(f.len - 1)
    BY Offsets, FrameFields DEF HasIp
  <1>2. ASSUME IpOk(f), NEW i \in IF f.version = 4 THEN 0..19 ELSE 0..39
        PROVE  IpOffset(f) + i \in 0..(f.len - 1)
    BY <1>2, Offsets, FrameFields
  <1> QED BY <1>1, <1>2 DEF IpReads

\* The transport header (capture.rs:193-226, 263-295).
LEMMA TlReadsInside ==
    ASSUME NEW f \in Frames
    PROVE  TlReads(f) \subseteq 0..(f.len - 1)
  <1>1. ASSUME IpOk(f),
               NEW i \in IF IsTcp(f) THEN 0..3 \cup {12, 13}
                         ELSE IF IsUdp(f) THEN 0..3
                         ELSE IF IsIcmp(f) THEN 0..1 ELSE {}
        PROVE  TlOffset(f) + i \in 0..(f.len - 1)
    BY <1>1, Offsets, FrameFields DEF IsTcp, IsUdp, IsIcmp
  <1> QED BY <1>1 DEF TlReads

\* What is cut off behind the offset (ids/mod.rs:183, 196-199).
LEMMA PayloadInside ==
    ASSUME NEW f \in Frames, IpOk(f)
    PROVE  /\ PayloadOffset(f) \in Nat /\ PayloadOffset(f) >= TlOffset(f)
           /\ IsUdp(f) => PayloadOffset(f) = TlOffset(f) + 8
           /\ TlOffset(f) \in Nat
  BY Offsets, FrameFields DEF PayloadOffset, IsTcp, IsUdp, IsIcmp

\* What the parser has done with a frame, if it has.
FrameInv ==
    /\ frame \in Frames
    /\ meta = NoMeta \/ meta = parse_transport(frame)
    /\ ReadsAreInside

\* The invariant of a capture thread that parses frames.
THEOREM FrameInvariance == FrameSpec => []FrameInv
  <1>1. FrameInit => FrameInv
    BY DEF FrameInit, FrameInv, ReadsAreInside
  <1>2. FrameInv /\ [FrameNext]_frameVars => FrameInv'
    <2> SUFFICES ASSUME FrameInv, [FrameNext]_frameVars PROVE FrameInv'
      OBVIOUS
    <2>1. CASE ParseFrame
      BY <2>1, LinkReadsInside, IpReadsInside, TlReadsInside
         DEF ParseFrame, FrameInv, ReadsAreInside
    <2>2. CASE UNCHANGED frameVars
      BY <2>2 DEF frameVars, FrameInv, ReadsAreInside
    <2> QED BY <2>1, <2>2 DEF FrameNext
  <1> QED BY <1>1, <1>2, PTL DEF FrameSpec

\* No header field makes the parser read outside the captured bytes, for
\* frames of every length.
THEOREM ParserStaysInside == FrameSpec => []ReadsAreInside
  <1>1. FrameInv => ReadsAreInside
    BY DEF FrameInv
  <1> QED BY <1>1, FrameInvariance, PTL

\* What is scanned and what is taken for DNS lies behind the headers and
\* inside the frame.
THEOREM PayloadStaysInside == FrameSpec => []PayloadIsBehindHeaders
  <1>1. FrameInv => PayloadIsBehindHeaders
    <2> SUFFICES ASSUME FrameInv, Scanned(frame, meta)
                 PROVE  /\ meta.payload_offset \in TlOffset(frame)..(frame.len - 1)
                        /\ TakenForDns(frame, meta) =>
                              /\ meta.payload_offset = TlOffset(frame) + 8
                              /\ TlLen(frame) > 8
      BY DEF PayloadIsBehindHeaders, TakenForDns
    <2>1. IpOk(frame)
          /\ meta = [parsed |-> TRUE, ports |-> IsTcp(frame) \/ IsUdp(frame),
                     payload_offset |-> PayloadOffset(frame)]
      BY DEF FrameInv, Scanned, NoMeta, parse_transport
    <2>2. frame \in Frames /\ PayloadOffset(frame) < frame.len
      BY <2>1 DEF FrameInv, Scanned
    <2>3. meta.payload_offset \in TlOffset(frame)..(frame.len - 1)
      BY <2>1, <2>2, PayloadInside, FrameFields
    <2>4. ASSUME TakenForDns(frame, meta)
          PROVE  meta.payload_offset = TlOffset(frame) + 8 /\ TlLen(frame) > 8
      <3>1. meta.ports /\ frame.proto = 17
        BY <2>4 DEF TakenForDns
      <3>2. meta.ports = (IsTcp(frame) \/ IsUdp(frame))
        BY <2>1, Zenon
      <3>3. ~IsTcp(frame)
        BY <3>1 DEF IsTcp
      <3>4. IsUdp(frame)
        BY <3>1, <3>2, <3>3, Zenon
      <3> QED BY <2>1, <2>2, <3>4, PayloadInside, FrameFields DEF TlLen
    <2> QED BY <2>3, <2>4
  <1> QED BY <1>1, FrameInvariance, PTL
=============================================================================
