--------------------------- MODULE PacketParsing ---------------------------
(***************************************************************************)
(* src/PacketParsing: bursts are received, and each packet is parsed by    *)
(* packet_parsing, which walks over its headers, and freed.  __parser of   *)
(* src/ThreadedParsing/parser.c is the same code.  A packet is what its    *)
(* headers say and how many bytes there are; positions are relative to the *)
(* start of its data.  Nothing compares the two: a packet cut short is     *)
(* read past its end.                                                      *)
(***************************************************************************)
EXTENDS Naturals

CONSTANTS Burst,        \* BURST_SIZE
          DataRoom,     \* bytes of an mbuf's data room
          Lengths       \* bound: data lengths of packets

Wrap16 == 65536         \* the lengths are of type uint16_t
UInt16 == 0..(Wrap16 - 1)
\* An mbuf has room for the longest headers, 14 + 60 + 4 bytes.
SizeAssumption == Burst \in Nat /\ DataRoom \in Nat /\ DataRoom >= 78 /\ Lengths \subseteq UInt16
EtherLen == 14          \* sizeof(struct rte_ether_hdr)
Ipv4Len == 20           \* sizeof(struct rte_ipv4_hdr)
Ipv6Len == 40           \* sizeof(struct rte_ipv6_hdr)
PortsLen == 4           \* src_port and dst_port, first in TCP and UDP

\* ether_type; ihl of IPv4; next_proto_id or proto; bytes; a fragment that is
\* not the first.
Frames == [type : {"ip4", "ip6", "other"}, ihl : 0..15, proto : {"tcp", "udp", "icmp", "none"},
           len : Lengths, later : BOOLEAN]
NoFrame == [type |-> "none"]

VARIABLES pc,           \* "poll", "next", "ether", "ip4", "ip6", "ports", "free"
          left,         \* packets of the burst not yet freed
          frame,        \* the packet being parsed
          data, len,    \* the locals of packet_parsing
          read,         \* history: end of the farthest read
          shown         \* history: where the ports shown were read, or 0

vars == <<pc, left, frame, data, len, read, shown>>

Init ==
    /\ pc = "poll" /\ left = 0
    /\ frame = NoFrame
    /\ data = 0 /\ len = 0 /\ read = 0 /\ shown = 0

Reads(n) == read' = IF data + n > read THEN data + n ELSE read

RxBurst ==                              \* rte_eth_rx_burst
    /\ pc = "poll"
    /\ left' \in 1..Burst
    /\ pc' = "next"
    /\ UNCHANGED <<frame, data, len, read, shown>>

NextPacket ==                           \* packet_parsing(buff[i])
    /\ pc = "next"
    /\ frame' \in Frames
    /\ data' = 0 /\ read' = 0 /\ shown' = 0
    /\ len' = frame'.len
    /\ pc' = "ether"
    /\ UNCHANGED left

\* Mutant: every frame is taken for a tagged one.
EtherTagged ==
    /\ pc = "ether"
    /\ Reads(EtherLen)
    /\ data' = data + EtherLen + 4
    /\ pc' = CASE frame.type = "ip4" -> "ip4" [] frame.type = "ip6" -> "ip6" [] OTHER -> "free"
    /\ UNCHANGED <<left, frame, len, shown>>
Ether ==
    /\ pc = "ether"
    /\ Reads(EtherLen)
    /\ data' = data + EtherLen
    /\ pc' = CASE frame.type = "ip4" -> "ip4" [] frame.type = "ip6" -> "ip6" [] OTHER -> "free"
    /\ UNCHANGED <<left, frame, len, shown>>

AfterHeader == IF frame.proto \in {"tcp", "udp"} THEN "ports" ELSE "free"

\* Mutant: ihl is taken for bytes.
IhlUnscaled == frame.ihl
Ihl == frame.ihl * 4

Ip4 ==
    /\ pc = "ip4"
    /\ Reads(Ipv4Len)
    /\ data' = data + Ihl
    /\ len' = (len + Wrap16 - Ihl) % Wrap16
    /\ pc' = AfterHeader
    /\ UNCHANGED <<left, frame, shown>>

Ip6 ==
    /\ pc = "ip6"
    /\ Reads(Ipv6Len)
    /\ data' = data + Ipv6Len
    /\ len' = (len + Wrap16 - Ipv6Len) % Wrap16
    /\ pc' = AfterHeader
    /\ UNCHANGED <<left, frame, shown>>

ShowPorts ==                            \* TCP or UDP
    /\ pc = "ports"
    /\ Reads(PortsLen)
    /\ shown' = data
    /\ pc' = "free"
    /\ UNCHANGED <<left, frame, data, len>>

Free ==                                 \* rte_pktmbuf_free(buff[i])
    /\ pc = "free"
    /\ left' = left - 1
    /\ pc' = IF left = 1 THEN "poll" ELSE "next"
    /\ frame' = NoFrame
    /\ data' = 0 /\ len' = 0 /\ read' = 0 /\ shown' = 0

Next == RxBurst \/ NextPacket \/ Ether \/ Ip4 \/ Ip6 \/ ShowPorts \/ Free

Spec == Init /\ [][Next]_vars

-----------------------------------------------------------------------------
\* The types of the variables.
TypeOK ==
    /\ pc \in {"poll", "next", "ether", "ip4", "ip6", "ports", "free"}
    /\ left \in 0..Burst
    /\ frame \in Frames \cup {NoFrame}
    /\ data \in UInt16 /\ len \in UInt16
    /\ read \in 0..DataRoom /\ shown \in 0..DataRoom

\* Where the headers are by the standards, from the first byte on.
NetworkLen(f) == CASE f.type = "ip4" -> 4 * f.ihl [] f.type = "ip6" -> 40 [] OTHER -> 0
TransportAt(f) == 14 + NetworkLen(f)
\* What a sender means by a packet: all headers are there.
Complete(f) ==
    /\ f.type = "ip4" => f.ihl >= 5
    /\ f.len >= TransportAt(f) + (IF f.proto \in {"tcp", "udp"} /\ f.type # "other" THEN 4 ELSE 0)

\* Ethernet, IPv4 with all the options there can be, and two ports.
LongestHeaders == EtherLen + 15 * 4 + PortsLen

\* packet_parsing (packet_parsing.c:39-87, 127-149) never compares its position
\* with the packet's length.  A packet cut short is read on into the bytes of an
\* earlier one, and those say what comes next and how long a header is; whatever
\* they say, the walk ends with the longest headers, for which every data room
\* is large enough.  A complete packet, options or not, is not read past its end.
ReadsInsidePacket ==
    /\ TypeOK
    /\ read <= LongestHeaders
    /\ (frame # NoFrame /\ Complete(frame)) => read <= frame.len

\* The ports it prints are those of the transport header (packet_parsing.c:64,
\* 127) of every complete packet that has one; a later fragment has none.
PortsOfTransport ==
    (pc = "free" /\ Complete(frame) /\ ~frame.later) =>
      shown = IF frame.type # "other" /\ frame.proto \in {"tcp", "udp"} THEN TransportAt(frame) ELSE 0
=============================================================================
