---------------------------- MODULE PacketParser ----------------------------
(***************************************************************************)
(* parse_packet and its helpers: how far each check allows the parser to   *)
(* read into a frame, and which frames become flow records.                *)
(*                                                                         *)
(* A frame is the number of its captured bytes and the header fields that  *)
(* steer the parser; addresses and ports are read but not interpreted.     *)
(* Each step is a check of the code together with the reads it protects.   *)
(* The module has no bounds: PacketParserProofs proves its properties for  *)
(* frames of every length and every header.                                *)
(***************************************************************************)
EXTENDS Integers

ETHERNET_HEADER_LEN == 14
VLAN_ETHERNET_HEADER_LEN == 18
IPV4_MIN_HEADER_LEN == 20
IPV6_HEADER_LEN == 40
PORTS_LEN == 4

\* tags is the number of VLAN tags, ip the type after the last one, version
\* and words the first byte of the IP header, transport whether its protocol
\* field says TCP or UDP.  The code looks at nothing else: not at the
\* fragment offset of IPv4, nor past the first next-header field of IPv6.
Frames ==
    [len : Nat, tags : 0 .. 2, ip : {"ipv4", "ipv6", "other"}, version : {0, 4, 6},
     words : 0 .. 15, transport : BOOLEAN]

VARIABLES
    pc,          \* the check that comes next
    frame,       \* the packet that next_packet returned
    l3_offset,
    l4_offset,
    touched      \* bytes of the frame up to the last one that was read

vars == <<pc, frame, l3_offset, l4_offset, touched>>

NoFrame == [len |-> 0]

TypeOK ==
    /\ pc \in {"idle", "ethernet", "vlan", "type", "ipv4", "ihl", "ipv6", "ports", "protocol",
               "record", "skipped"}
    /\ frame = NoFrame \/ frame \in Frames
    /\ (frame = NoFrame) = (pc = "idle")
    /\ l3_offset \in {0, ETHERNET_HEADER_LEN, VLAN_ETHERNET_HEADER_LEN}
    /\ l4_offset \in Nat
    /\ touched \in Nat

Init ==
    /\ pc = "idle"
    /\ frame = NoFrame
    /\ l3_offset = 0
    /\ l4_offset = 0
    /\ touched = 0

\* The check fails: the frame is not recorded.
Skip == pc' = "skipped" /\ UNCHANGED <<frame, l3_offset, l4_offset, touched>>

\* Bytes up to n are read.
Touch(n) == touched' = IF n > touched THEN n ELSE touched

NextPacket ==
    /\ pc = "idle"
    /\ frame' \in Frames
    /\ pc' = "ethernet"
    /\ UNCHANGED <<l3_offset, l4_offset, touched>>

\* parse_packet returns to the loop.
Return ==
    /\ pc \in {"record", "skipped"}
    /\ pc' = "idle"
    /\ frame' = NoFrame
    /\ l3_offset' = 0
    /\ l4_offset' = 0
    /\ touched' = 0

-----------------------------------------------------------------------------
(* parse_packet.                                                           *)

\* Ether type of a frame without a tag, or tag.
ParseEthernet ==
    /\ pc = "ethernet"
    /\ IF frame.len < ETHERNET_HEADER_LEN
       THEN Skip
       ELSE /\ Touch(ETHERNET_HEADER_LEN)
            /\ l3_offset' = ETHERNET_HEADER_LEN
            /\ pc' = IF frame.tags > 0 THEN "vlan" ELSE "type"
            /\ UNCHANGED <<frame, l4_offset>>

\* One tag is stepped over, be it 802.1Q or 802.1ad.
ParseVlan ==
    /\ pc = "vlan"
    /\ IF frame.len < VLAN_ETHERNET_HEADER_LEN
       THEN Skip
       ELSE /\ Touch(VLAN_ETHERNET_HEADER_LEN)
            /\ l3_offset' = VLAN_ETHERNET_HEADER_LEN
            /\ pc' = "type"
            /\ UNCHANGED <<frame, l4_offset>>

\* The match on current_ether_type: a second tag is no IP type.
MatchType ==
    /\ pc = "type"
    /\ IF frame.tags > 1 \/ frame.ip = "other"
       THEN Skip
       ELSE /\ pc' = frame.ip
            /\ UNCHANGED <<frame, l3_offset, l4_offset, touched>>

-----------------------------------------------------------------------------
(* parse_ipv4 and parse_ipv6.                                              *)

ParseIpv4 ==
    /\ pc = "ipv4"
    /\ IF frame.len < l3_offset + IPV4_MIN_HEADER_LEN
       THEN Skip
       ELSE /\ Touch(l3_offset + 1)
            /\ pc' = IF frame.version = 4 THEN "ihl" ELSE "skipped"
            /\ UNCHANGED <<frame, l3_offset, l4_offset>>

ihl == frame.words * 4

\* The addresses are read once the header is known to be whole.
ParseIhl ==
    /\ pc = "ihl"
    /\ IF ihl < IPV4_MIN_HEADER_LEN \/ frame.len < l3_offset + ihl
       THEN Skip
       ELSE /\ Touch(l3_offset + IPV4_MIN_HEADER_LEN)
            /\ l4_offset' = l3_offset + ihl
            /\ pc' = "ports"
            /\ UNCHANGED <<frame, l3_offset>>

\* Version, next header and, with read_ipv6_address, both addresses.
ParseIpv6 ==
    /\ pc = "ipv6"
    /\ IF frame.len < l3_offset + IPV6_HEADER_LEN
       THEN Skip
       ELSE IF frame.version # 6
            THEN /\ Touch(l3_offset + 1)
                 /\ pc' = "skipped"
                 /\ UNCHANGED <<frame, l3_offset, l4_offset>>
            ELSE /\ Touch(l3_offset + 24 + 16)
                 /\ l4_offset' = l3_offset + IPV6_HEADER_LEN
                 /\ pc' = "ports"
                 /\ UNCHANGED <<frame, l3_offset>>

\* The ports are read before the protocol is looked at.
ParsePorts ==
    /\ pc = "ports"
    /\ IF frame.len < l4_offset + PORTS_LEN
       THEN Skip
       ELSE /\ Touch(l4_offset + PORTS_LEN)
            /\ pc' = "protocol"
            /\ UNCHANGED <<frame, l3_offset, l4_offset>>

\* protocol_from_num: only TCP and UDP are recorded.
MatchProtocol ==
    /\ pc = "protocol"
    /\ IF frame.transport
       THEN pc' = "record" /\ UNCHANGED <<frame, l3_offset, l4_offset, touched>>
       ELSE Skip

-----------------------------------------------------------------------------
Next ==
    \/ NextPacket \/ Return
    \/ ParseEthernet \/ ParseVlan \/ MatchType
    \/ ParseIpv4 \/ ParseIhl \/ ParseIpv6 \/ ParsePorts \/ MatchProtocol

Spec == Init /\ [][Next]_vars

-----------------------------------------------------------------------------
(* Properties.                                                             *)

\* The parser never reads past the captured bytes, whatever the headers say:
\* an index out of bounds would end the capture thread without a report
\* (parse_packet, parse_ipv4, parse_ipv6).
ReadsInBounds == touched <= frame.len

\* The headers that lie before the ports, as the frame itself has them.
HeadersOf(f) ==
    ETHERNET_HEADER_LEN + 4 * f.tags + (IF f.ip = "ipv4" THEN 4 * f.words ELSE IPV6_HEADER_LEN)

\* An IP header of the version that the Ethernet header announces.
Consistent(f) ==
    \/ f.ip = "ipv4" /\ f.version = 4 /\ 4 * f.words >= IPV4_MIN_HEADER_LEN
    \/ f.ip = "ipv6" /\ f.version = 6

\* At most one tag, a consistent IP header that says TCP or UDP, and bytes up
\* to the ports.
WellFormed(f) ==
    /\ f.tags <= 1
    /\ Consistent(f)
    /\ f.transport
    /\ f.len >= HeadersOf(f) + PORTS_LEN

\* A frame becomes a record exactly when it is well formed, and then its ports
\* are taken from where its headers end, options included: no check skips a
\* frame that it should not (parse_packet).
RecordsWellFormed ==
    /\ pc = "record" => WellFormed(frame) /\ l4_offset = HeadersOf(frame)
    /\ pc = "skipped" => ~WellFormed(frame)

=============================================================================
