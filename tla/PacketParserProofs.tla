------------------------ MODULE PacketParserProofs ------------------------
(***************************************************************************)
(* Proofs about PacketParser, for frames of every length.                  *)
(***************************************************************************)
EXTENDS PacketParser, TLAPS

\* What the checks passed so far have established about the frame.
Known ==
    /\ pc \in {"vlan", "type", "ipv4", "ihl", "ipv6", "ports", "protocol"} =>
        frame.len >= ETHERNET_HEADER_LEN
    /\ pc = "vlan" => frame.tags > 0
    /\ pc = "type" => l3_offset = ETHERNET_HEADER_LEN + (IF frame.tags > 0 THEN 4 ELSE 0)
    /\ pc \in {"ipv4", "ihl", "ipv6"} =>
        frame.tags <= 1 /\ l3_offset = ETHERNET_HEADER_LEN + 4 * frame.tags
    /\ pc = "ipv4" => frame.ip = "ipv4"
    /\ pc = "ihl" => /\ frame.ip = "ipv4"
                     /\ frame.version = 4
                     /\ frame.len >= l3_offset + IPV4_MIN_HEADER_LEN
    /\ pc = "ipv6" => frame.ip = "ipv6"
    /\ pc \in {"ports", "protocol"} =>
        frame.tags <= 1 /\ Consistent(frame) /\ l4_offset = HeadersOf(frame)
    /\ pc = "protocol" => frame.len >= l4_offset + PORTS_LEN

\* The inductive invariant.
IInv == TypeOK /\ ReadsInBounds /\ Known /\ RecordsWellFormed

USE DEF ETHERNET_HEADER_LEN, VLAN_ETHERNET_HEADER_LEN, IPV4_MIN_HEADER_LEN, IPV6_HEADER_LEN,
        PORTS_LEN

LEMMA InitInv == Init => IInv
BY DEF Init, IInv, TypeOK, ReadsInBounds, Known, RecordsWellFormed, NoFrame

LEMMA NextInv == IInv /\ [Next]_vars => IInv'
<1> SUFFICES ASSUME IInv, [Next]_vars PROVE IInv'
  OBVIOUS
<1> USE DEF IInv, TypeOK, ReadsInBounds, Known, RecordsWellFormed
<1>1. CASE NextPacket
  BY <1>1 DEF NextPacket, Frames, NoFrame
<1>2. CASE Return
  BY <1>2 DEF Return, NoFrame
<1> DEFINE Parsing == pc \notin {"idle", "record", "skipped"}
<1>3. ASSUME Parsing PROVE /\ frame \in Frames
                           /\ frame.len \in Nat
                           /\ frame.tags \in 0 .. 2
                           /\ frame.words \in 0 .. 15
  BY <1>3 DEF Frames, NoFrame
<1>4. CASE ParseEthernet
  BY <1>3, <1>4 DEF ParseEthernet, Skip, Touch, WellFormed, HeadersOf, Consistent
<1>5. CASE ParseVlan
  BY <1>3, <1>5 DEF ParseVlan, Skip, Touch, WellFormed, HeadersOf, Consistent
<1>6. CASE MatchType
  BY <1>3, <1>6 DEF MatchType, Skip, WellFormed, Consistent, Frames
<1>7. CASE ParseIpv4
  BY <1>3, <1>7 DEF ParseIpv4, Skip, Touch, WellFormed, HeadersOf, Consistent
<1>8. CASE ParseIhl
  BY <1>3, <1>8 DEF ParseIhl, Skip, Touch, WellFormed, HeadersOf, Consistent, ihl
<1>9. CASE ParseIpv6
  BY <1>3, <1>9 DEF ParseIpv6, Skip, Touch, WellFormed, HeadersOf, Consistent
<1>10. CASE ParsePorts
  BY <1>3, <1>10 DEF ParsePorts, Skip, Touch, WellFormed, HeadersOf, Consistent
<1>11. CASE MatchProtocol
  BY <1>3, <1>11 DEF MatchProtocol, Skip, WellFormed
<1>12. CASE UNCHANGED vars
  BY <1>12 DEF vars
<1> QED
  BY <1>1, <1>2, <1>4, <1>5, <1>6, <1>7, <1>8, <1>9, <1>10, <1>11, <1>12 DEF Next

LEMMA Invariance == Spec => []IInv
BY InitInv, NextInv, PTL DEF Spec

\* Every reachable state of the parser is well typed.
THEOREM ParserTypeCorrect == Spec => []TypeOK
BY Invariance, PTL DEF IInv

\* The parser never reads past the captured bytes, for a frame of any length
\* and whatever its headers say (the length checks of parse_packet, parse_ipv4
\* and parse_ipv6).
THEOREM ParserInBounds == Spec => []ReadsInBounds
BY Invariance, PTL DEF IInv

\* A frame becomes a record exactly when it is well formed, with the ports
\* taken from where its headers end (parse_packet).
THEOREM ParserExact == Spec => []RecordsWellFormed
BY Invariance, PTL DEF IInv

=============================================================================
