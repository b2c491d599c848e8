--------------------------------- MODULE Bss ---------------------------------
(***************************************************************************)
(* What get_scan_results makes of one message of the dump of a BSS table:  *)
(* a Station, or nothing.  The quality comes from the signal attribute,    *)
(* the SSID is looked for in the information elements: a buffer that is,   *)
(* element after element, an id, a size and size bytes, and that the       *)
(* driver may have cut short anywhere.                                     *)
(***************************************************************************)
EXTENDS Signal, Sequences, SequencesExt

CONSTANTS
    Ids,           \* element ids, WLAN_EID_SSID among them
    Payloads,      \* what the elements may contain
    MaxElements,   \* bound on the number of elements
    Signals,       \* values of the signal attribute
    InvalidByte    \* a byte that no UTF-8 string contains

WLAN_EID_SSID == 0
None == <<>>     \* an Option that is None; <<x>> is Some(x)

ASSUME BssAssumption ==
    /\ Ids \subseteq 0..255
    /\ \A d \in Payloads : d \in Seq(0..255) /\ Len(d) \in 0..255
    /\ MaxElements \in Nat
    /\ Signals \subseteq Int

VARIABLES
    elements,   \* the elements the access point sends
    buffer,     \* the bytes of the attribute
    signal,     \* the signal attribute, an Option
    cursor,     \* the number of bytes read from the buffer
    pc,         \* "message", "ssid" in extract_ssid, "station", "done"
    ssid,       \* the bytes extract_ssid returns
    station     \* the Option<Station> the closure returns

vars == <<elements, buffer, signal, cursor, pc, ssid, station>>

-----------------------------------------------------------------------------

Element == [id : Ids, data : Payloads]
Encode(e) == <<e.id, Len(e.data)>> \o e.data

\* The bytes of the first n elements.
Encoded[n \in 0..Len(elements)] ==
    IF n = 0 THEN <<>> ELSE Encoded[n - 1] \o Encode(elements[n])

AllEncoded == Encoded[Len(elements)]

TypeOK ==
    /\ cursor \in 0..Len(buffer)
    /\ pc \in {"message", "ssid", "station", "done"}
    /\ station = None \/ (station[1].quality \in 0..100 /\ station[1].ssid # <<>>)

\* Any message: with or without a signal, the elements whole or cut short.
Init ==
    /\ elements \in UNION {[1..n -> Element] : n \in 0..MaxElements}
    /\ \E n \in 0..Len(AllEncoded) : buffer = SubSeq(AllEncoded, 1, n)
    /\ signal \in {None} \cup {<<s>> : s \in Signals}
    /\ cursor = 0
    /\ pc = "message"
    /\ ssid = <<>>
    /\ station = None

\* The closure of get_scan_results up to extract_ssid.
Message ==
    /\ pc = "message"
    /\ pc' = IF signal = None THEN "done" ELSE "ssid"
    /\ UNCHANGED <<elements, buffer, signal, cursor, ssid, station>>

Left == Len(buffer) - cursor
Byte(n) == buffer[cursor + n]

\* extract_element finds an element, all of it.
HasElement == Left >= 2 /\ Left >= 2 + Byte(2)

BuggyExtractElement ==     \* what is left of a cut element is taken for it
    /\ pc = "ssid"
    /\ IF Left < 2
       THEN /\ pc' = "station"
            /\ UNCHANGED <<cursor, ssid>>
       ELSE /\ cursor' = Min({Len(buffer), cursor + 2 + Byte(2)})
            /\ IF Byte(1) = WLAN_EID_SSID
               THEN /\ ssid' = SubSeq(buffer, cursor + 3, cursor')
                    /\ pc' = "station"
               ELSE UNCHANGED <<pc, ssid>>
    /\ UNCHANGED <<elements, buffer, signal, station>>

StuckExtractElement ==     \* the size is taken to count the two bytes before it
    /\ pc = "ssid"
    /\ IF HasElement
       THEN /\ cursor' = cursor + Byte(2)
            /\ UNCHANGED <<pc, ssid>>
       ELSE /\ pc' = "station"
            /\ UNCHANGED <<cursor, ssid>>
    /\ UNCHANGED <<elements, buffer, signal, station>>

\* One turn of the loop of extract_ssid.
ExtractElement ==
    /\ pc = "ssid"
    /\ IF HasElement
       THEN /\ cursor' = cursor + 2 + Byte(2)
            /\ IF Byte(1) = WLAN_EID_SSID
               THEN /\ ssid' = SubSeq(buffer, cursor + 3, cursor')
                    /\ pc' = "station"
               ELSE UNCHANGED <<pc, ssid>>
       ELSE /\ pc' = "station"
            /\ UNCHANGED <<cursor, ssid>>
    /\ UNCHANGED <<elements, buffer, signal, station>>

HiddenMakeStation ==     \* hidden access points are listed, without a name
    /\ pc = "station"
    /\ pc' = "done"
    /\ IF InvalidByte \in ToSet(ssid)
       THEN UNCHANGED station
       ELSE \E q \in Qualities(signal[1]) : station' = <<[ssid |-> ssid, quality |-> q]>>
    /\ UNCHANGED <<elements, buffer, signal, cursor, ssid>>

\* The rest of the closure: an SSID that is empty or no UTF-8 has no station.
MakeStation ==
    /\ pc = "station"
    /\ pc' = "done"
    /\ IF ssid = <<>> \/ InvalidByte \in ToSet(ssid)
       THEN UNCHANGED station
       ELSE \E q \in Qualities(signal[1]) : station' = <<[ssid |-> ssid, quality |-> q]>>
    /\ UNCHANGED <<elements, buffer, signal, cursor, ssid>>

Next == Message \/ ExtractElement \/ MakeStation

Spec == Init /\ [][Next]_vars

\* The closure is not asynchronous: it runs to its end.
FairSpec == Spec /\ WF_vars(Next)

-----------------------------------------------------------------------------
(* Properties. *)

\* The SSID of the access point, in terms of what it sends: that of its first
\* SSID element, if the buffer has the whole of it.
Ssids ==
    {elements[n].data : n \in {m \in DOMAIN elements :
        /\ elements[m].id = WLAN_EID_SSID
        /\ \A k \in 1..m - 1 : elements[k].id # WLAN_EID_SSID
        /\ Len(Encoded[m]) <= Len(buffer)}}

\* The access points listed are those that can be named, by their own name,
\* however their elements are cut; a hidden one is not listed.
StationIsNamed ==
    pc = "done" =>
        IF station = None
        THEN signal = None \/ \A s \in Ssids : s = <<>> \/ InvalidByte \in ToSet(s)
        ELSE station[1].ssid \in Ssids

\* The qualities of the stations do not contradict the strengths of their
\* signals: -100 dBm and less is 0, -40 dBm and more is 100, and a stronger
\* signal has no lower quality, rounding errors included.
QualityOrdered ==
    pc = "done" /\ station # None =>
        LET quality == station[1].quality IN
        /\ signal[1] <= -10000 => quality = 0
        /\ signal[1] >= -4000 => quality = 100
        /\ \A s \in Signals : \A q \in Qualities(s) :
            (s < signal[1] => q <= quality) /\ (s > signal[1] => q >= quality)

\* Whatever the bytes of the buffer, the loop over its elements ends: a size
\* of zero makes progress too.
Ends == <>(pc = "done")
==============================================================================
