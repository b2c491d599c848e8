------------------------------- MODULE Stations -------------------------------
(***************************************************************************)
(* get_nearby_stations: the access points NetworkManager knows, as a list  *)
(* for the user: strongest first, each name once, none without a name.     *)
(***************************************************************************)
EXTENDS Naturals, SequencesExt

CONSTANTS
    Names,        \* SSIDs that are strings, by their place in the order of
                  \* strings; 0 is the empty one
    Unreadable,   \* an SSID that is absent or no UTF-8
    Strengths,    \* values of AccessPoint.strength
    MaxAps        \* bound on the number of access points

ASSUME StationsAssumption ==
    /\ Names \subseteq Nat /\ Unreadable \in Nat \ Names
    /\ Strengths \subseteq 0..255
    /\ MaxAps \in Nat

VARIABLES
    aps,        \* device.access_points()
    stations,   \* the list, once it is made
    made

vars == <<aps, stations, made>>

TypeOK ==
    /\ \A n \in DOMAIN stations : stations[n] \in [ssid : Names \ {0}, quality : Strengths]
    /\ made \in BOOLEAN

\* What ssid_to_str distinguishes: Some name, or None.
Ssid == Names \cup {Unreadable}

AccessPoint == [ssid : Ssid, quality : Strengths]

Init ==
    /\ aps \in UNION {[1..n -> AccessPoint] : n \in 0..MaxAps}
    /\ stations = <<>>
    /\ made = FALSE

-----------------------------------------------------------------------------

\* The elements of a list at some of its places, in their order: what is left
\* by filter_map and by retain.
Retain(list, places) ==
    FlattenSeq([n \in DOMAIN list |-> IF n \in places THEN <<list[n]>> ELSE <<>>])

\* (quality, ssid), the key of sort_by_key.
Before(s, t) ==
    \/ s.quality < t.quality
    \/ s.quality = t.quality /\ s.ssid < t.ssid

Ordered(list) == \A i, j \in DOMAIN list : i < j => ~Before(list[j], list[i])

Rearranged(list) ==
    {[n \in DOMAIN list |-> list[p[n]]] : p \in Bijection(DOMAIN list, DOMAIN list)}

\* Equal keys are equal stations, so that stability makes no difference.
SortByKey(list) == CHOOSE sorted \in Rearranged(list) : Ordered(sorted)

\* The places where `inserted` has not seen the name before.
FirstOfItsName(list) ==
    {n \in DOMAIN list : \A k \in 1..n - 1 : list[k].ssid # list[n].ssid}

With(list, ssids) == {n \in DOMAIN list : list[n].ssid \in ssids}

BuggyNearbyStations(list) ==     \* duplicates are purged before the reversal
    LET sorted == SortByKey(Retain(list, With(list, Names)))
        distinct == Reverse(Retain(sorted, FirstOfItsName(sorted)))
    IN  Retain(distinct, With(distinct, Names \ {0}))

HiddenNearbyStations(list) ==     \* hidden ones stay
    LET sorted == Reverse(SortByKey(Retain(list, With(list, Names))))
    IN  Retain(sorted, FirstOfItsName(sorted))

NearbyStations(list) ==
    LET sorted == Reverse(SortByKey(Retain(list, With(list, Names))))
        distinct == Retain(sorted, FirstOfItsName(sorted))
    IN  Retain(distinct, With(distinct, Names \ {0}))

GetNearbyStations ==
    /\ ~made
    /\ stations' = NearbyStations(aps)
    /\ made' = TRUE
    /\ UNCHANGED aps

Next == GetNearbyStations

Spec == Init /\ [][Next]_vars

-----------------------------------------------------------------------------

\* The list has every name that can be shown, at the strength of the strongest
\* access point of that name, in an order that no two entries share.
StrongestOfEachName ==
    made =>
        LET shown == {a \in ToSet(aps) : a.ssid \notin {0, Unreadable}} IN
        /\ ToSet(stations) =
                {a \in shown : \A b \in shown : b.ssid = a.ssid => b.quality <= a.quality}
        /\ \A i, j \in DOMAIN stations : i < j => Before(stations[j], stations[i])
===============================================================================
