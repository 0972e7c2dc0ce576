------------------------------- MODULE Neighbors -------------------------------
(***************************************************************************)
(* The camera's address: find_ip_by_mac (core/src/net_neighbors.cpp), which *)
(* the window's lookup thread runs after the camera joined a network.      *)
(*                                                                         *)
(* Addresses have AddressBits bits instead of 32, and a sweep covers       *)
(* SweepBits of them instead of the 8 of a /24.  The neighbour table, the  *)
(* camera and the datagrams, which may be lost, are the environment.  One  *)
(* turn of the loop is one tick of the clock.                              *)
(***************************************************************************)
EXTENDS Integers, Sequences, FiniteSets

CONSTANTS
    AddressBits, SweepBits,
    OwnAddresses, Prefixes,       \* what the adapters of this computer may have
    Places,                       \* addresses that rows of the neighbour table are about
    MacDigits,                    \* 12
    Timeout, Grace, NudgeAgain,   \* in ticks: kFindCameraTimeout, kFreshGrace, kNudgeAgain
    MaxMoves                      \* bound: addresses that the camera gets meanwhile

ASSUME NeighborsAssumption ==
    /\ SweepBits \in 1 .. AddressBits /\ MacDigits \in Nat \ {0}
    /\ OwnAddresses \subseteq 0 .. 2 ^ AddressBits - 1 /\ Prefixes \subseteq 0 .. AddressBits
    /\ Places \subseteq 1 .. 2 ^ AddressBits - 1
    /\ {Timeout, Grace, NudgeAgain, MaxMoves} \subseteq Nat /\ Grace <= Timeout

VARIABLES
    adapters, mac,
    table,        \* of each place: what its row says of the camera's MAC
    place,        \* where the camera is, 0 while it has no address
    search,       \* at: start, loop or done; the time, that of the next nudge; what is returned
    opened,       \* UdpSocket::open succeeded
    stopRequested,
    lastLookup,   \* the rows of the last lookup (history)
    answered,     \* the camera answered a nudge since the last lookup (history)
    moves

neighborVars == <<adapters, mac, table, place, search, opened, stopRequested, lastLookup,
                  answered, moves>>

Adapters == [ip : OwnAddresses, prefix : Prefixes, kind : {"up", "down", "loopback"}]
Rows == {"none", "stale", "reachable"}

-----------------------------------------------------------------------------
(* The networks of this computer. *)

\* local_networks()
LocalNetworks == {a \in adapters : a.kind = "up"}

\* sweep_targets(): every host of the block but this computer and the broadcast address.
SweepTargets(network) ==
    LET wide == AddressBits - network.prefix
        size == 2 ^ (IF wide > SweepBits THEN SweepBits ELSE wide)
        block == network.ip - (network.ip % size)
    IN IF network.ip = 0 \/ network.prefix <= 0 \/ network.prefix >= AddressBits - 1 THEN {}
       ELSE (block + 1 .. block + size - 2) \ {network.ip}

\* on_network()
OnNetwork(network, ip) ==
    /\ network.ip # 0 /\ ip # 0 /\ network.prefix > 0
    /\ LET size == 2 ^ (AddressBits - network.prefix) IN network.ip \div size = ip \div size

\* normalize_mac(): 12 hexadecimal digits, with colons and dashes anywhere.
IsMac(text) ==
    /\ \A i \in DOMAIN text : text[i] \in {"digit", "separator"}
    /\ Cardinality({i \in DOMAIN text : text[i] = "digit"}) = MacDigits

LocalOnes(places) == {p \in places : \E network \in LocalNetworks : OnNetwork(network, p)}

-----------------------------------------------------------------------------
NeighborInit ==
    /\ adapters \in {list \in SUBSET Adapters : Cardinality(list) <= 2}
    /\ mac \in UNION {[1 .. n -> {"digit", "separator", "letter"}] : n \in 1 .. MacDigits + 1}
    /\ table \in [Places -> {"none", "stale"}]
    /\ place = 0 /\ opened \in BOOLEAN /\ stopRequested = FALSE
    /\ search = [at |-> "start", time |-> 0, nudge |-> 0, result |-> 0]
    /\ lastLookup = [fresh |-> {}, old |-> {}] /\ answered = FALSE /\ moves = 0

\* lookup(): the rows of this MAC that the system has resolved.
Lookup == [fresh |-> {p \in Places : table[p] = "reachable"},
           old   |-> {p \in Places : table[p] = "stale"}]

FindBegins ==
    /\ search.at = "start"
    /\ search' = [search EXCEPT !.at = IF IsMac(mac) THEN "loop" ELSE "done"]
    /\ UNCHANGED <<adapters, mac, table, place, opened, stopRequested, lastLookup, answered, moves>>

\* Mutant of Choice: the time is looked at before what the lookup found.
ChoiceByTime(rows, time) ==
    LET fresh == LocalOnes(rows.fresh)
        old   == LocalOnes(rows.old)
    IN IF time >= Timeout \/ stopRequested THEN {0}
       ELSE IF fresh # {} THEN fresh
       ELSE IF time >= Grace THEN old ELSE {}

\* What a lookup leads to: the addresses to return one of, {0} for none, {} to go on.
Choice(rows, time) ==
    LET fresh == LocalOnes(rows.fresh)
        old   == LocalOnes(rows.old)
    IN IF fresh # {} THEN fresh
       ELSE IF old # {} /\ time >= Grace THEN old
       ELSE IF time >= Timeout \/ stopRequested THEN {0} ELSE {}

Looks ==
    /\ search.at = "loop" /\ lastLookup' = Lookup /\ answered' = FALSE

Returns ==
    /\ Looks
    /\ \E ip \in Choice(Lookup, search.time) :
          search' = [search EXCEPT !.at = "done", !.result = ip]
    /\ UNCHANGED <<adapters, mac, table, place, opened, stopRequested, moves>>

Swept == UNION {SweepTargets(network) : network \in LocalNetworks}
Nudges == opened /\ search.time >= search.nudge

\* The loop goes on.  A nudge makes the system ask for the address anew: the camera answers,
\* or that is lost; a row that nobody answers for goes.
GoesOn ==
    /\ search.at = "loop" /\ Choice(Lookup, search.time) = {}
    /\ lastLookup' = Lookup
    /\ search' = [search EXCEPT !.time = @ + 1,
                                !.nudge = IF Nudges THEN search.time + NudgeAgain ELSE @]
    /\ \E answers \in IF Nudges /\ place \in Swept THEN BOOLEAN ELSE {FALSE} :
          /\ answered' = answers
          /\ \E gone \in SUBSET {p \in Places : Nudges /\ p \in Swept} :
                table' = [p \in Places |-> IF answers /\ p = place THEN "reachable"
                                           ELSE IF p \in gone THEN "none" ELSE table[p]]
    /\ UNCHANGED <<adapters, mac, place, opened, stopRequested, moves>>

-----------------------------------------------------------------------------
(* The environment. *)

\* The camera gets an address, or another one; its traffic alone may make a row.
CameraGetsAddress ==
    /\ search.at = "loop" /\ moves < MaxMoves /\ moves' = moves + 1
    /\ place' \in Places \ {place}
    /\ table' \in {table, [table EXCEPT ![place'] = "reachable"]}
    /\ UNCHANGED <<adapters, mac, search, opened, stopRequested, lastLookup, answered>>

RowAges ==
    /\ search.at = "loop"
    /\ \E p \in Places : table[p] = "reachable" /\ table' = [table EXCEPT ![p] = "stale"]
    /\ answered' = FALSE
    /\ UNCHANGED <<adapters, mac, place, search, opened, stopRequested, lastLookup, moves>>

StopRequested ==
    /\ stopRequested = FALSE /\ search.at = "loop" /\ stopRequested' = TRUE
    /\ UNCHANGED <<adapters, mac, table, place, search, opened, lastLookup, answered, moves>>

NeighborNext ==
    FindBegins \/ Returns \/ GoesOn \/ CameraGetsAddress \/ RowAges \/ StopRequested

NeighborSpec == NeighborInit /\ [][NeighborNext]_neighborVars

-----------------------------------------------------------------------------
NeighborTypeOK ==
    /\ table \in [Places -> Rows] /\ place \in Places \cup {0}
    /\ search \in [at : {"start", "loop", "done"}, time : 0 .. Timeout,
                   nudge : 0 .. Timeout + NudgeAgain, result : Places \cup {0}]
    /\ stopRequested \in BOOLEAN /\ answered \in BOOLEAN /\ moves \in 0 .. MaxMoves

(* What is returned is an address of the camera on a network of this        *)
(* computer, an old one only where none was confirmed and the camera had its *)
(* time to answer; and none only where the last lookup found none to take:  *)
(* not when the answer came with the end of the time or with the stop.       *)
FindsCamera ==
    LET fresh == LocalOnes(lastLookup.fresh)
        old   == LocalOnes(lastLookup.old)
    IN search.at = "done" /\ IsMac(mac) =>
          IF search.result # 0
          THEN search.result \in (IF fresh # {} THEN fresh ELSE old)
               /\ (fresh = {} => search.time >= Grace)
          ELSE fresh = {} /\ (old = {} \/ search.time < Grace)

(* An answer that is in the table when the loop looks is not missed, and    *)
(* nothing is nudged that is not a host of a local network: not this         *)
(* computer, not the broadcast address, and no more hosts than one block.    *)
SweepsHosts ==
    /\ answered /\ search.at = "loop" => place = 0 \/ LocalOnes(Lookup.fresh) # {}
    /\ \A network \in LocalNetworks :
          LET targets == SweepTargets(network)
          IN /\ \A ip \in targets : OnNetwork(network, ip) /\ ip # network.ip
                                    /\ ((ip + 1) % 2 ^ (AddressBits - network.prefix)) \notin {0, 1}
             /\ Cardinality(targets) <= 2 ^ SweepBits - 2

(* Of what the neighbour table says of the camera the lookup takes the      *)
(* right thing at the right time, and its nudges go where they may.         *)
CameraIsFound == FindsCamera /\ SweepsHosts
=============================================================================
