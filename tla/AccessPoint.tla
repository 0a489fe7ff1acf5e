----------------------------- MODULE AccessPoint ----------------------------
(* The access point (WiFiAP.cpp), the record getStatus() fills               *)
(* (WiFiGeneric.cpp) and the addresses of the interface (WiFiSTA.cpp,        *)
(* NetworkInterface.cpp).  The management library, its event loop and the    *)
(* radio are external: stations come and go, and a call may fail.            *)
(*                                                                           *)
(* Assumed: after an end() that failed the sketch calls end() again before   *)
(* it relies on events, and a static address comes with a mask 255.x.        *)
EXTENDS Integers, FiniteSets

CONSTANTS
    Stations,   \* that may join the access point
    IPv6,       \* CONFIG_IPV6_SUPPORT
    MaxLeases,  \* bound: addresses given to stations
    MaxQueries  \* bound: getStatus() calls

ASSUME AccessPointAssumption ==
    IPv6 \in BOOLEAN /\ {MaxLeases, MaxQueries} \subseteq Nat

VARIABLES
    vif,        \* the interface: its type
    started,    \* and whether it is an access point that runs
    handlers,   \* events with a callback
    joined,     \* stations that have joined
    told,       \* history: leases and removals posted to the sketch
    missed,     \* history: and those that were not
    ended,      \* history: end() has taken callbacks away and not stopped
    info,       \* the WiFiVifInfo record of the sketch
    lists,      \* client lists on the heap: their lengths
    wild,       \* history: free() was given something else
    queries,    \* counter for the bound
    cfg,        \* addresses of the interface
    meant       \* history: those the sketch asked for

apVars == <<vif, started, handlers, joined, told, missed, ended>>
infoVars == <<info, lists, wild, queries>>
ipVars == <<cfg, meant>>

Nowhere == 0        \* nullptr
WILD == -1          \* a pointer that is made of other data
Empty == [type |-> "WVIF_UNKNOWN", count |-> 0, clients |-> Nowhere, freed |-> FALSE]

NONE_IP == "0.0.0.0"
MASK24 == "255.255.255.0"
Masks == {"255.255.0.0", MASK24}

ApInit ==
    /\ vif = "WVIF_UNKNOWN" /\ started = FALSE
    /\ handlers = {} /\ joined = {}
    /\ told = [leases |-> 0, removals |-> 0] /\ missed = told /\ ended = FALSE
    /\ info = Empty /\ lists = <<>> /\ wild = FALSE /\ queries = 0
    /\ cfg = [mode |-> "none"] /\ meant = cfg

-----------------------------------------------------------------------------
(* begin(), create(), end(); softAP() is the first two, 5 ms apart, and      *)
(* softAPConfig() a begin() and an address.                                  *)

BeginForAdded == {"CLIENT_ADDED", "CLIENT_REMOVED"}             \* mutant

BeginEvents == {"CLIENT_DHCP_OFFER", "CLIENT_REMOVED"}

\* Opening the radio may fail before this.
ApBegin ==
    /\ handlers' = handlers \union BeginEvents
    /\ ended' = FALSE
    /\ UNCHANGED <<vif, started, joined, told, missed, infoVars, ipVars>>

ApCreate ==
    /\ BeginEvents \subseteq handlers
    /\ vif' = "WVIF_AP" /\ started' = TRUE /\ joined' = {}
    /\ UNCHANGED <<handlers, told, missed, ended, infoVars, ipVars>>

\* The callbacks go first, one of them one that was never there; then the
\* access point may fail to stop.
ApEnd ==
    /\ handlers # {}
    /\ handlers' = handlers \ {"CLIENT_ADDED", "CLIENT_REMOVED"}
    /\ \/ vif' = "WVIF_UNKNOWN" /\ started' = FALSE /\ joined' = {} /\ ended' = FALSE
       \/ started /\ ended' = TRUE /\ UNCHANGED <<vif, started, joined>>
    /\ UNCHANGED <<told, missed, infoVars, ipVars>>

\* The sketch joins a network instead.
StaStart ==
    /\ ~started /\ vif' \in {"WVIF_STA", "WVIF_UNKNOWN"}
    /\ UNCHANGED <<started, handlers, joined, told, missed, ended, infoVars, ipVars>>

-----------------------------------------------------------------------------
(* Stations, and the callbacks that post an event.                           *)

Happens(event, kind) ==
    IF event \in handlers THEN told' = [told EXCEPT ![kind] = @ + 1] /\ UNCHANGED missed
    ELSE missed' = [missed EXCEPT ![kind] = @ + 1] /\ UNCHANGED told

\* A station joins and is offered an address; cb_client_added.
StationLeases(s) ==
    /\ started /\ told.leases + missed.leases < MaxLeases
    /\ joined' = joined \union {s}
    /\ Happens("CLIENT_DHCP_OFFER", "leases")
    /\ UNCHANGED <<vif, started, handlers, ended, infoVars, ipVars>>

\* cb_client_removed.
StationLeaves(s) ==
    /\ s \in joined /\ ~ended
    /\ joined' = joined \ {s}
    /\ Happens("CLIENT_REMOVED", "removals")
    /\ UNCHANGED <<vif, started, handlers, ended, infoVars, ipVars>>

-----------------------------------------------------------------------------
(* getStatus() and freeVifInfo().                                            *)

Freed(pointer) == [b \in DOMAIN lists \ {pointer} |-> lists[b]]

\* The station's data lies where an access point has its list: the end of a
\* long IPv6 address is taken for a pointer.
OfStation == [Empty EXCEPT !.type = "WVIF_STA", !.clients = IF IPv6 THEN WILD ELSE Nowhere]

OfAccessPoint(count, clients) ==
    [Empty EXCEPT !.type = "WVIF_AP", !.count = count, !.clients = clients]

CountOnFailureKept(n) == n                                      \* mutant

\* malloc of the list fails.
CountOnFailure(n) == 0

GetStatus ==
    LET n    == Cardinality(joined)
        rest == Freed(info.clients)
        new  == CHOOSE b \in 1..(Cardinality(DOMAIN rest) + 1) : b \notin DOMAIN rest
    IN  /\ queries < MaxQueries /\ queries' = queries + 1
        /\ wild' = (wild \/ info.clients \notin DOMAIN lists \union {Nowhere})
        /\ \/ /\ ~(vif = "WVIF_AP" /\ started /\ n > 0)
              /\ info' = IF vif = "WVIF_STA" THEN OfStation ELSE [Empty EXCEPT !.type = vif]
              /\ lists' = rest
           \/ /\ vif = "WVIF_AP" /\ started /\ n > 0
              /\ \/ /\ info' = OfAccessPoint(n, new)
                    /\ lists' = [b \in DOMAIN rest \union {new} |-> IF b = new THEN n ELSE rest[b]]
                 \/ /\ info' = OfAccessPoint(CountOnFailure(n), Nowhere)
                    /\ lists' = rest
        /\ UNCHANGED <<apVars, ipVars>>

\* The count stays.
FreeVifInfo ==
    /\ info.clients # Nowhere
    /\ wild' = (wild \/ info.clients \notin DOMAIN lists)
    /\ lists' = Freed(info.clients)
    /\ info' = [info EXCEPT !.clients = Nowhere, !.freed = TRUE]
    /\ UNCHANGED <<queries, apVars, ipVars>>

-----------------------------------------------------------------------------
(* config().                                                                 *)

\* Arguments in the order (ip, dns, gateway, subnet) are told by the third.
Reordered(c) ==
    IF c.subnet \in Masks THEN c
    ELSE [c EXCEPT !.dns1 = c.gateway, !.gateway = c.subnet,
                   !.subnet = IF c.dns1 # NONE_IP THEN c.dns1 ELSE MASK24]

\* NetworkInterface::config.
Interface(c) ==
    IF c.ip = NONE_IP THEN [mode |-> "dhcp"]
    ELSE LET r == Reordered(c)
         IN  [mode |-> "static", addr |-> r.ip, mask |-> r.subnet, gw |-> r.gateway, dns |-> r.dns1]

\* WiFiSTAClass::config puts the arguments in order before that one does.
StaInterface(c) == Interface(IF c.ip = NONE_IP THEN c ELSE Reordered(c))

Args(ip, gateway, subnet, dns1) == [ip |-> ip, gateway |-> gateway, subnet |-> subnet, dns1 |-> dns1]
Static(mask, gw, dns) == [mode |-> "static", addr |-> "ip", mask |-> mask, gw |-> gw, dns |-> dns]

\* The calls: what they pass, and what is meant by it.  config(ip, dns) takes
\* the first address of the network for the gateway.
Configs ==
    {[args |-> Args(NONE_IP, NONE_IP, NONE_IP, NONE_IP), meant |-> [mode |-> "dhcp"]]}
    \union {[args |-> Args("ip", "gw", m, d), meant |-> Static(m, "gw", d)] :
               m \in Masks, d \in {NONE_IP, "dns"}}
    \union {[args |-> Args("ip", "dns", "gw", m), meant |-> Static(m, "gw", "dns")] : m \in Masks}
    \union {[args |-> Args("ip", "dns", "gw", NONE_IP), meant |-> Static(MASK24, "gw", "dns")],
            [args |-> Args("ip", "ip.1", MASK24, "dns"), meant |-> Static(MASK24, "ip.1", "dns")]}

Configure ==
    /\ \E c \in Configs :
         /\ cfg' \in {StaInterface(c.args), Interface(c.args)}
         /\ meant' = c.meant
    /\ UNCHANGED <<apVars, infoVars>>

ApNext ==
    \/ ApBegin \/ ApCreate \/ ApEnd \/ StaStart
    \/ \E s \in Stations : StationLeases(s) \/ StationLeaves(s)
    \/ GetStatus \/ FreeVifInfo
    \/ Configure

ApSpec == ApInit /\ [][ApNext]_<<apVars, infoVars, ipVars>>

-----------------------------------------------------------------------------
(* Properties.                                                               *)

\* The lists on the heap are the one the record points to, which has as many
\* entries as the record counts, whatever the interface was and has become
\* since the record was filled (WiFiGeneric.cpp:81-299).
StatusOwned ==
    /\ ~wild /\ DOMAIN lists \subseteq {info.clients}
    /\ ~info.freed /\ info.count > 0 =>
         info.clients \in DOMAIN lists /\ lists[info.clients] = info.count

\* Each station that is given an address, and each that leaves, is announced,
\* over any number of begin(), create() and end() (WiFiAP.cpp:46-119).
ClientsAnnounced == missed = [leases |-> 0, removals |-> 0]

\* An interface has the addresses that were meant, in either order of the
\* arguments (WiFiSTA.cpp:204-232, NetworkInterface.cpp:55-98).
AddressesAsMeant == cfg = meant

StatusTrue == StatusOwned /\ ClientsAnnounced /\ AddressesAsMeant
=============================================================================
