------------------------------ MODULE ClientIp ------------------------------
(***************************************************************************)
(* Which caller a request is counted under.  Addresses are the members of  *)
(* a small set; KeyOf maps an address to the part that identifies a caller *)
(* (an IPv4 address itself, an IPv4-in-IPv6 address its IPv4 address, any  *)
(* other IPv6 address its /64), CloudflareAddresses are those in           *)
(* Cloudflare's ranges.  "junk" stands for a header entry that is no       *)
(* address, "" for an empty one.                                           *)
(***************************************************************************)
EXTENDS Naturals, Sequences, FiniteSets

CONSTANTS KeyOf, CloudflareAddresses

Addresses == DOMAIN KeyOf

UNKNOWN_IP == "unknown"

ASSUME AddressAssumption ==
    CloudflareAddresses \subseteq Addresses /\ {UNKNOWN_IP, ""} \cap Addresses = {}

ValidIp(value) == value \in Addresses

CallerKey(address) == IF address = UNKNOWN_IP THEN address ELSE KeyOf[address]

IsCloudflare(address) == address \in CloudflareAddresses

\* The entry of X-Forwarded-For the trusted proxies vouch for, counted from the
\* end without the empty ones; with too few entries, or no address there, the
\* connection's own address.
VouchedEntry(parts, hops) == {i \in parts : Cardinality({j \in parts : j >= i}) = hops}

ConnectingAddress(request, hops) ==
    LET parts == {i \in DOMAIN request.forwarded : request.forwarded[i] # ""}
        entry == VouchedEntry(parts, hops)
    IN IF \E i \in entry : ValidIp(request.forwarded[i])
       THEN request.forwarded[CHOOSE i \in entry : TRUE]
       ELSE IF ValidIp(request.remote) THEN request.remote ELSE UNKNOWN_IP

\* Mutant: CF-Connecting-IP is believed from anyone.
ClientAddressCf(request, hops) ==
    IF ValidIp(request.cf) THEN request.cf ELSE ConnectingAddress(request, hops)

\* CF-Connecting-IP is believed from Cloudflare's own addresses only.
ClientAddress(request, hops) ==
    LET connecting == ConnectingAddress(request, hops)
    IN IF IsCloudflare(connecting) /\ ValidIp(request.cf) THEN request.cf ELSE connecting

CounterKey(scope, request, hops) == <<scope, CallerKey(ClientAddress(request, hops))>>

-----------------------------------------------------------------------------
(* Requests as they arrive: what a caller at `origin` can write into the  *)
(* headers (forged entries of X-Forwarded-For, a CF-Connecting-IP header)  *)
(* and what the proxies on its way add.                                    *)

\* Straight to the hosting platform, whose front end appends the address it
\* saw.  Its own address is the connection's.
ViaPlatform(origin, forged, cf, frontEnd) ==
    [forwarded |-> Append(forged, origin), cf |-> cf, remote |-> frontEnd]

\* Through Cloudflare, which appends the caller and replaces CF-Connecting-IP.
ViaCloudflare(origin, forged, edge, frontEnd) ==
    [forwarded |-> forged \o <<origin, edge>>, cf |-> origin, remote |-> frontEnd]

\* Without any proxy (TRUSTED_PROXY_HOPS is 0).
Unproxied(origin, forged, cf) == [forwarded |-> forged, cf |-> cf, remote |-> origin]
=============================================================================
