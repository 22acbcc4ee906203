------------------------------ MODULE AccessControl ------------------------------
(***************************************************************************)
(* How a request gets to a handler (Run in internal/api/rest/server.go):   *)
(* through logging, metrics and compression to the rate limiter, then to   *)
(* the allow list (firewall.go, middleware.go), then to the routes.  Both  *)
(* ask the request's headers for the client's address (ip.go), each on its *)
(* own.  The limiter is RateLimiter, whose actions are extended here.      *)
(*                                                                         *)
(* An address is a value, a network a set of them.  What can be wrong with *)
(* a header is that it is missing or that net.ParseIP refuses it; both are *)
(* NoAddress.  What becomes of the headers a client sends is up to the way *)
(* its request comes: straight, or through a proxy that sets X-Real-IP or  *)
(* passes it on, and sets, appends to or passes on X-Forwarded-For.  In    *)
(* README.md's nginx configuration it depends on the location: / sets one  *)
(* and appends to the other, /health passes both on.                       *)
(***************************************************************************)
EXTENDS RateLimiter, Sequences

CONSTANTS
  Config,    \* the configurations considered: ALLOWED_IPS, a set of entries,
             \* REVERSE_PROXY, and whether there is a RATE_LIMIT
  Proxy,     \* the address of the reverse proxy
  Ways,      \* the ways requests come by
  Forwarded, \* X-Forwarded-For headers that clients send, as lists
  Blank,     \* an entry of ALLOWED_IPS that is only spaces, or nothing
  Invalid,   \* an entry that is neither an address nor a network
  FirstBits, \* the IPv6 addresses that begin with 32 zero bits
  Untold     \* stands for an origin that the headers do not tell

\* An entry is an address, a network, or an IPv4 address spelled as IPv6
\* ("::ffff:192.0.2.1").
Entry == [kind : {"address", "mapped"}, of : Address] \cup [kind : {"cidr"}, of : SUBSET Address]
           \cup {Blank, Invalid}

Way == [proxied : BOOLEAN, XRealIP : {"set", "passed"},
        XForwardedFor : {"set", "appended", "passed"}]

ASSUME ConfigAssumption ==
  /\ Config \subseteq [ALLOWED_IPS : SUBSET Entry, trustProxy : BOOLEAN, limited : BOOLEAN]
ASSUME ProxyAssumption ==
  /\ Proxy \in Address /\ FirstBits \subseteq Address
  /\ Forwarded \subseteq Seq(Address \cup {NoAddress})
  /\ Ways \subseteq Way
  /\ \A way \in Ways : ~way.proxied => way.XRealIP = "passed" /\ way.XForwardedFor = "passed"
ASSUME UntoldAssumption ==
  /\ Untold \notin Address \cup {NoAddress}

VARIABLES
  config,  \* how this process is configured
  origin,  \* the address each request comes from, if its headers tell (history)
  client,  \* what extractClientIP returns for it, whoever asks
  answer   \* who answered it: "routes", "filter" (403), "limiter" (429)

accessVars == <<config, origin, client, answer>>
chainVars  == <<limitVars, accessVars>>

AccessTypeOK ==
  /\ TypeOK
  /\ config \in Config
  /\ origin \in [Request -> Address \cup {NoAddress, Untold}]
  /\ client \in [Request -> Address \cup {NoAddress}]
  /\ answer \in [Request -> {"none", "routes", "filter", "limiter"}]

------------------------------------------------------------------------------
(* The client's address.                                                     *)

\* The headers a request has when it arrives, sent being those the client set.
Headers(way, from, sent) ==
  [XRealIP       |-> IF way.XRealIP = "set" THEN from ELSE sent.XRealIP,
   XForwardedFor |-> IF way.XForwardedFor = "set" THEN <<from>>
                     ELSE IF way.XForwardedFor = "appended" THEN Append(sent.XForwardedFor, from)
                     ELSE sent.XForwardedFor,
   RemoteAddr    |-> IF way.proxied THEN Proxy ELSE from]

tryExtractForwardedFirst(h) ==
  IF h.XForwardedFor # <<>> /\ h.XForwardedFor[1] # NoAddress THEN h.XForwardedFor[1]
  ELSE h.XRealIP

tryExtractFromProxyHeaders(h) ==
  IF h.XRealIP # NoAddress THEN h.XRealIP
  ELSE IF h.XForwardedFor # <<>> THEN h.XForwardedFor[1]
  ELSE NoAddress

\* It cannot be parsed when it has an IPv6 zone.
extractFromRemoteAddr(h) == h.RemoteAddr

extractClientIP(h) ==
  IF config.trustProxy /\ tryExtractFromProxyHeaders(h) # NoAddress
    THEN tryExtractFromProxyHeaders(h)
    ELSE extractFromRemoteAddr(h)

\* When a request can be told by what it carries: the proxy names its origin in
\* a header that is read before any that the client can write, or, without a
\* proxy, the client's headers are not read or name nobody.
Tells(way, sent) ==
  LET nobody == sent.XRealIP = NoAddress IN
    IF way.proxied
      THEN /\ config.trustProxy
           /\ \/ way.XRealIP = "set"
              \/ nobody /\ way.XForwardedFor = "set"
              \/ nobody /\ way.XForwardedFor = "appended" /\ sent.XForwardedFor = <<>>
      ELSE \/ ~config.trustProxy
           \/ nobody /\ (sent.XForwardedFor = <<>> \/ sent.XForwardedFor[1] = NoAddress)

------------------------------------------------------------------------------
(* The allow list.                                                           *)

\* A mapped address is completed with "/32", which leaves of it the first 32
\* of its 128 bits.
parseIPOrCIDR(entry) ==
  IF entry.kind = "cidr" THEN entry.of
  ELSE IF entry.kind = "address" THEN {entry.of}
  ELSE FirstBits

allowedNets == {parseIPOrCIDR(entry) : entry \in config.ALLOWED_IPS \ {Blank}}

IsAllowedByAll(ip) == \A net \in allowedNets : ip \in net

\* Without nets there is no restriction, otherwise an unknown address is denied.
IsAllowed(ip) == allowedNets = {} \/ \E net \in allowedNets : ip \in net

------------------------------------------------------------------------------

\* setupIPFilter exits if an entry is invalid: no such process serves.
AccessInit ==
  /\ Init
  /\ config \in {c \in Config : Invalid \notin c.ALLOWED_IPS}
  /\ origin = [r \in Request |-> NoAddress]
  /\ client = [r \in Request |-> NoAddress]
  /\ answer = [r \in Request |-> "none"]

Sent == [XRealIP : Address \cup {NoAddress}, XForwardedFor : Forwarded]

\* The request's headers do not change on its way, so extractClientIP is
\* evaluated once.  Without RATE_LIMIT the limiter is not asked.
Receive(r) ==
  /\ Arrive(r)
  /\ \E way \in Ways, from \in Address \cup {NoAddress}, sent \in Sent :
       LET ip == extractClientIP(Headers(way, from, sent)) IN
         /\ way.proxied => from # NoAddress
         /\ address'[r] = IF config.limited THEN ip ELSE NoAddress
         /\ origin' = [origin EXCEPT ![r] = IF Tells(way, sent) THEN from ELSE Untold]
         /\ client' = [client EXCEPT ![r] = ip]
  /\ UNCHANGED <<config, answer>>

GetLimiter(r) ==
  /\ FindLimiter(r) \/ FindOrCreate(r)
  /\ UNCHANGED accessVars

\* RateLimitMiddleware answers what the bucket refuses.
Limit(r) ==
  /\ Allow(r)
  /\ answer' = IF pc'[r] = "refused" THEN [answer EXCEPT ![r] = "limiter"] ELSE answer
  /\ UNCHANGED <<config, origin, client>>

FilterIgnored(r) ==
  /\ pc[r] = "next" /\ answer[r] = "none"
  /\ answer' = [answer EXCEPT ![r] = "routes"]
  /\ UNCHANGED <<limitVars, config, origin, client>>

\* IPFilterMiddleware answers what the list does not allow.
Filter(r) ==
  /\ pc[r] = "next" /\ answer[r] = "none"
  /\ answer' = [answer EXCEPT ![r] = IF IsAllowed(client[r]) THEN "routes" ELSE "filter"]
  /\ UNCHANGED <<limitVars, config, origin, client>>

AccessNext ==
  \/ \E r \in Request : Receive(r) \/ GetLimiter(r) \/ Limit(r) \/ Filter(r)
  \/ Tick /\ UNCHANGED accessVars

AccessSpec == AccessInit /\ [][AccessNext]_chainVars

------------------------------------------------------------------------------
(* Properties.                                                               *)

\* What an entry names, whatever the code makes of it.
Named(entry) == IF entry.kind = "cidr" THEN entry.of ELSE {entry.of}

\* Lists without an IPv4 address in IPv6 form, which the code does not
\* understand: it allows FirstBits instead of that address.
PlainList == \A entry \in config.ALLOWED_IPS \ {Blank} : entry.kind # "mapped"

\* The routes answer exactly the requests from the addresses that the operator
\* listed, and all requests if nothing is listed (setupIPFilter, IsAllowed).  The
\* address is the request's origin where its headers tell that, whatever else
\* they say; otherwise it is the one that they state.
ListDecides ==
  \A r \in Request :
    LET listed == UNION {Named(entry) : entry \in config.ALLOWED_IPS \ {Blank}}
        whose  == IF origin[r] = Untold THEN client[r] ELSE origin[r] IN
      PlainList /\ answer[r] \in {"routes", "filter"} =>
        (answer[r] = "routes" <=> config.ALLOWED_IPS \subseteq {Blank} \/ whose \in listed)

\* With RATE_LIMIT, no place on the network gets more answers from the routes or
\* the list than burst and rate allow, over any stretch of time, with the requests
\* that can be told to be its own - even if it changes the headers that do not
\* count from request to request, or comes by several ways (RateLimitMiddleware).
OriginLimited ==
  config.limited =>
    \A a \in Address, s \in 0..now :
      LET passed == {r \in Request : answer[r] \in {"routes", "filter"}
                                       /\ origin[r] = a /\ at[r] >= s} IN
        Cardinality(passed) * Cost =< Full + Rate * (now - s)

\* What these rest on: middlewares that find the address by themselves find the
\* same one, and it is the request's origin if that can be told.
OneClient ==
  /\ Invalid \notin config.ALLOWED_IPS
  /\ \A r \in Request :
       /\ pc[r] = "idle" => answer[r] = "none"
       /\ pc[r] # "idle" =>
            /\ address[r] = IF config.limited THEN client[r] ELSE NoAddress
            /\ origin[r] # Untold => client[r] = origin[r]
       /\ answer[r] \in {"routes", "filter"} =>
            pc[r] = "next" /\ (answer[r] = "routes" <=> IsAllowed(client[r]))

AccessInv == AccessTypeOK /\ OneClient

==============================================================================
