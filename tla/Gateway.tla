-------------------------------- MODULE Gateway --------------------------------
(***************************************************************************)
(* What a request passes before a handler has it: the limit on its body,   *)
(* the maintenance switch, the rate limit, the routes, and what its route  *)
(* asks of the caller. The first that refuses it answers.                  *)
(*                                                                         *)
(* The switch and the counters are in Redis. When Redis does not answer    *)
(* the switch counts as off, and some policies of the rate limit refuse.   *)
(***************************************************************************)
EXTENDS Routes

CONSTANTS
  Segments,            \* bound: what requests fill in
  FailClosedPolicies   \* settings.rate_limit_fail_closed_policies

(* The default has auth, upload, email and orders. *)
ASSUME OrdersFailClosed == "orders" \in FailClosedPolicies

VARIABLES
  call,       \* the request: where it is, what it asks for and who asks
  redisUp,
  closed      \* the maintenance switch, as Redis has it

gatewayVars == <<call, redisUp, closed>>

NoCall == [pc |-> "none", route |-> 0, path |-> <<>>, caller |-> "nobody", handler |-> 0]

Fillings(path) ==
  {[i \in DOMAIN path |-> IF path[i] = "*" THEN filling[i] ELSE path[i]] :
     filling \in [{i \in DOMAIN path : path[i] = "*"} -> Segments]}

GatewayInit ==
  /\ call = NoCall
  /\ redisUp \in BOOLEAN /\ closed \in BOOLEAN

-----------------------------------------------------------------------------
Has(path, segment) == segment \in ToSet(path)

(* "/segment/" is in the path *)
Inside(path, segment) == \E i \in 1 .. Len(path) - 1 : path[i] = segment

(* Mutant: what is public is exempt, and nothing else is. *)
ExemptIfPublic(path) == path \in {<<"">>, <<"health">>} \/ Inside(path, "auth")

(* _is_exempt *)
Exempt(path) ==
  \/ path = <<"">> \/ path[1] = "health"
  \/ Inside(path, "auth") \/ Inside(path, "admin")

(* Mutant: only what begins with /orders is an order. *)
PolicyByPrefix(method, path) ==
  IF path[1] = "orders" /\ method = "POST" THEN "orders" ELSE "default"

(* _policy_for_path *)
AdminPolicy(method, path) ==
  IF Has(path, "test-email") THEN "email"
  ELSE IF Has(path, "upload") \/ (method = "POST" /\ Has(path, "images")) THEN "upload"
  ELSE "admin"

Policy(method, path) ==
  LET uploads == \E word \in {"avatar", "images", "upload"} : Has(path, word) IN
  IF path[1] = "health" \/ path \in {<<"">>, <<"api", "v1">>, <<"api", "v1", "">>} THEN "health"
  ELSE IF Inside(path, "auth") THEN "auth"
  ELSE IF Inside(path, "admin") THEN AdminPolicy(method, path)
  ELSE IF method = "POST" /\ Has(path, "checkout") THEN "checkout"
  ELSE IF method = "POST" /\ Has(path, "orders") THEN "orders"
  ELSE IF Has(path, "search") THEN "search"
  ELSE IF method \in {"POST", "PUT", "PATCH"} /\ uploads THEN "upload"
  ELSE "default"

-----------------------------------------------------------------------------
Method == AllRoutes[call.route].method

Pass(pc) == call' = [call EXCEPT !.pc = pc] /\ UNCHANGED <<redisUp, closed>>

(* A request to the path of some route. *)
Receive ==
  /\ call = NoCall
  /\ \E r \in DOMAIN AllRoutes, caller \in Callers :
       \E path \in Fillings(AllRoutes[r].path) :
         call' = [pc |-> "length", route |-> r, path |-> path, caller |-> caller, handler |-> 0]
  /\ UNCHANGED <<redisUp, closed>>

(* RequestBodyLimitMiddleware *)
CheckLength ==
  /\ call.pc = "length"
  /\ \/ Pass("maintenance")
     \/ Method \in {"POST", "PUT", "PATCH"} /\ Pass("tooLarge")

(* MaintenanceModeMiddleware *)
CheckMaintenance ==
  /\ call.pc = "maintenance"
  /\ Pass(IF closed /\ redisUp /\ ~Exempt(call.path) THEN "closed" ELSE "rate")

(* RateLimitingMiddleware; what the counters say is left open. *)
CheckRate ==
  /\ call.pc = "rate"
  /\ IF redisUp THEN Pass("route") \/ Pass("tooMany")
     ELSE Pass(IF Policy(Method, call.path) \in FailClosedPolicies THEN "unavailable" ELSE "route")

(* The routes are tried in order. *)
FindRoute ==
  /\ call.pc = "route"
  /\ call' = [call EXCEPT !.pc = "authorize", !.handler = Resolve(Method, call.path)]
  /\ UNCHANGED <<redisUp, closed>>

(* get_token_payload asks Redis whether the token is barred. *)
Authorize ==
  LET needs == AllRoutes[call.handler].needs IN
  /\ call.pc = "authorize"
  /\ Pass(IF ~redisUp /\ needs # "anyone" THEN "error"
          ELSE IF Allowed(call.caller, needs) THEN "handled" ELSE "refused")

Answer ==
  /\ call.pc \in {"tooLarge", "closed", "tooMany", "unavailable", "error", "refused", "handled"}
  /\ call' = NoCall
  /\ UNCHANGED <<redisUp, closed>>

(* The switch is set, or Redis goes or comes, while a request is under way. *)
Change == /\ closed' \in BOOLEAN /\ redisUp' \in BOOLEAN /\ UNCHANGED call

GatewayNext ==
  \/ Receive \/ CheckLength \/ CheckMaintenance \/ CheckRate \/ FindRoute \/ Authorize
  \/ Answer \/ Change

GatewaySpec == GatewayInit /\ [][GatewayNext]_gatewayVars

-----------------------------------------------------------------------------
GatewayTypeOK ==
  /\ redisUp \in BOOLEAN /\ closed \in BOOLEAN
  /\ call.route \in 0 .. Len(AllRoutes) /\ call.handler \in 0 .. Len(AllRoutes)
  /\ call.caller \in Callers
  /\ call.pc \in {"authorize", "handled"} => call.handler > 0

(* The order of registration hides no route behind a more general one: of  *)
(* the routes that match a request, none names a segment that the one that *)
(* is found leaves open.                                                   *)
NamedRoutesWin ==
  call.handler > 0
  => \A q \in DOMAIN AllRoutes :
       Matches(AllRoutes[q], Method, call.path)
       => \A i \in DOMAIN call.path :
            AllRoutes[call.handler].path[i] = "*" => AllRoutes[q].path[i] = "*"

StaffArea(path) == \E area \in {"admin", "kitchen", "chef"} : Has(path, area)

(* What is changed, or searched, in the staff's part of the API is changed *)
(* by staff: whatever permission each route names, no customer has it.     *)
StaffChange ==
  call.pc = "handled" /\ Method # "GET" /\ StaffArea(AllRoutes[call.handler].path)
  => call.caller = "chef"

(* Nobody changes anything without a verified account, but by signing up   *)
(* or in or out, or by writing to the restaurant.                          *)
StrangersOnlyAsk ==
  call.pc = "handled" /\ Method # "GET" /\ call.caller \notin {"customer", "chef"}
  => Has(call.path, "auth") \/ Has(call.path, "contact") \/ Has(call.path, "contacts")

(* While the shop is closed the chef can sign in and open it again.        *)
WayOut ==
  call.pc = "closed"
  => LET named == AllRoutes[call.route].path IN
     ~Has(named, "login") /\ ~(Method = "PUT" /\ Has(named, "settings"))

(* Without Redis nobody can tell whether the shop is closed: nothing is    *)
(* ordered then, though the switch counts as off.                          *)
NoBlindOrders ==
  [][call.pc = "rate" /\ call'.pc = "route" /\ ~redisUp
     => AllRoutes[call.route] # Route("POST", <<"api", "v1", "orders">>, "order.create")]_gatewayVars

(* All that is promised of the way of a request: the route named is the    *)
(* route served, staff alone change the shop, strangers only read and ask, *)
(* maintenance can be ended from outside, and nothing is ordered while     *)
(* Redis is down.                                                          *)
GatewayCorrect ==
  /\ []( /\ GatewayTypeOK
        /\ NamedRoutesWin
        /\ StaffChange
        /\ StrangersOnlyAsk
        /\ WayOut )
  /\ NoBlindOrders

=============================================================================
