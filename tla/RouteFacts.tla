------------------------------ MODULE RouteFacts -------------------------------
(***************************************************************************)
(* Closed facts about the routes and what each asks of the caller. TLC     *)
(* evaluates them, and the proofs about requests (module PlatformProofs),  *)
(* which fill the paths in with anything, start from them.                 *)
(***************************************************************************)
EXTENDS Routes

Names(route, segment) == \E i \in DOMAIN route.path : route.path[i] = segment

Changes(route) == route.method # "GET"

(* Some request matches both. *)
Overlap(p, q) ==
  /\ p.method = q.method /\ Len(p.path) = Len(q.path)
  /\ \A i \in DOMAIN p.path : p.path[i] = "*" \/ q.path[i] = "*" \/ p.path[i] = q.path[i]

ASSUME RoutesTyped ==
  AllRoutes \in Seq([method : STRING, path : Seq(STRING), needs : STRING])

(* No route is hidden behind a more general one that comes before it. *)
ASSUME NamedBeforeOpen ==
  \A p, q \in DOMAIN AllRoutes :
    p < q /\ Overlap(AllRoutes[p], AllRoutes[q])
    => \A i \in DOMAIN AllRoutes[p].path :
         AllRoutes[p].path[i] = "*" => AllRoutes[q].path[i] = "*"

(* Only the chef is let in where the staff's part is changed, and those who *)
(* have no verified account only where one signs in or writes to the shop.  *)
ASSUME WhoMayChange ==
  \A r \in DOMAIN AllRoutes, caller \in Callers :
    Changes(AllRoutes[r]) /\ Allowed(caller, AllRoutes[r].needs) =>
      /\ (\E area \in {"admin", "kitchen", "chef"} : Names(AllRoutes[r], area)) => caller = "chef"
      /\ caller \notin {"customer", "chef"}
         => \E way \in {"auth", "contact", "contacts"} : Names(AllRoutes[r], way)

(* Signing in is below /auth, and settings are below /admin. *)
ASSUME WaysBackIn ==
  \A r \in DOMAIN AllRoutes :
    /\ Names(AllRoutes[r], "login")
       => \E i \in 1 .. Len(AllRoutes[r].path) - 1 : AllRoutes[r].path[i] = "auth"
    /\ AllRoutes[r].method = "PUT" /\ Names(AllRoutes[r], "settings")
       => \E i \in 1 .. Len(AllRoutes[r].path) - 1 : AllRoutes[r].path[i] = "admin"

=============================================================================
