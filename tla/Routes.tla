-------------------------------- MODULE Routes ---------------------------------
(***************************************************************************)
(* The routes of the API, in the order they are registered, with what each *)
(* asks of the caller, and what a role may do.                             *)
(*                                                                         *)
(* A path is the sequence of its segments, "*" one that a request fills    *)
(* in. needs: "anyone", a valid "token", an active "user", a "verified"    *)
(* one, the "chef", or a permission.                                       *)
(***************************************************************************)
EXTENDS SequencesExt

Route(method, path, needs) == [method |-> method, path |-> path, needs |-> needs]

Under(prefix, routes) ==
  [i \in DOMAIN routes |-> [routes[i] EXCEPT !.path = prefix \o @]]

HealthRoutes == <<
  Route("GET", <<"">>, "anyone"),
  Route("GET", <<"health">>, "anyone"),
  Route("GET", <<"health", "database">>, "anyone"),
  Route("GET", <<"health", "redis">>, "anyone"),
  Route("GET", <<"health", "services">>, "anyone")>>

AuthRoutes == Under(<<"auth">>, <<
  Route("POST", <<"register">>, "anyone"),
  Route("POST", <<"login">>, "anyone"),
  Route("POST", <<"refresh">>, "anyone"),
  Route("POST", <<"logout">>, "token"),
  Route("GET", <<"me">>, "user")>>)

ContactRoutes == <<
  Route("POST", <<"contact">>, "anyone"),
  Route("POST", <<"contact", "">>, "anyone"),
  Route("POST", <<"contacts">>, "anyone")>>

AccountRoutes == <<
  Route("GET", <<"account">>, "verified"),
  Route("GET", <<"addresses">>, "verified")>>

ProfileRoutes == Under(<<"users">>, <<
  Route("GET", <<"me">>, "verified"),
  Route("PATCH", <<"me">>, "verified"),
  Route("POST", <<"avatar">>, "verified"),
  Route("DELETE", <<"avatar">>, "verified"),
  Route("POST", <<"me", "deactivate">>, "verified"),
  Route("DELETE", <<"me">>, "verified")>>)

OwnRoutes == Under(<<"users">>, <<
  Route("GET", <<"addresses">>, "verified"),
  Route("POST", <<"addresses">>, "verified"),
  Route("PATCH", <<"addresses", "*">>, "verified"),
  Route("DELETE", <<"addresses", "*">>, "verified"),
  Route("PATCH", <<"addresses", "*", "default">>, "verified"),
  Route("GET", <<"preferences">>, "verified"),
  Route("PATCH", <<"preferences">>, "verified"),
  Route("GET", <<"notifications">>, "verified"),
  Route("PATCH", <<"notifications", "read-all">>, "verified"),
  Route("PATCH", <<"notifications", "*", "read">>, "verified"),
  Route("DELETE", <<"notifications", "*">>, "verified")>>)

(* Mutant: the page of one product is registered before the listings. *)
CatalogRoutesBySlug == <<
  Route("GET", <<"products", "*">>, "anyone"),
  Route("GET", <<"products", "search">>, "anyone"),
  Route("GET", <<"products", "featured">>, "anyone")>>

CatalogRoutes == <<
  Route("GET", <<"categories">>, "anyone"),
  Route("GET", <<"categories", "*">>, "anyone"),
  Route("GET", <<"products">>, "anyone"),
  Route("GET", <<"products", "search">>, "anyone"),
  Route("GET", <<"products", "featured">>, "anyone"),
  Route("GET", <<"products", "popular">>, "anyone"),
  Route("GET", <<"products", "recommended">>, "anyone"),
  Route("GET", <<"products", "*">>, "anyone"),
  Route("GET", <<"deals">>, "anyone"),
  Route("GET", <<"deals", "*">>, "anyone")>>

AdminCategoryRoutes == Under(<<"admin", "categories">>, <<
  Route("POST", <<>>, "category.create"),
  Route("GET", <<>>, "category.update"),
  Route("PATCH", <<"reorder">>, "category.update"),
  Route("PATCH", <<"*">>, "category.update"),
  Route("DELETE", <<"*">>, "category.delete"),
  Route("PATCH", <<"*", "hide">>, "category.update"),
  Route("PATCH", <<"*", "restore">>, "category.update")>>)

AdminProductRoutes == Under(<<"admin", "products">>, <<
  Route("POST", <<>>, "product.create"),
  Route("PATCH", <<"*">>, "product.update"),
  Route("DELETE", <<"*">>, "product.delete"),
  Route("POST", <<"*", "images">>, "image.upload"),
  Route("DELETE", <<"*", "images", "*">>, "image.manage"),
  Route("PATCH", <<"*", "images", "reorder">>, "image.manage")>>)

AdminDealRoutes == Under(<<"admin", "deals">>, <<
  Route("POST", <<>>, "deal.create"),
  Route("PATCH", <<"*">>, "deal.update"),
  Route("DELETE", <<"*">>, "deal.delete")>>)

AdminBulkRoutes == Under(<<"admin", "products", "bulk">>, <<
  Route("POST", <<"visibility">>, "product.update"),
  Route("POST", <<"featured">>, "product.update"),
  Route("POST", <<"availability">>, "product.update"),
  Route("POST", <<"category">>, "product.update"),
  Route("POST", <<"delete">>, "product.delete")>>)

AdminDealStateRoutes == Under(<<"admin", "deals", "*">>, <<
  Route("PATCH", <<"activate">>, "deal.update"),
  Route("PATCH", <<"deactivate">>, "deal.update"),
  Route("PATCH", <<"schedule">>, "deal.update")>>)

CartRoutes == Under(<<"cart">>, <<
  Route("GET", <<>>, "cart.manage_own"),
  Route("GET", <<"summary">>, "cart.manage_own"),
  Route("POST", <<"items">>, "cart.manage_own"),
  Route("PATCH", <<"items", "*">>, "cart.manage_own"),
  Route("DELETE", <<"items", "*">>, "cart.manage_own"),
  Route("DELETE", <<"clear">>, "cart.manage_own"),
  Route("POST", <<"apply-coupon">>, "cart.manage_own"),
  Route("DELETE", <<"remove-coupon">>, "cart.manage_own")>>)

WishlistRoutes == Under(<<"wishlist">>, <<
  Route("GET", <<>>, "wishlist.manage_own"),
  Route("POST", <<>>, "wishlist.manage_own"),
  Route("DELETE", <<"clear">>, "wishlist.manage_own"),
  Route("DELETE", <<"*">>, "wishlist.manage_own")>>)

CheckoutRoutes == <<Route("POST", <<"checkout", "validate">>, "cart.manage_own")>>

KitchenBoards == {"pending", "incoming", "preparing", "ready", "completed", "cancelled"}

KitchenActions == {"accept", "start-preparing", "mark-ready", "complete", "cancel"}

(* build_kitchen_router *)
KitchenRoutes(prefix) ==
  LET Board(b) == Route("GET", <<b>>, "chef")
      Action(a) == Route("POST", <<"*", a>>, "chef")
  IN Under(prefix \o <<"orders">>,
       <<Route("GET", <<>>, "chef")>>
       \o [i \in 1 .. 6 |-> Board(SetToSeq(KitchenBoards)[i])]
       \o <<Route("GET", <<"*">>, "chef"), Route("PATCH", <<"*", "status">>, "chef")>>
       \o [i \in 1 .. 5 |-> Action(SetToSeq(KitchenActions)[i])])

OrderRoutes == Under(<<"orders">>, <<
  Route("POST", <<>>, "order.create"),
  Route("GET", <<>>, "order.read_own"),
  Route("GET", <<"*">>, "order.read_own"),
  Route("GET", <<"*", "tracking">>, "order.track_own"),
  Route("PATCH", <<"*", "cancel">>, "order.create")>>)

(* Mutant: what staff do to an order asks for what its customer may do. *)
AdminOrderRoutesLax == Under(<<"admin", "orders">>, <<
  Route("GET", <<>>, "order.read"),
  Route("PATCH", <<"*", "status">>, "order.create")>>)

AdminOrderRoutes == Under(<<"admin", "orders">>, <<
  Route("GET", <<>>, "order.read"),
  Route("GET", <<"*">>, "order.read"),
  Route("PATCH", <<"*", "status">>, "order.update"),
  Route("PATCH", <<"*", "payment">>, "order.update"),
  Route("PATCH", <<"*", "notes">>, "order.update")>>)

AdminEmailRoutes == <<Route("POST", <<"admin", "test-email">>, "email.test")>>

AdminDashboardRoutes == Under(<<"admin">>, <<
  Route("GET", <<"dashboard">>, "dashboard.read"),
  Route("GET", <<"analytics">>, "analytics.read"),
  Route("GET", <<"charts">>, "analytics.read")>>)

AdminCustomerRoutes == Under(<<"admin", "customers">>, <<
  Route("GET", <<>>, "customer.read"),
  Route("GET", <<"*">>, "customer.read"),
  Route("PATCH", <<"*">>, "customer.update"),
  Route("PATCH", <<"*", "status">>, "customer.update")>>)

AdminCouponRoutes == Under(<<"admin", "coupons">>, <<
  Route("GET", <<>>, "coupon.read"),
  Route("POST", <<>>, "coupon.create"),
  Route("GET", <<"*">>, "coupon.read"),
  Route("PATCH", <<"*">>, "coupon.update"),
  Route("PATCH", <<"*", "enable">>, "coupon.update"),
  Route("PATCH", <<"*", "disable">>, "coupon.update"),
  Route("DELETE", <<"*">>, "coupon.delete"),
  Route("GET", <<"*", "usage">>, "coupon.read")>>)

AdminNotificationRoutes == Under(<<"admin", "notifications">>, <<
  Route("POST", <<>>, "notification.manage"),
  Route("POST", <<"broadcast">>, "notification.manage"),
  Route("DELETE", <<"*">>, "notification.manage")>>)

AdminSettingsRoutes == Under(<<"admin", "settings">>, <<
  Route("GET", <<>>, "settings.read"),
  Route("PUT", <<>>, "settings.update"),
  Route("GET", <<"restaurant">>, "settings.read"),
  Route("GET", <<"*">>, "settings.read"),
  Route("PUT", <<"*">>, "settings.update")>>)

AdminAuditRoutes == <<Route("GET", <<"admin", "audit-logs">>, "audit_log.read")>>

AdminSearchRoutes == <<Route("POST", <<"admin", "search">>, "dashboard.read")>>

(* api_v1_router *)
ApiRoutes ==
  HealthRoutes \o AuthRoutes \o ContactRoutes \o AccountRoutes \o ProfileRoutes
  \o OwnRoutes \o CatalogRoutes \o AdminCategoryRoutes \o AdminProductRoutes
  \o AdminDealRoutes \o AdminBulkRoutes \o AdminDealStateRoutes \o CartRoutes
  \o WishlistRoutes \o CheckoutRoutes \o KitchenRoutes(<<"kitchen">>)
  \o KitchenRoutes(<<"chef">>) \o KitchenRoutes(<<"orders", "kitchen">>)
  \o KitchenRoutes(<<"dashboard", "chef">>) \o OrderRoutes \o AdminOrderRoutes
  \o AdminEmailRoutes \o AdminDashboardRoutes \o AdminCustomerRoutes
  \o AdminCouponRoutes \o AdminNotificationRoutes \o AdminSettingsRoutes
  \o AdminAuditRoutes \o AdminSearchRoutes

(* register_routers *)
AllRoutes == HealthRoutes \o Under(<<"api", "v1">>, ApiRoutes)

-----------------------------------------------------------------------------
CustomerPermissions == {
  "product.read", "category.read", "deal.read", "coupon.read", "cart.manage_own",
  "wishlist.manage_own", "order.create", "order.read_own", "order.track_own",
  "profile.read_own", "profile.update_own", "address.manage_own",
  "notification.read_own", "settings.update_own"}

(* The chef's permissions have the wildcard. *)
HasPermission(role, permission) == role = "chef" \/ permission \in CustomerPermissions

(* The caller: "nobody", or whose token it is: a "barred" one, or one of   *)
(* a user who is "inactive", "unverified", a "customer", the "chef".       *)
Callers == {"nobody", "barred", "inactive", "unverified", "customer", "chef"}

(* Mutant: an account that is not verified is as good as one that is. *)
AllowedUnverified(caller, needs) ==
  caller \in {"unverified", "customer", "chef"} \/ needs = "anyone"

Allowed(caller, needs) ==
  CASE needs = "anyone" -> TRUE
    [] needs = "token" -> caller \notin {"nobody", "barred"}
    [] needs = "user" -> caller \in {"unverified", "customer", "chef"}
    [] needs = "verified" -> caller \in {"customer", "chef"}
    [] needs = "chef" -> caller = "chef"
    [] OTHER -> caller \in {"customer", "chef"} /\ HasPermission(caller, needs)

Matches(route, method, path) ==
  /\ route.method = method /\ Len(route.path) = Len(path)
  /\ \A i \in DOMAIN path : route.path[i] \in {"*", path[i]}

(* Mutant: the routes are mounted without the prefix. *)
ResolveUnprefixed(method, path) ==
  SelectInSeq(ApiRoutes, LAMBDA route : Matches(route, method, path))

(* The first of the routes that matches, 0 when none does. *)
Resolve(method, path) ==
  SelectInSeq(AllRoutes, LAMBDA route : Matches(route, method, path))

=============================================================================
