------------------------------ MODULE Migrations ------------------------------
(***************************************************************************)
(* The Alembic revisions, as what they do to the schema, and the schema    *)
(* the SQLAlchemy models declare. An object of a schema is a pair: a table *)
(* or enum type and "", or it and a column, constraint, index or value of  *)
(* it. Only those are named that are unique, that a later revision or a    *)
(* downgrade touches, or that some revision adds to an older table.        *)
(***************************************************************************)
EXTENDS Integers, SequencesExt

(* One operation; refs: the tables that its foreign keys refer to.         *)
Op(do, table, names, refs) == [do |-> do, table |-> table, names |-> names, refs |-> refs]

Table(t, refs, names) == Op("create", t, names, refs)
Type(t, values) == Op("create", t, values, {})
Add(t, names) == Op("add", t, names, {})
Link(t, names, refs) == Op("add", t, names, refs)
Ensure(t, values) == Op("ensure", t, values, {})     \* IF NOT EXISTS, checkfirst
Unlink(t, names, refs) == Op("take", t, names, refs)
Take(t, names) == Op("take", t, names, {})
Drop(t) == Op("drop", t, {}, {})
Discard(t) == Op("discard", t, {}, {})               \* IF EXISTS, checkfirst

Pairs(op) == {<<op.table, n>> : n \in op.names}
Created(op) == {<<op.table, "">>} \cup Pairs(op)
Links(op) == {<<op.table, r>> : r \in op.refs}
Without(pairs, t) == {p \in pairs : p[1] # t}

(* A schema: its objects, its foreign keys, and whether an operation was    *)
(* refused on the way. PostgreSQL refuses to create what is there, to       *)
(* change or drop what is not, and to drop what another table refers to.   *)
Schema(objects, links, ok) == [objects |-> objects, links |-> links, ok |-> ok]
Nothing == Schema({}, {}, TRUE)

Possible(s, op) ==
  LET there == <<op.table, "">> \in s.objects
      refsThere == \A r \in op.refs \ {op.table} : <<r, "">> \in s.objects
  IN CASE op.do = "create" -> ~there /\ refsThere
       [] op.do = "add" -> there /\ refsThere /\ Pairs(op) \cap s.objects = {}
       [] op.do = "take" -> Pairs(op) \subseteq s.objects
       [] op.do = "drop" -> there /\ ~\E l \in s.links : l[2] = op.table /\ l[1] # op.table
       [] OTHER -> TRUE

Apply(s, op) ==
  IF ~s.ok \/ ~Possible(s, op) THEN [s EXCEPT !.ok = FALSE]
  ELSE CASE op.do \in {"create", "ensure"} ->
              Schema(s.objects \cup Created(op), s.links \cup Links(op), TRUE)
         [] op.do = "add" -> Schema(s.objects \cup Pairs(op), s.links \cup Links(op), TRUE)
         [] op.do = "take" -> Schema(s.objects \ Pairs(op), s.links \ Links(op), TRUE)
         [] OTHER -> Schema(Without(s.objects, op.table), Without(s.links, op.table), TRUE)

Run(s, ops) == IF s.ok THEN FoldLeft(Apply, s, ops) ELSE s

-----------------------------------------------------------------------------
(* ed72b3fc94e8: the first schema. *)

FirstTypes ==
  Type("types of ed72b3fc94e8", {})

MenuAndUserTables == <<
  Table("categories", {}, {"uq_categories_slug_active"}),
  Table("coupons", {}, {"uq_coupons_code_active"}),
  Table("deals", {}, {"uq_deals_slug_active"}),
  Table("otp_logs", {}, {"code_hash", "ix_otp_logs"}),
  Table("system_settings", {}, {"uq_system_settings_key_active"}),
  Table("users", {}, {"uq_users_email_active", "uq_users_phone_active",
                      "phone required", "role owner"}) >>

AccountTables == <<
  Table("variant_options", {}, {"uq_variant_options_slug_active"}),
  Table("addresses", {"users"}, {"uq_addresses_default_per_user", "notes"}),
  Table("audit_logs", {"users"}, {}),
  Table("carts", {"users"}, {"uq_carts_user_active"}),
  Table("notification_preferences", {"users"}, {"uq_notification_preferences_user_active"}),
  Table("notifications", {"users"}, {}) >>

ProductTables == <<
  Table("products", {"categories"}, {"uq_products_slug_active"}),
  Table("wishlists", {"users"}, {"uq_wishlists_user_active"}),
  Table("deal_products", {"deals", "products"}, {"uq_deal_products_deal_product"}),
  Table("orders", {"addresses", "coupons", "users"}, {"uq_orders_order_number_active"}),
  Table("product_images", {"products"},
        {"uq_product_images_primary", "uq_product_images_product_order_active"}),
  Table("product_options", {"products", "variant_options"}, {"uq_product_options_product_option"}),
  Table("product_variants", {"products"}, {"uq_product_variants_product_size"}) >>

ItemTables == <<
  Table("wishlist_items", {"products", "wishlists"}, {"uq_wishlist_items_wishlist_product"}),
  Table("cart_items", {"carts", "products", "product_variants"}, {"notes"}),
  Table("coupon_usages", {"coupons", "orders", "users"}, {"uq_coupon_usages_coupon_order"}),
  Table("order_items", {"orders", "products", "product_variants"}, {}),
  Table("cart_item_extras", {"cart_items", "variant_options"}, {"uq_cart_item_extras_item_option"}),
  Table("order_item_extras", {"order_items", "variant_options"}, {}) >>

FirstTables == MenuAndUserTables \o AccountTables \o ProductTables \o ItemTables

(* The indexes of a table are dropped by name before it; the types stay.   *)
DropFirstTables ==
  FlattenSeq([i \in 1..Len(FirstTables) |->
    LET t == FirstTables[Len(FirstTables) + 1 - i].table IN
    (IF t = "otp_logs" THEN << Take(t, {"ix_otp_logs"}) >> ELSE <<>>) \o << Drop(t) >>])

(* 7e1e98e95ace: pairs are unique among the rows that are not deleted.     *)
Repaired == <<
  <<"cart_item_extras", "uq_cart_item_extras_item_option">>,
  <<"coupon_usages", "uq_coupon_usages_coupon_order">>,
  <<"deal_products", "uq_deal_products_deal_product">>,
  <<"product_options", "uq_product_options_product_option">>,
  <<"product_variants", "uq_product_variants_product_size">>,
  <<"wishlist_items", "uq_wishlist_items_wishlist_product">> >>

UniqueAmongLive == FlattenSeq([i \in 1..6 |-> LET t == Repaired[i][1]  c == Repaired[i][2] IN
  << Take(t, {c}), Add(t, {c \o "_active"}) >>])

UniqueAmongAll == FlattenSeq([j \in 1..6 |->
  LET t == Repaired[7 - j][1]  c == Repaired[7 - j][2] IN
  << Take(t, {c \o "_active"}), Add(t, {c}) >>])

(* 6335ba01e31c *)
AddressColumns == {"recipient_name", "phone_number", "area", "delivery_notes"}

UserModule == <<
  Table("user_preferences", {"users"}, {"uq_user_preferences_user_active"}),
  Drop("notification_preferences"),
  Add("addresses", AddressColumns), Take("addresses", {"notes"}),
  Add("users", {"avatar_public_id"}) >>

DropUserModule == <<
  Take("users", {"avatar_public_id"}),
  Add("addresses", {"notes"}), Take("addresses", AddressColumns),
  Table("notification_preferences", {"users"}, {"uq_notification_preferences_user_active"}),
  Drop("user_preferences") >>

(* cb465f3c33d6: the values of deal_type are added outside a transaction.   *)
Seo == {"image_public_id", "seo_title", "seo_description", "seo_keywords"}
DealColumns == {"discount_percent", "image_public_id", "is_visible"}
VariantColumns == {"discount_price", "preparation_time_minutes"}
ProductColumns ==
  Seo \cup {"short_description", "stock_status", "is_best_seller", "sort_order", "tags"}

ProductModule == <<
  Ensure("deal_type", {"weekend", "festival"}), Ensure("stock_status", {}),
  Add("categories", Seo), Add("deals", DealColumns),
  Add("product_images", {"public_id", "uq_product_images_public_id_active"}),
  Add("product_variants", VariantColumns), Add("products", ProductColumns) >>

DropProductModule == <<
  Take("products", ProductColumns), Take("product_variants", VariantColumns),
  Take("product_images", {"public_id", "uq_product_images_public_id_active"}),
  Take("deals", DealColumns), Take("categories", Seo), Discard("stock_status") >>

(* 89e7910d3eed *)
CartColumns == {"status", "currency", "notes", "last_activity", "coupon_id", "subtotal",
  "discount", "delivery_fee", "tax", "grand_total"}
LineColumns == {"discount_price", "special_instructions"}

(* Mutant: the downgrade forgets the columns of the lines. *)
DropCarts == << Unlink("carts", CartColumns, {"coupons"}), Add("cart_items", {"notes"}) >>

CartModule == <<
  Ensure("cart_status", {}),
  Add("cart_items", LineColumns), Take("cart_items", {"notes"}),
  Link("carts", CartColumns, {"coupons"}) >>

DropCartModule == <<
  Unlink("carts", CartColumns, {"coupons"}),
  Add("cart_items", {"notes"}), Take("cart_items", LineColumns), Discard("cart_status") >>

(* 48fcbb9cf907: values added outside a transaction again.                  *)
OrderColumns == {"currency", "kitchen_notes", "internal_notes",
  "estimated_preparation_minutes", "coupon_code"}
OrderLineColumns == {"image_url", "discount_price", "preparation_time_minutes"}

OrderModule == <<
  Ensure("order_status", {"ready"}), Ensure("payment_status", {"cancelled"}),
  Table("order_number_sequences", {}, {"uq_order_number_sequences_year"}),
  Table("order_timeline_events", {"orders"}, {}),
  Add("order_items", OrderLineColumns), Add("orders", OrderColumns) >>

DropOrderModule == <<
  Take("orders", OrderColumns), Take("order_items", OrderLineColumns),
  Drop("order_timeline_events"), Drop("order_number_sequences") >>

(* d789ba8517ef *)
EmailLogs == << Type("email_template_key", {}), Type("email_delivery_status", {}),
                Table("email_logs", {"orders"}, {}) >>
DropEmailLogs == << Drop("email_logs"), Discard("email_template_key"),
                    Discard("email_delivery_status") >>

(* a1b2c3d4e5f6 *)
Composite == <<
  Add("orders", {"ix_orders_user_created", "ix_orders_status_created"}),
  Add("notifications", {"ix_notifications_user_created"}),
  Add("products", {"ix_products_visible_featured_sort", "ix_products_visible_popular"}) >>
DropComposite == [i \in 1..3 |-> Take(Composite[4 - i].table, Composite[4 - i].names)]

(* b2c3d4e5f6a7: passwords, and the chef. What it drops of otp_logs its     *)
(* downgrade does not bring back whole.                                     *)
Password == {"first_name", "last_name", "password_hash", "email required"}
UserIndexes == {"uq_users_phone_active", "uq_users_email_active"}

(* Mutant: one of the indexes is not built again. *)
ChefAndEmails == <<
  Take("users", {"role owner"}), Add("users", {"role chef"}),
  Add("users", Password), Take("users", {"phone required"}),
  Take("users", UserIndexes), Add("users", {"uq_users_email_active"}), Drop("otp_logs") >>

ChefAndPasswords == <<
  Take("users", {"role owner"}), Add("users", {"role chef"}),
  Add("users", Password), Take("users", {"phone required"}),
  Take("users", UserIndexes), Add("users", UserIndexes), Drop("otp_logs") >>

DropChefAndPasswords == <<
  Table("otp_logs", {}, {}),
  Take("users", UserIndexes), Add("users", UserIndexes),
  Add("users", {"phone required"}), Take("users", Password),
  Take("users", {"role chef"}), Add("users", {"role owner"}) >>

(* c3d4e5f6a7b8 *)
BrevoTemplates == {"welcome", "order_notification", "contact_notification",
  "contact_confirmation", "admin_test"}
Contact == << Ensure("email_template_key", BrevoTemplates), Table("contact_messages", {}, {}) >>
DropContact == << Drop("contact_messages") >>

(* d4e5f6a7b8c9 *)
Position == {"latitude", "longitude", "gps_accuracy"}
Gps == << Add("orders", Position) >>
DropGps == << Take("orders", Position) >>

Upgrades == << <<FirstTypes>> \o FirstTables, UniqueAmongLive, UserModule, ProductModule,
  CartModule, OrderModule, EmailLogs, Composite, ChefAndPasswords, Contact, Gps >>
Downgrades == << DropFirstTables, UniqueAmongAll, DropUserModule, DropProductModule,
  DropCartModule, DropOrderModule, DropEmailLogs, DropComposite, DropChefAndPasswords,
  DropContact, DropGps >>

Base == 0
Latest == Len(Upgrades)

(* Upgrading from one revision to another, in one go. *)
Upgraded(s, from, to) == FoldLeft(Run, s, SubSeq(Upgrades, from + 1, to))

(* env.py runs all revisions in one transaction, which autocommit_block     *)
(* commits where ProductModule and OrderModule begin.                       *)
CommitPoint(rev) == IF rev < 3 THEN 3 ELSE IF rev < 5 THEN 5 ELSE Latest

-----------------------------------------------------------------------------
(* What the models declare. *)

UserModels == <<
  Table("users", {}, UserIndexes \cup Password \cup {"role chef", "avatar_public_id"}),
  Table("addresses", {"users"}, {"uq_addresses_default_per_user"} \cup AddressColumns) >>
NotificationModels == <<
  Table("notifications", {"users"}, {"ix_notifications_user_created"}),
  Table("user_preferences", {"users"}, {"uq_user_preferences_user_active"}) >>
MenuModels == <<
  Table("categories", {}, {"uq_categories_slug_active"} \cup Seo),
  Table("products", {"categories"}, {"uq_products_slug_active"} \cup ProductColumns
    \cup {"ix_products_visible_featured_sort", "ix_products_visible_popular"}) >>
ProductModels == <<
  Table("product_images", {"products"}, {"uq_product_images_primary", "public_id",
    "uq_product_images_product_order_active", "uq_product_images_public_id_active"}),
  Table("product_variants", {"products"},
    {"uq_product_variants_product_size_active"} \cup VariantColumns),
  Table("variant_options", {}, {"uq_variant_options_slug_active"}),
  Table("product_options", {"products", "variant_options"},
    {"uq_product_options_product_option_active"}) >>
DealModels == <<
  Table("deals", {}, {"uq_deals_slug_active"} \cup DealColumns),
  Table("deal_products", {"deals", "products"}, {"uq_deal_products_deal_product_active"}) >>
CouponModels == <<
  Table("coupons", {}, {"uq_coupons_code_active"}),
  Table("coupon_usages", {"coupons", "orders", "users"},
    {"uq_coupon_usages_coupon_order_active"}) >>
CartModels == <<
  Table("carts", {"users", "coupons"}, {"uq_carts_user_active"} \cup CartColumns),
  Table("cart_items", {"carts", "products", "product_variants"}, LineColumns),
  Table("cart_item_extras", {"cart_items", "variant_options"},
    {"uq_cart_item_extras_item_option_active"}) >>
WishlistModels == <<
  Table("wishlists", {"users"}, {"uq_wishlists_user_active"}),
  Table("wishlist_items", {"products", "wishlists"},
    {"uq_wishlist_items_wishlist_product_active"}) >>
OrderModels == <<
  Table("orders", {"addresses", "coupons", "users"}, {"uq_orders_order_number_active",
    "ix_orders_user_created", "ix_orders_status_created"} \cup OrderColumns \cup Position) >>
OrderLineModels == <<
  Table("order_items", {"orders", "products", "product_variants"}, OrderLineColumns),
  Table("order_item_extras", {"order_items", "variant_options"}, {}),
  Table("order_timeline_events", {"orders"}, {}),
  Table("order_number_sequences", {}, {"uq_order_number_sequences_year"}) >>
OtherModels == <<
  Table("audit_logs", {"users"}, {}), Table("contact_messages", {}, {}),
  Table("email_logs", {"orders"}, {}),
  Table("system_settings", {}, {"uq_system_settings_key_active"}) >>
EnumModels == <<
  FirstTypes, Type("deal_type", {"weekend", "festival"}), Type("stock_status", {}),
  Type("cart_status", {}), Type("order_status", {"ready"}),
  Type("payment_status", {"cancelled"}), Type("email_template_key", BrevoTemplates),
  Type("email_delivery_status", {}) >>

Models == ToSet(UserModels \o NotificationModels \o MenuModels \o ProductModels
  \o DealModels \o CouponModels
  \o CartModels \o WishlistModels \o OrderModels \o OrderLineModels
  \o OtherModels \o EnumModels)

ModelObjects == UNION {Created(m) : m \in Models}

(* Base.metadata.create_all: every table and type that is missing, whole;   *)
(* nothing is added to those that are there.                                *)
CreateAll(s) ==
  LET missing == {m \in Models : <<m.table, "">> \notin s.objects} IN
  Schema(s.objects \cup UNION {Created(m) : m \in missing},
         s.links \cup UNION {Links(m) : m \in missing}, TRUE)

-----------------------------------------------------------------------------
(* A database: its schema, and the revision that alembic_version names.     *)

EmptyDatabase == [schema |-> Nothing, rev |-> Base, versioned |-> FALSE]

(* The revisions up to the next commit; one revision taken back; the tables *)
(* made from the models.                                                    *)
Advanced(d) ==
  LET to == CommitPoint(d.rev) IN
  [schema |-> Upgraded(d.schema, d.rev, to), rev |-> to, versioned |-> TRUE]

TakenBack(d) == [d EXCEPT !.schema = Run(@, Downgrades[d.rev]), !.rev = @ - 1]

Filled(d) == [d EXCEPT !.schema = CreateAll(@)]

(* What the revisions up to one make of nothing. *)
SchemaAt[rev \in Base..Latest] ==
  IF rev = Base THEN Nothing ELSE Run(SchemaAt[rev - 1], Upgrades[rev])

(* What downgrades leave: enum types and values that cannot be, or are not, *)
(* removed; and what they do not bring back.                                *)
Leftover == {p \in ModelObjects : p[1] \in {"types of ed72b3fc94e8", "deal_type",
  "order_status", "payment_status", "email_template_key"}}
Lost == {<<"otp_logs", "code_hash">>, <<"otp_logs", "ix_otp_logs">>}

ServesModels(d) == ModelObjects \subseteq d.schema.objects

ToldByVersion(d) ==
  /\ d.schema.objects \subseteq SchemaAt[d.rev].objects \cup Leftover
  /\ SchemaAt[d.rev].objects \subseteq d.schema.objects \cup Lost
  /\ d.rev = Latest => d.schema.objects = ModelObjects

CanBeUpgraded(d) == Upgraded(d.schema, d.rev, Latest).ok

=============================================================================
