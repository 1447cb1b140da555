------------------------------- MODULE Routes -------------------------------
(***************************************************************************)
(* The routing table of the gateway: the one place that says who may ask   *)
(* for what.  "*" in a pattern stands for any one segment.                 *)
(***************************************************************************)
EXTENDS Sequences, FiniteSets

Admin == {"admin"}
Staff == {"admin", "manager"}
Everyone == {"admin", "manager", "specialist"}

Way(method, pattern, upstream, roles) ==
  [method |-> method, pattern |-> pattern, upstream |-> upstream, roles |-> roles]

\* Patterns <<a, "*">> and <<a, "*", b>>: something known by its id, and a part of it.
One(a) == <<a, "*">>
Part(a, b) == <<a, "*", b>>

CoreRoutes ==
  { Way("POST", <<"companies">>, "core", Admin),
    Way("POST", Part("companies", "branches"), "core", Admin),
    Way("POST", Part("branches", "employees"), "core", Admin),
    Way("GET", Part("branches", "employees"), "core", Staff),
    Way("GET", Part("employees", "schedule"), "core", Everyone) }

CatalogRoutes ==
  { Way("POST", <<"services">>, "catalog", Staff),
    Way("GET", One("services"), "catalog", Everyone),
    Way("GET", Part("branches", "services"), "catalog", Everyone),
    Way("PUT", Part("services", "price"), "catalog", Admin) }

BookingRoutes ==
  { Way("GET", Part("branches", "slots"), "booking", Everyone),
    Way("POST", <<"appointments">>, "booking", Staff),
    Way("GET", One("appointments"), "booking", Everyone),
    Way("POST", Part("appointments", "complete"), "booking", Everyone),
    Way("POST", Part("appointments", "cancel"), "booking", Staff) }

ClientRoutes ==
  { Way("POST", <<"clients">>, "client", Staff),
    Way("GET", <<"clients">>, "client", Staff),
    Way("GET", One("clients"), "client", Staff),
    Way("GET", Part("clients", "loyalty"), "client", Staff) }

InventoryRoutes ==
  { Way("GET", Part("branches", "stock"), "inventory", Staff),
    Way("GET", Part("branches", "stock") \o <<"low">>, "inventory", Staff),
    Way("POST", Part("branches", "stock") \o <<"replenish">>, "inventory", Staff),
    Way("PUT", Part("branches", "stock") \o <<"*", "threshold">>, "inventory", Admin) }

BillingRoutes ==
  { Way("GET", One("invoices"), "billing", Staff),
    Way("POST", Part("invoices", "pay"), "billing", Admin),
    Way("GET", Part("branches", "invoices"), "billing", Staff),
    Way("GET", Part("employees", "commission"), "billing", Everyone) }

NotificationRoutes ==
  { Way("POST", <<"notifications">>, "notification", Staff),
    Way("GET", One("notifications"), "notification", Staff),
    Way("GET", <<"templates">>, "notification", Everyone) }

AnalyticsRoutes ==
  { Way("GET", Part("branches", "revenue"), "analytics", Staff),
    Way("GET", Part("branches", "funnel"), "analytics", Staff),
    Way("GET", Part("employees", "workload"), "analytics", Everyone),
    Way("GET", <<"reports", "consumables">>, "analytics", Staff) }

Table ==
  UNION { CoreRoutes, CatalogRoutes, BookingRoutes, ClientRoutes, InventoryRoutes,
          BillingRoutes, NotificationRoutes, AnalyticsRoutes }

=============================================================================
