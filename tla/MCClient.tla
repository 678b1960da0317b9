------------------------------ MODULE MCClient ------------------------------
(***************************************************************************)
(* An instance of Client for TLC: a site over plain HTTP, its upgrade, and *)
(* a host below it on a port of its own, all under one public suffix.      *)
(***************************************************************************)
EXTENDS Client

Site(host, tls, port) == [host |-> host, tls |-> tls, port |-> port]

Sites == {Site("shop", FALSE, "default"), Site("shop", TRUE, "default"),
          Site("api.shop", TRUE, "8443")}

Above == [h \in {"shop", "api.shop"} |-> IF h = "shop" THEN {"tld"} ELSE {"shop", "tld"}]

=============================================================================
