----------------------------- MODULE MCIdentity -----------------------------
(***************************************************************************)
(* Two requests at a time, over a hybrid policy that may be exchanged for  *)
(* an OIDC-only one at a restart.  A scene is a starting point: the store, *)
(* the sign-ons and desktop requests under way, and the routes that the    *)
(* clients use; together the scenes use every kind of route.               *)
(***************************************************************************)
EXTENDS Identity

RolesOf == [u \in Users |-> IF u = "alice" THEN "admin" ELSE "none"]
PoliciesOf == {Hybrid, [mode |-> "oidc", browser |-> FALSE, bearer |-> FALSE, codes |-> TRUE]}
Scene(b, a, d, rs) ==
    [backend |-> b, events |-> 6, completions |-> 2, attempts |-> a, desktops |-> d, routes |-> rs]
ScenesOf ==
    {Scene("file", 0, {}, {"login", "logout", "revokeSession", "updateNetworkDNS"}),
     Scene("file", 0, {}, {"breakGlassLogin", "revokeCode", "logout"}),
     [Scene("file", 0, {}, {"login", "breakGlassLogin", "revokeSession"}) EXCEPT !.events = 4],
     Scene("postgres", 0, {}, {"breakGlassLogin", "registerCode", "revokeSession"}),
     Scene("file", 1, {}, {"oidcStart", "oidcCallback", "oidcDenied"}),
     [Scene("file", 1, {}, {"oidcStart", "oidcCallback"}) EXCEPT !.completions = 1],
     Scene("file", 0, {"pending"}, {"desktopStart", "desktopDecision", "desktopComplete"}),
     Scene("postgres", 0, {"approved"}, {"desktopComplete", "logout"})}
=============================================================================
