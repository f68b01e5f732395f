------------------------------- MODULE MCBridge -------------------------------
(* Small instances of Bridge. *)
EXTENDS Bridge, TLC

CONSTANTS a1, a2, p1, p2

\* Two apps that use the pipe, one that falls back to scripts, one that needs a
\* service another app stops, and pairs that start, stop, install and remove it.
MCWorkloads ==
  {(a1 :> {"apply"}) @@ (a2 :> {"ping"}),
   (a1 :> {"priority"}) @@ (a2 :> {}),
   (a1 :> {"affinity"}) @@ (a2 :> {"stop"}),
   (a1 :> {"start"}) @@ (a2 :> {"stop"}),
   (a1 :> {"install"}) @@ (a2 :> {"uninstall"}),
   (a1 :> {"uninstall"}) @@ (a2 :> {"uninstall"})}

OneRule == (p1 :> 1) @@ (p2 :> 1)
TwoRules == (p1 :> 1) @@ (p2 :> 2)

\* One process needs the service, or not even that helps.
MCRights == {(p1 :> r) @@ (p2 :> "open") : r \in {"denied", "protected"}}
=============================================================================
