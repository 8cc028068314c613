---------------------------- MODULE MCProxyCache ----------------------------
(* Instances of ProxyCache for TLC. *)
EXTENDS ProxyCache

\* One reply per outcome: stored as a 200, stored as a 4xx, not stored.
MCReplies ==
  {[status |-> 200, body |-> "whole"], [status |-> 404, body |-> "whole"],
   [status |-> 502, body |-> "empty"]}
=============================================================================
