------------------------------- MODULE MCPanels -------------------------------
(***************************************************************************)
(* Two connections and a log in which each has rows of two statuses, one   *)
(* more than the audit panel asks for.                                     *)
(***************************************************************************)
EXTENDS Panels, TLC

CONSTANTS c1, c2, none

MCConnections == { c1, c2 }
MCAuditLog ==
    << [ on |-> c1, status |-> "ok" ], [ on |-> c2, status |-> "ok" ],
       [ on |-> c1, status |-> "http_error" ], [ on |-> c2, status |-> "ok" ] >>
=============================================================================
