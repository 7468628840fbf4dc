----------------------------- MODULE MCInventory -----------------------------
(***************************************************************************)
(* An instance of Inventory for TLC: the two read-only tools of the        *)
(* "plans" toolset, and what the builder is made for beyond them -- a      *)
(* toolset that is off by default and writes, and a tool without handler.  *)
(***************************************************************************)
EXTENDS Inventory

MCTools ==
    {[name |-> "analyze_query", toolset |-> "plans", byDefault |-> TRUE,
      readOnly |-> TRUE, instructs |-> TRUE, handled |-> TRUE],
     [name |-> "get_query_sql", toolset |-> "plans", byDefault |-> TRUE,
      readOnly |-> TRUE, instructs |-> TRUE, handled |-> TRUE],
     [name |-> "kill_query", toolset |-> "admin", byDefault |-> FALSE,
      readOnly |-> FALSE, instructs |-> TRUE, handled |-> TRUE],
     [name |-> "list_nodes", toolset |-> "cluster", byDefault |-> FALSE,
      readOnly |-> TRUE, instructs |-> FALSE, handled |-> FALSE]}

MCToolsetIDs == {"plans", "admin", "cluster", "all"}
==============================================================================
