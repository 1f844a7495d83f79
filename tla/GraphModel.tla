------------------------------ MODULE GraphModel ------------------------------
(***************************************************************************)
(* BaseGraphNodeModel (models/graph_node.py) as a whole: save and delete,  *)
(* which keep the counters of GraphNode, and the walks of GraphWalk.       *)
(*                                                                         *)
(* The walks have a table of their own.  They read other columns than      *)
(* GraphNode writes, and start on tables that save and delete alone do not *)
(* make: other statements write parent_id, too.                            *)
(***************************************************************************)
EXTENDS GraphNode

CONSTANTS
  MaxDepth, NamespaceOf, SafetyLimit, Limits, MaxChanges  \* those of GraphWalk

VARIABLES
  table,                       \* the rows walked over
  call, found, queue, changes  \* the walk

walkvars == <<table, call, found, queue, changes>>

Walk == INSTANCE GraphWalk WITH row <- table
ASSUME WalkAssumption == Walk!GraphWalkAssumption

\* A walk, while nobody counts children.
WalkNext == Walk!Next /\ UNCHANGED vars
WalkStep == (Walk!Ascend \/ Walk!Descend) /\ UNCHANGED vars
WalkSpec ==
  Init /\ Walk!Init /\ [][WalkNext]_<<vars, walkvars>> /\ WF_<<vars, walkvars>>(WalkStep)

(* Of the walks GraphWalk says:                                              *)

\* A walk keeps its types, and ends by a result or a GraphError.
WalkTypeOK == Walk!TypeOK

\* It takes no node twice, and each by a link to one it took before.
WalksFollowLinks == Walk!WalksFollowLinks

\* It returns what the links say if the table keeps still.
QuietWalksAreExact == Walk!QuietWalksAreExact

\* With max_depth a subtree goes no deeper, as the docstring has it.
WithinMaxDepth == Walk!WithinMaxDepth

\* A path comes from the root down where depth was kept.
RootFirst == Walk!RootFirst

\* A path comes from the root down, as the docstring has it.
PathFromRoot == Walk!PathFromRoot

\* It ends.
WalksEnd == Walk!WalksEnd
=============================================================================
