----------------------------- MODULE CallGraph -----------------------------
(***************************************************************************)
(* The call graph the client builds from the call events of one thread     *)
(* (call_graph.cpp) and the profile the Callgrind converter prints of it.  *)
(*                                                                         *)
(* A graph is a sequence of nodes in the order of their creation, so the   *)
(* children of a node are the later nodes whose parent it is; node 0 is no *)
(* node.  A call is a record [label, start, stop].                         *)
(***************************************************************************)
EXTENDS Integers, Sequences, FiniteSets, SequencesExt

Duration(c) == c.stop - c.start

NewNode(c, parent) ==
  [label |-> c.label, start |-> c.start, stop |-> c.stop, parent |-> parent,
   total |-> Duration(c), children |-> 0, calls |-> 1]

\* _add_new_call: a call of a function its caller has called before is added
\* to the node of that function, which takes the times of the newer call.
AddNewCall(g, c, parent) ==
  LET same == {n \in DOMAIN g.nodes : g.nodes[n].parent = parent /\ g.nodes[n].label = c.label}
  IN  IF same = {}
      THEN [nodes |-> Append(g.nodes, NewNode(c, parent)), current |-> Len(g.nodes) + 1]
      ELSE LET n == CHOOSE n \in same : TRUE
           IN  [nodes |-> [g.nodes EXCEPT ![n].total = @ + Duration(c),
                                          ![n].start = c.start, ![n].stop = c.stop,
                                          ![n].calls = @ + 1],
                current |-> n]

Encloses(node, c) == node.start <= c.start /\ c.stop <= node.stop

\* A search that stops at the current call instead of climbing to its callers.
CallerFlat(g, c) ==
  IF g.current # 0 /\ Encloses(g.nodes[g.current], c) THEN g.current ELSE 0

\* The first of the current call and its callers that contains c, or 0: the
\* loop of _try_add_event_to_existing_calltree.
Caller(g, c) ==
  LET up[n \in 0..Len(g.nodes)] ==
        IF n = 0 \/ Encloses(g.nodes[n], c) THEN n ELSE up[g.nodes[n].parent]
  IN  up[g.current]

\* _add_new_calltree and _add_new_event_call
AddNewCalltree(g, c) == AddNewCall(g, c, 0)

AddNewEventCall(g, caller, c) ==
  AddNewCall([g EXCEPT !.nodes[caller].children = @ + Duration(c)], c, caller)

\* _add_event
AddEvent(g, c) ==
  LET caller == Caller(g, c)
  IN  IF caller = 0 THEN AddNewCalltree(g, c) ELSE AddNewEventCall(g, caller, c)

\* The orders std::sort may leave the calls in: it compares the start times
\* and is not stable.
Sorts(calls) ==
  {q \in {[i \in DOMAIN calls |-> calls[p[i]]] :
             p \in {f \in [DOMAIN calls -> DOMAIN calls] : IsInjective(f)}} :
     \A i, j \in DOMAIN q : i < j => q[i].start <= q[j].start}

\* make, for calls that are already in order.
Make(sorted) ==
  FoldLeft(AddEvent, [nodes |-> << >>, current |-> 0], sorted).nodes

\* The labels of the calls from node n up to its root: the function name the
\* converter prints, label()'caller()'...
PathOf(nodes) ==
  LET path[n \in 0..Len(nodes)] ==
        IF n = 0 THEN << >> ELSE << nodes[n].label >> \o path[nodes[n].parent]
  IN  path

\* _print_function for every root: the cost of each function without its
\* callees, and for each call edge how often and how long it was taken.
Report(nodes) ==
  LET path == PathOf(nodes)
  IN  [functions |-> {[name |-> path[n], self |-> nodes[n].total - nodes[n].children] :
                        n \in DOMAIN nodes},
       edges     |-> {[name |-> path[n], calls |-> nodes[n].calls, total |-> nodes[n].total] :
                        n \in {m \in DOMAIN nodes : nodes[m].parent # 0}}]

=============================================================================
