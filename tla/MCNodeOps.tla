----------------------------- MODULE MCNodeOps -----------------------------
(* Instances of NodeOps for TLC: two Nodes behind the first of two Hosts. *)
EXTENDS NodeOps

Job(kind, n, a, b, g, h) ==
  [kind |-> kind, node |-> n, old |-> a, new |-> b, from |-> g, host |-> h]

FirstHost == [n \in Nodes |-> "h1"]
OwnAddr == [n \in Nodes |-> IF n = "n1" THEN "a" ELSE "b"]

Pairs(S) == {p \in S \X S : p[1] # p[2]}

Replacements(n, S) == {Job("replace", n, p[1], p[2], "h1", "h1") : p \in Pairs(S)}
Syncs(n, S) == {Job("sync", n, a, a, "h1", "h1") : a \in S}
Moves(n) == {Job("move", n, "b", "b", p[1], p[2]) : p \in Pairs(Hosts)}

\* Operators edit n2 in the panel.
SecondEdited == [n \in Nodes |-> IF n = "n2" THEN {"b", "d"} ELSE {}]
NoEdits == [n \in Nodes |-> {}]

\* Both goroutines replace the address of n1; one also synchronizes and moves n2.
ManyJobs == [w \in Workers |->
  Replacements("n1", {"a", "c"})
    \cup IF w = "w1" THEN Syncs("n2", {"b", "d"}) \cup Moves("n2") ELSE {}]

\* w1, the update loop, synchronizes n1; w2, the task that configures a new
\* address on the server, replaces its address.
SyncAndReplace == [w \in Workers |->
  IF w = "w1" THEN Syncs("n1", {"a", "c"}) ELSE Replacements("n1", {"a", "c"})]
=============================================================================
