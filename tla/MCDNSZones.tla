----------------------------- MODULE MCDNSZones -----------------------------
(* Instances of DNSZones for TLC: two zones, one address per kind of call. *)
EXTENDS DNSZones

Call(kind, k, l, a, b) == [kind |-> kind, zone |-> k, target |-> l, ip |-> a, new |-> b]

\* "m" is moved both ways, added to the first zone and replaced there by "a";
\* "r" is nobody's.
Calls == {Call("move", 1, 2, "m", "m"), Call("move", 2, 1, "m", "m"),
          Call("add", 1, 1, "m", "m"), Call("replace", 1, 1, "m", "a")}

Simple(S) == [adv |-> FALSE, ips |-> S, nodes |-> {}]
Advanced(S) == [adv |-> TRUE, ips |-> {}, nodes |-> S]

Configurations == {<<Simple({"m"}), Simple({"r"})>>,
                   <<Advanced({"m", "r"}), Advanced({"r"})>>,
                   <<Simple({"m"}), Advanced({"r"})>>}
=============================================================================
