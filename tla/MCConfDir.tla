----------------------------- MODULE MCConfDir -----------------------------
(* A directory of two files and room for a third.                          *)
EXTENDS ConfDir

MCNames == {"a", "A"}
MCLower == [n \in MCNames |-> "a"]
MCHosting == [out |-> {}, routing |-> {2}]

One(n) == [tag |-> <<n>>, body |-> 0]
Names2(list, n) == [list |-> list, tag |-> <<n>>]
MCRoutingRefs == {{Names2("out", "A")}, {Names2("in", "a")}}

Empty == [in |-> NoList, out |-> NoList, routing |-> NoSection]
Inbound(n) == [Empty EXCEPT !.in = <<One(n)>>]
Outbound(n) == [Empty EXCEPT !.out = <<One(n)>>]

(* An inbound in a later file than the one new ones go to; outbounds in    *)
(* both files; a routing section that a later file overrides.              *)
MCInitDisks == {
    <<Empty, Inbound("a"), NoFile>>,
    <<[Outbound("a") EXCEPT !.in = <<One("a"), One("A")>>], Empty, NoFile>>,
    <<[Empty EXCEPT !.routing = {Names2("in", "a")}],
      [Outbound("A") EXCEPT !.routing = {Names2("out", "a")}], NoFile>> }

MCOutsideFiles == {Broken, Inbound("a"), [Outbound("a") EXCEPT !.routing = {Names2("out", "a")}]}
=============================================================================
