--------------------------- MODULE MCGraphSearch ---------------------------
(* Values of the constants of GraphSearch for TLC. *)
EXTENDS GraphSearch

CONSTANTS company, product, input, rival

Link(a, b, type, weight) == [from |-> a, to |-> b, type |-> type, weight |-> weight]

\* Two kinds of edges between input and product, detours, a doubled edge, a loop.
MCUniverse == <<
  Link(company, rival, "COMPETES_WITH", 46),
  Link(input, company, "AFFECTED_BY", 67),
  Link(input, product, "AFFECTED_BY", 67),
  Link(input, product, "SUPPLIES", 78),
  Link(product, company, "DEPENDS_ON", 71),
  Link(product, product, "AFFECTED_BY", 67),
  Link(product, rival, "SUPPLIES", 78),
  Link(rival, company, "COMPETES_WITH", 46) >>
=============================================================================
