----------------------------- MODULE MCVerifyRun -----------------------------
(* Instances of VerifyRun: single engines and the ladder in two orders, on *)
(* designs whose rows have every kind of free cone, and on the pair AG p   *)
(* and EF !p, with a firm cone and with an undriven net in both.           *)
EXTENDS VerifyRun

MCLadders == {<<"exact">>, <<"symbolic">>, <<"exact", "symbolic">>, <<"symbolic", "exact">>}

\* A row: truth on the design, truth on the lifted model, class, free parts.
Row(t, l, c, f) == [truth |-> t, lifted |-> l, class |-> c, cone |-> f]

Design(row1, row2, p, u) ==
    LET row == <<row1, row2>>
    IN [truth  |-> [r \in Rows |-> row[r].truth], lifted |-> [r \in Rows |-> row[r].lifted],
        class  |-> [r \in Rows |-> row[r].class], cone   |-> [r \in Rows |-> row[r].cone],
        paired |-> p, unsound |-> u]

\* A violation only the lifted model has.
Spurious(c, f) == Row("holds", "violated", c, f)

MCDesigns ==
    LET Errs == {{}, {"exact"}, {"symbolic"}, {"rescue"}}
        Firm == Row("holds", "holds", "Safety", {})
    IN {Design(Spurious("Safety", {"undriven"}), Firm, FALSE, {}),
        Design(Row("violated", "violated", "Mixed", {"undriven", "uninit"}), Firm, FALSE, {}),
        Design(Spurious("Safety", {"uninit"}), Spurious("Reachability", {"uninit"}), FALSE, {}),
        Design(Spurious("Safety", {"cut"}), Spurious("Liveness", {"uninit"}), FALSE, {})}
       \cup {Design(Firm, Row("violated", "violated", "Reachability", {}), TRUE, u) : u \in Errs}
       \cup {Design(Spurious("Safety", {"undriven"}),
                    Row("violated", "holds", "Reachability", {"undriven"}), TRUE, u) :
               u \in {{}, {"symbolic"}}}
=============================================================================
