---------------------------- MODULE MCFixedView ----------------------------
(* Books of four pages, in both directions: sides left to the spine, sides *)
(* given with two lefts or two rights in a row, a page in the centre; and  *)
(* spreads always, in landscape only, or not for some of the pages.        *)
EXTENDS FixedView

MCBook(rtl, sides, renditions) ==
    [rtl |-> rtl,
     items |-> [i \in 1..4 |-> [side |-> sides[i], rendition |-> renditions[i]]]]

MCSides == {
    <<None, None, None, None>>,
    <<"left", "left", "right", "right">>,
    <<"right", None, "left", None>>,
    <<None, None, "center", None>> }

MCRenditions == {
    <<"both", "both", "both", "both">>,
    <<"landscape", "landscape", "landscape", "landscape">>,
    <<"both", "none", "portrait", "landscape">> }

MCSpines == {MCBook(rtl, sides, renditions) :
    rtl \in BOOLEAN, sides \in MCSides, renditions \in MCRenditions}
=============================================================================
