----------------------------- MODULE MCInteraction -----------------------------
(***************************************************************************)
(* Interaction for TLC: the combinations of plugins that are loaded, and   *)
(* the buttons of their actions.                                           *)
(***************************************************************************)
EXTENDS Interaction

MCCombinations ==
    {{"move", "resize"}, {"move", "opacity"}, {"resize", "mode", "foreign"},
     {"resize", "maximize"}, {"move", "rotate"}, {"scale", "foreign"}, {"scale", "rotate"},
     {"scale", "switcher"}, {"cube", "switcher"}, {"resize", "zoom"},
     {"annotate", "screenshot"}, {"clone", "outputs"}, {"clone", "water"}}

MCBound ==
    [move |-> 1, resize |-> 2, scale |-> 2, rotate |-> 1, zoom |-> 1, pan |-> 2,
     annotate |-> 1, erase |-> 2, screenshot |-> 1, clone |-> 1]

=============================================================================
