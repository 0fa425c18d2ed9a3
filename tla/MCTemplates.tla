----------------------------- MODULE MCTemplates -----------------------------
(***************************************************************************)
(* Instances of Templates; requests, templates, channels and contents are  *)
(* interchangeable.                                                        *)
(***************************************************************************)
EXTENDS Templates, TLC

TemplatesSymmetry ==
    Permutations(Calls) \cup Permutations(Templates) \cup Permutations(Channels)
        \cup Permutations(Contents)
=============================================================================
