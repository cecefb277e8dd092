----------------------------- MODULE MCLiterature -----------------------------
(* Two parallel calls and one background search; pacing is between the      *)
(* tools that reach Semantic Scholar.                                        *)
EXTENDS Literature, TLC

===============================================================================
