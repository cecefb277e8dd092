------------------------------ MODULE MCNotebook ------------------------------
(* Two pillars, the second one after the verdict, around which a custom     *)
(* section is authored.  A raw notebook may hold any one cell, or a pillar's *)
(* cells in the wrong order, one without a name and one name twice.         *)
EXTENDS Notebook, TLC

TwoPillars == {"doe", "analysis"}
WithVerdict == <<"doe", "verdict", "analysis">>
RawExamples ==
  {<<Cell(n, t)>> : n \in Names, t \in Texts}
    \cup {<<Cell(Main(s), t), Cell(NoName, t), Cell(Why(s), t)>> : s \in Pillars, t \in Texts}
    \cup {<<Cell(Main("caveat"), t), Cell(Main("doe"), t), Cell(Main("caveat"), u)>> :
            t, u \in Texts}
===============================================================================
