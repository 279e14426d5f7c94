------------------------------ MODULE MCWatch ------------------------------
(* A file and a journal, two rules of which the first shadows the second,  *)
(* and a text that matches neither; or an archive beside the two.          *)
EXTENDS Watch

CONSTANTS file, archive, journal, a, b

MCSources == {file, journal}
MCThree == {file, archive, journal}
MCArchives == {archive}
MCPipes == {journal}
MCTexts == {a, b}
MCOneText == {a}
MCRules == <<{a}, {a}>>
MCOneRule == <<{a}>>
MCKeys == {1, 2} \X MCSources \X MCTexts
MCKeysThree == {1} \X MCThree \X MCOneText
MCTimeMin == -9
MCStamps == {-9, 0, 2}
=============================================================================
