------------------------------ MODULE MCViews -------------------------------
(* Small instances of Views for TLC.                                        *)
EXTENDS Views

FewRoots == {<<2, 4>>, <<2, 1, 3>>}
FewShapes ==
    {<<8>>, <<6>>, <<2, 4>>, <<4, 2>>, <<2, 3>>, <<3, 2>>, <<2, 2, 2>>, <<2, 2, 3>>, <<1, 8>>}
FewKeys ==
    {<<At(1)>>, <<Dots, At(-1)>>, <<From(1, 3)>>, <<Dots, From(1, 3)>>, <<Whole, At(0)>>,
     <<Dots, From(-1, 9)>>, <<At(5)>>, <<Dots, Dots>>}
FewPads ==
    {Every(1), Each(<<<<0, 1>>, <<1, 0>>>>), Each(<<<<0, 0>>, <<0, 0>>>>),
     Each(<<<<-1, 1>>, <<1, 0>>>>)}
=============================================================================
