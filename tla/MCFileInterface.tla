---------------------------- MODULE MCFileInterface ----------------------------
EXTENDS FileInterface

FewData  == {<<>>, <<0>>, <<1>>, <<1, 2>>}
FewFiles == {<<>>, <<1, 2, 1>>}
================================================================================
