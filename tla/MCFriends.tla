------------------------------ MODULE MCFriends ------------------------------
EXTENDS Friends

CONSTANTS a, b, v1, v2

OneAsks == {<<a, b>>}
BothAsk == {<<a, b>>, <<b, a>>}
FirstStays == {<<a, v1>>, <<b, v1>>, <<b, v2>>}
=============================================================================
