---------------------------- MODULE MCWebsocket ----------------------------
EXTENDS Websocket, TLC

CONSTANTS s1, s2, w1, w2, w3, t1, t2

OneSlot == {s1}
TwoSlots == {s1, s2}
TwoWebsocks == {w1, w2}
ThreeWebsocks == {w1, w2, w3}
OneTask == {t1}
TwoTasks == {t1, t2}
Symmetric == Permutations(TwoSlots) \cup Permutations(ThreeWebsocks)
=============================================================================
