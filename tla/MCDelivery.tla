----------------------------- MODULE MCDelivery -----------------------------
EXTENDS Delivery, TLC

CONSTANTS x1, x2
ItemsMC == {x1, x2}
TargetsMC == {0, 2, 3}
ProcsMC == {1}
SizesMC == {1, 2}
ModesMC == {"WsP", "WPs", "WW"}
=============================================================================
