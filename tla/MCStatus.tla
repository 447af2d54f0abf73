------------------------------- MODULE MCStatus -------------------------------
(* Three blocks: one without a signal, one with an icon; all layouts.      *)
EXTENDS Status

OneSilent == <<2, 0, 3>>
OneIcon == <<0, 0, 2>>
AllLayouts == [clickable : {0, 1}, leading : {0, 1}, trailing : {0, 1}]
===============================================================================
