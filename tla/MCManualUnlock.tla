--------------------------- MODULE MCManualUnlock ---------------------------
(* Two configured devices, and requests with an unknown or a repeated name. *)
EXTENDS ManualUnlock

TwoDevices == <<"mini", "studio">>

SomeRequests ==
    {All, <<>>, <<"mini">>, <<"studio", "mini">>, <<"mini", "mini">>, <<"mini", "gone">>}
=============================================================================
