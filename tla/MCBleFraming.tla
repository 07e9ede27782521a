---------------------------- MODULE MCBleFraming ----------------------------
(* Requests for checking BleFraming with TLC: an empty object, a brace in  *)
(* a string, an escaped quote before a brace (the longest that fits), and  *)
(* one that is too long.                                                   *)
EXTENDS BleFraming

MCRequests ==
    { <<"open", "close">>,
      <<"open", "quote", "close", "quote", "close">>,
      <<"open", "quote", "backslash", "quote", "open", "quote", "close">>,
      <<"open", "other", "quote", "open", "other", "quote", "quote", "quote",
        "close">> }
=============================================================================
