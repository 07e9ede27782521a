--------------------------- MODULE MCSerialFraming ---------------------------
(* Requests for checking SerialFraming with TLC: an empty object, a brace  *)
(* in a string, an escaped quote before a brace (the longest that fits),   *)
(* and one whose tail is read as a new message after the overflow.         *)
EXTENDS SerialFraming

MCRequests ==
    { <<"open", "close">>,
      <<"open", "quote", "close", "quote", "close">>,
      <<"open", "quote", "backslash", "quote", "open", "quote", "close">>,
      <<"open", "blank", "quote", "open", "other", "quote", "other", "other",
        "quote", "open", "quote", "close">> }
=============================================================================
