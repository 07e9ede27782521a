---------------------------- MODULE MCZW3021Output ----------------------------
(* Output strings for checking ZW3021Output with TLC: both cases of a      *)
(* letter next to each other, a symbol after a capital, and a character    *)
(* that cannot be typed first and last.                                    *)
EXTENDS ZW3021Output

MCStrings == { <<"upper", "lower", "upper", "symbol">>,
               <<"other", "lower", "symbol", "upper">>,
               <<"upper", "other">> }
=============================================================================
