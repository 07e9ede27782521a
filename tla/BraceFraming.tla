---------------------------- MODULE BraceFraming ----------------------------
(***************************************************************************)
(* The byte scanner both transports share: feed_byte() in src/ble_rpc.c    *)
(* and the loop body of rpc_thread() in src/serial_rpc.c cut the incoming  *)
(* stream into JSON objects by counting braces outside strings.  Only what *)
(* the scanner tells apart is kept of a byte.                              *)
(***************************************************************************)
EXTENDS Naturals, Sequences

\* "blank" stands for '\r' and ' ', "other" for every byte not named.
Bytes == {"quote", "backslash", "open", "close", "newline", "blank", "other"}

\* The static variables of the receiver; rx_pos is Len(line).
Scanner == [line : Seq(Bytes), brace_depth : Nat, in_string : BOOLEAN,
            escape_next : BOOLEAN]

\* rx_reset()
Reset == [line |-> <<>>, brace_depth |-> 0, in_string |-> FALSE,
          escape_next |-> FALSE]

\* Blanks between two messages are ignored.
Skipped(s, b) == s.line = <<>> /\ b \in {"newline", "blank"}

\* rx_line[rx_pos++] = b, then the flags and the depth.
Scan(s, b) ==
    LET stored == [s EXCEPT !.line = Append(@, b)]
        code   == ~s.escape_next /\ ~s.in_string
    IN  IF s.escape_next THEN [stored EXCEPT !.escape_next = FALSE]
        ELSE IF s.in_string /\ b = "backslash"
             THEN [stored EXCEPT !.escape_next = TRUE]
        ELSE IF b = "quote" THEN [stored EXCEPT !.in_string = ~@]
        ELSE IF code /\ b = "open" THEN [stored EXCEPT !.brace_depth = @ + 1]
        ELSE IF code /\ b = "close" /\ s.brace_depth > 0
             THEN [stored EXCEPT !.brace_depth = @ - 1]
        ELSE stored

BugQuotedBraceCompletes(s, b) == b = "close" /\ s.brace_depth = 1

\* b closes the outermost brace: the line is a whole message.
Completes(s, b) == /\ ~s.escape_next /\ ~s.in_string
                   /\ b = "close" /\ s.brace_depth = 1

\* rx_pos = 0 after the hand-off: nothing else is reset.
HandedOff(s, b) == [Scan(s, b) EXCEPT !.line = <<>>]
=============================================================================
