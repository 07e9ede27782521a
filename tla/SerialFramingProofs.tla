------------------------ MODULE SerialFramingProofs ------------------------
(***************************************************************************)
(* What the scanner of BraceFraming makes of one byte and of the bytes of  *)
(* a well-formed request, for the proofs about both receivers; and the     *)
(* theorems about SerialFraming for any buffer of at least two bytes, any  *)
(* requests and any number of faults: the buffer never overruns, an idle   *)
(* receiver is clean and, for well-formed requests, what fits and starts   *)
(* on an idle receiver is processed as it was sent.                        *)
(***************************************************************************)
EXTENDS SerialFraming, SequenceTheorems, TLAPS

\* How a reader of JSON follows the bytes of r: depth[i] braces are open
\* after i bytes, quoted[i] says that a string is, and escaped[i] that the
\* next character of it is escaped.
Reading(r, depth, quoted, escaped) ==
    /\ depth \in [0 .. Len(r) -> Nat]
    /\ quoted \in [0 .. Len(r) -> BOOLEAN]
    /\ escaped \in [0 .. Len(r) -> BOOLEAN]
    /\ depth[0] = 0 /\ ~quoted[0] /\ ~escaped[0]
    /\ \A i \in 1 .. Len(r) :
          /\ escaped[i] <=> quoted[i-1] /\ ~escaped[i-1] /\ r[i] = "backslash"
          /\ quoted[i] <=> IF r[i] = "quote" /\ ~escaped[i-1] THEN ~quoted[i-1]
                                                              ELSE quoted[i-1]
          /\ depth[i] = IF quoted[i-1] THEN depth[i-1]
                        ELSE IF r[i] = "open"  THEN depth[i-1] + 1
                        ELSE IF r[i] = "close" THEN depth[i-1] - 1
                        ELSE depth[i-1]

\* A reading in which the first brace stays open up to the last byte.
Balanced(r, depth, quoted, escaped) ==
    /\ Reading(r, depth, quoted, escaped)
    /\ \A i \in 1 .. Len(r) : depth[i] = 0 <=> i = Len(r)

\* A request is one JSON object: its first byte opens the brace that its
\* last byte, and none before, closes.
WellFormed(r) ==
    /\ Len(r) > 0 /\ r[1] = "open"
    /\ \E depth, quoted, escaped : Balanced(r, depth, quoted, escaped)

\* The scanner has stored k bytes of r and is where a reader of JSON is.
ScannedTo(s, r, k, depth, quoted, escaped) ==
    /\ Len(s.line) = k /\ \A i \in 1 .. k : s.line[i] = r[i]
    /\ s.brace_depth = depth[k]
    /\ s.in_string = quoted[k]
    /\ s.escape_next = escaped[k]

\* s has scanned r but for what is left of it and its newline.
Following(s, left, r) ==
    LET seen == Len(r) + 1 - Len(left)
    IN  /\ Len(left) <= Len(r) + 1
        /\ \A i \in 1 .. Len(left) - 1 : left[i] = r[seen + i]
        /\ \A depth, quoted, escaped :
              Balanced(r, depth, quoted, escaped) =>
                  ScannedTo(s, r, seen, depth, quoted, escaped)

\* Every request is a JSON object.
ClientIsWellFormed == \A r \in Requests : WellFormed(r)

\* A request that fits and started on an idle receiver is under way: the
\* scanner holds what was sent of it and stands where a reader of JSON would.
FollowsInv ==
    sending # <<>> /\ Len(sending) > 1 /\ clean /\ Fits(request) =>
        request \in Requests /\ Following(rx, sending, request)

BufferInv == TypeOK /\ IdleMeansClean

-----------------------------------------------------------------------------
(* What the scanner makes of a byte, and of a request.                     *)

(* There are well-formed requests, a brace in a string among them.         *)
LEMMA WellFormedExample ==
    WellFormed(<<"open", "quote", "close", "quote", "close">>)
<1> DEFINE r == <<"open", "quote", "close", "quote", "close">>
           d == [i \in 0 .. 5 |-> IF i \in {0, 5} THEN 0 ELSE 1]
           q == [i \in 0 .. 5 |-> IF i \in {2, 3} THEN TRUE ELSE FALSE]
           e == [i \in 0 .. 5 |-> FALSE]
<1>1. /\ Len(r) = 5 /\ r[1] = "open" /\ r[2] = "quote" /\ r[3] = "close"
      /\ r[4] = "quote" /\ r[5] = "close"
    OBVIOUS
<1>2. Reading(r, d, q, e)
    <2>1. /\ d \in [0 .. Len(r) -> Nat]
          /\ q \in [0 .. Len(r) -> BOOLEAN] /\ e \in [0 .. Len(r) -> BOOLEAN]
        BY <1>1
    <2>2. /\ d[0] = 0 /\ d[1] = 1 /\ d[2] = 1 /\ d[3] = 1 /\ d[4] = 1
          /\ d[5] = 0
        OBVIOUS
    <2>3. /\ q[0] = FALSE /\ q[1] = FALSE /\ q[2] = TRUE /\ q[3] = TRUE
          /\ q[4] = FALSE /\ q[5] = FALSE
        OBVIOUS
    <2>4. \A i \in 0 .. 5 : e[i] = FALSE
        OBVIOUS
    <2>. HIDE DEF d, q, e, r
    <2>5. ASSUME NEW i \in 1 .. Len(r)
          PROVE  /\ e[i] <=> q[i-1] /\ ~e[i-1] /\ r[i] = "backslash"
                 /\ q[i] <=> IF r[i] = "quote" /\ ~e[i-1] THEN ~q[i-1]
                                                          ELSE q[i-1]
                 /\ d[i] = IF q[i-1] THEN d[i-1]
                           ELSE IF r[i] = "open"  THEN d[i-1] + 1
                           ELSE IF r[i] = "close" THEN d[i-1] - 1
                           ELSE d[i-1]
        <3>1. i = 1 \/ i = 2 \/ i = 3 \/ i = 4 \/ i = 5
            BY <1>1
        <3>. QED
            BY <1>1, <2>2, <2>3, <2>4, <3>1
    <2>. QED
        BY <2>1, <2>2, <2>3, <2>4, <2>5 DEF Reading
<1>3. \A i \in 1 .. Len(r) : d[i] = 0 <=> i = Len(r)
    BY <1>1
<1>. QED
    BY <1>1, <1>2, <1>3 DEF WellFormed, Balanced

(* Every byte leaves the scanner with a line that it can hold.             *)
LEMMA ScanType ==
    ASSUME NEW s \in Scanner, NEW b \in Bytes
    PROVE  /\ Scan(s, b) \in Scanner
           /\ Scan(s, b).line = Append(s.line, b)
           /\ Len(Scan(s, b).line) = Len(s.line) + 1
           /\ Scan(s, b).line # <<>>
<1>1. /\ Append(s.line, b) \in Seq(Bytes) /\ Append(s.line, b) # <<>>
      /\ Len(Append(s.line, b)) = Len(s.line) + 1
    BY DEF Scanner
<1>2. Scan(s, b).line = Append(s.line, b)
    BY DEF Scan, Scanner
<1>3. Scan(s, b) \in Scanner
    <2> DEFINE stored == [s EXCEPT !.line = Append(@, b)]
    <2>1. stored \in Scanner /\ stored.brace_depth = s.brace_depth
        BY <1>1 DEF Scanner
    <2>2. stored.in_string \in BOOLEAN /\ stored.brace_depth \in Nat
        BY <2>1 DEF Scanner
    <2>. HIDE DEF stored
    <2>3. /\ [stored EXCEPT !.escape_next = FALSE] \in Scanner
          /\ [stored EXCEPT !.escape_next = TRUE] \in Scanner
        BY <2>1 DEF Scanner
    <2>4. [stored EXCEPT !.in_string = ~@] \in Scanner
        BY <2>1, <2>2 DEF Scanner
    <2>5. [stored EXCEPT !.brace_depth = @ + 1] \in Scanner
        BY <2>1, <2>2 DEF Scanner
    <2>6. s.brace_depth > 0 =>
              [stored EXCEPT !.brace_depth = @ - 1] \in Scanner
        BY <2>1, <2>2 DEF Scanner
    <2>. QED
        BY <2>1, <2>3, <2>4, <2>5, <2>6 DEF Scan, stored
<1>. QED
    BY <1>1, <1>2, <1>3

(* The byte that completes a message leaves nothing of it behind.          *)
LEMMA HandedOffClean ==
    ASSUME NEW s \in Scanner, NEW b \in Bytes, Completes(s, b)
    PROVE  HandedOff(s, b) = Reset
<1>1. /\ s.escape_next = FALSE /\ s.in_string = FALSE
      /\ b = "close" /\ s.brace_depth = 1
    BY DEF Completes, Scanner
<1>2. Scan(s, b) = [[s EXCEPT !.line = Append(@, b)] EXCEPT !.brace_depth = @ - 1]
    BY <1>1 DEF Scan
<1>3. HandedOff(s, b) = [[[s EXCEPT !.line = Append(@, b)]
                             EXCEPT !.brace_depth = @ - 1] EXCEPT !.line = <<>>]
    BY <1>2 DEF HandedOff
<1>. DEFINE t == HandedOff(s, b)
<1>4. t = [line |-> t.line, brace_depth |-> t.brace_depth,
           in_string |-> t.in_string, escape_next |-> t.escape_next]
    BY <1>3 DEF Scanner
<1>5. /\ t.line = <<>> /\ t.in_string = FALSE /\ t.escape_next = FALSE
      /\ t.brace_depth = s.brace_depth - 1
    BY <1>1, <1>3 DEF Scanner
<1>6. t.brace_depth = 0
    BY <1>1, <1>5
<1>. QED
    BY <1>4, <1>5, <1>6 DEF Reset

(* After an overflow, a stale partial or a disconnect it is clean.         *)
LEMMA ResetType ==
    Reset \in Scanner /\ Reset.line = <<>> /\ Len(Reset.line) = 0
BY DEF Reset, Scanner

(* The clean scanner and the reader start at the same place.               *)
LEMMA ScanStarts ==
    ASSUME NEW r \in Seq(Bytes), NEW depth, NEW quoted, NEW escaped,
           Reading(r, depth, quoted, escaped)
    PROVE  ScannedTo(Reset, r, 0, depth, quoted, escaped)
<1>1. depth[0] = 0 /\ quoted[0] = FALSE /\ escaped[0] = FALSE
    <2>1. quoted[0] \in BOOLEAN /\ escaped[0] \in BOOLEAN
        BY DEF Reading
    <2>. QED
        BY <2>1 DEF Reading
<1>2. \A i \in 1 .. 0 : Reset.line[i] = r[i]
    OBVIOUS
<1>3. /\ Len(Reset.line) = 0 /\ Reset.brace_depth = 0
      /\ Reset.in_string = FALSE /\ Reset.escape_next = FALSE
    BY ResetType DEF Reset
<1>. QED
    BY <1>1, <1>2, <1>3 DEF ScannedTo

(* On a well-formed request the scanner follows the reader byte by byte.   *)
LEMMA ScanFollows ==
    ASSUME NEW r \in Seq(Bytes), NEW depth, NEW quoted, NEW escaped,
           Reading(r, depth, quoted, escaped),
           NEW s \in Scanner, NEW k \in 0 .. Len(r) - 1,
           ScannedTo(s, r, k, depth, quoted, escaped),
           k > 0 => depth[k] > 0
    PROVE  /\ ScannedTo(Scan(s, r[k+1]), r, k + 1, depth, quoted, escaped)
           /\ k > 0 => (Completes(s, r[k+1]) <=> depth[k+1] = 0)
<1> DEFINE b == r[k+1]
           t == Scan(s, b)
<1>1. b \in Bytes /\ k + 1 \in 1 .. Len(r) /\ k \in 0 .. Len(r)
    OBVIOUS
<1>. HIDE DEF b
<1>2. /\ escaped[k+1] <=> quoted[k] /\ ~escaped[k] /\ b = "backslash"
      /\ quoted[k+1] <=> IF b = "quote" /\ ~escaped[k] THEN ~quoted[k]
                                                       ELSE quoted[k]
      /\ depth[k+1] = IF quoted[k] THEN depth[k]
                      ELSE IF b = "open"  THEN depth[k] + 1
                      ELSE IF b = "close" THEN depth[k] - 1
                      ELSE depth[k]
    BY <1>1 DEF Reading, b
<1>3. t.line = Append(s.line, b) /\ t \in Scanner
    BY <1>1, ScanType
<1>4. Len(t.line) = k + 1 /\ \A i \in 1 .. k + 1 : t.line[i] = r[i]
    <2>1. s.line \in Seq(Bytes) /\ Len(s.line) = k
        BY DEF Scanner, ScannedTo
    <2>2. /\ Len(Append(s.line, b)) = k + 1
          /\ \A i \in 1 .. k : Append(s.line, b)[i] = s.line[i]
          /\ Append(s.line, b)[k+1] = b
        BY <1>1, <2>1
    <2>. QED
        BY <1>3, <2>2 DEF ScannedTo, b
<1>5. escaped[k] => quoted[k]
    <2>1. CASE k = 0
        BY <2>1 DEF Reading
    <2>2. CASE k > 0
        BY <2>2 DEF Reading
    <2>. QED
        BY <2>1, <2>2
<1>6. /\ s.brace_depth = depth[k] /\ s.in_string = quoted[k]
      /\ s.escape_next = escaped[k] /\ depth[k] \in Nat
      /\ quoted[k] \in BOOLEAN /\ escaped[k] \in BOOLEAN
      /\ quoted[k+1] \in BOOLEAN /\ escaped[k+1] \in BOOLEAN
    BY <1>1 DEF ScannedTo, Reading
<1>7. /\ t.brace_depth = depth[k+1] /\ t.in_string = quoted[k+1]
      /\ t.escape_next = escaped[k+1]
    <2>1. CASE escaped[k] = TRUE
        <3>1. quoted[k] = TRUE /\ quoted[k+1] = TRUE /\ escaped[k+1] = FALSE
            BY <1>2, <1>5, <1>6, <2>1
        <3>2. t = [s EXCEPT !.line = Append(@, b), !.escape_next = FALSE]
            BY <1>6, <2>1 DEF Scan
        <3>. QED
            BY <1>2, <1>6, <3>1, <3>2 DEF Scanner
    <2>2. CASE escaped[k] = FALSE /\ quoted[k] = TRUE /\ b = "backslash"
        <3>1. quoted[k+1] = TRUE /\ escaped[k+1] = TRUE
            BY <1>2, <1>6, <2>2
        <3>2. t = [s EXCEPT !.line = Append(@, b), !.escape_next = TRUE]
            BY <1>6, <2>2 DEF Scan
        <3>. QED
            BY <1>2, <1>6, <2>2, <3>1, <3>2 DEF Scanner
    <2>3. CASE escaped[k] = FALSE /\ b = "quote"
        <3>1. quoted[k+1] = ~quoted[k] /\ escaped[k+1] = FALSE
              /\ depth[k+1] = depth[k]
            BY <1>2, <1>6, <2>3
        <3>2. t = [s EXCEPT !.line = Append(@, b), !.in_string = ~@]
            BY <1>6, <2>3 DEF Scan
        <3>. QED
            BY <1>6, <2>3, <3>1, <3>2 DEF Scanner
    <2>4. CASE /\ escaped[k] = FALSE /\ b # "quote"
               /\ quoted[k] = TRUE /\ b # "backslash"
        <3>1. quoted[k+1] = TRUE /\ escaped[k+1] = FALSE
              /\ depth[k+1] = depth[k]
            BY <1>2, <1>6, <2>4
        <3>2. t = [s EXCEPT !.line = Append(@, b)]
            BY <1>6, <2>4 DEF Scan
        <3>. QED
            BY <1>6, <2>4, <3>1, <3>2 DEF Scanner
    <2>5. CASE escaped[k] = FALSE /\ b # "quote" /\ quoted[k] = FALSE
        <3>1. quoted[k+1] = FALSE /\ escaped[k+1] = FALSE
            BY <1>2, <1>6, <2>5
        <3>2. depth[k+1] \in Nat
            BY <1>1 DEF Reading
        <3>3. CASE b = "open"
            <4>1. t = [[s EXCEPT !.line = Append(@, b)]
                          EXCEPT !.brace_depth = @ + 1]
                BY <1>6, <2>5, <3>3 DEF Scan
            <4>. QED
                BY <1>2, <1>6, <2>5, <3>1, <3>3, <4>1 DEF Scanner
        <3>4. CASE b = "close"
            <4>1. depth[k] > 0
                BY <1>2, <1>6, <2>5, <3>2, <3>4
            <4>2. t = [[s EXCEPT !.line = Append(@, b)]
                          EXCEPT !.brace_depth = @ - 1]
                BY <1>6, <2>5, <3>4, <4>1 DEF Scan
            <4>. QED
                BY <1>2, <1>6, <2>5, <3>1, <3>4, <4>2 DEF Scanner
        <3>5. CASE b # "open" /\ b # "close"
            <4>1. t = [s EXCEPT !.line = Append(@, b)]
                BY <1>6, <2>5, <3>5 DEF Scan
            <4>. QED
                BY <1>2, <1>6, <2>5, <3>1, <3>5, <4>1 DEF Scanner
        <3>. QED
            BY <3>3, <3>4, <3>5
    <2>. QED
        BY <1>6, <2>1, <2>2, <2>3, <2>4, <2>5
<1>8. k > 0 => (Completes(s, b) <=> depth[k+1] = 0)
    BY <1>2, <1>5, <1>6 DEF Completes
<1>. QED
    BY <1>4, <1>7, <1>8 DEF ScannedTo, b

(* A clean scanner follows a request that is about to be sent.             *)
LEMMA FollowingStarts ==
    ASSUME NEW r \in Seq(Bytes)
    PROVE  Following(Reset, Append(r, "newline"), r)
<1> DEFINE left == Append(r, "newline")
<1>1. /\ Len(left) = Len(r) + 1 /\ Len(r) \in Nat
      /\ \A i \in 1 .. Len(r) : left[i] = r[i]
    <2>1. "newline" \in Bytes
        BY DEF Bytes
    <2>. QED
        BY <2>1, AppendProperties, LenProperties
<1>2. ASSUME NEW d, NEW q, NEW e, Balanced(r, d, q, e)
      PROVE  ScannedTo(Reset, r, 0, d, q, e)
    BY <1>2, ScanStarts DEF Balanced
<1>. HIDE DEF left
<1>3. Len(r) + 1 - Len(left) = 0 /\ Len(left) <= Len(r) + 1
    BY <1>1
<1>4. \A i \in 1 .. Len(left) - 1 : left[i] = r[0 + i]
    BY <1>1
<1>. QED
    BY <1>2, <1>3, <1>4 DEF Following, left

(* The next byte of a well-formed request is stored; it completes the line *)
(* exactly if it is the last one, and the line is the request then.        *)
LEMMA FollowingStep ==
    ASSUME NEW r \in Seq(Bytes), WellFormed(r),
           NEW left \in Seq(Bytes), Len(left) > 1,
           NEW s \in Scanner, Following(s, left, r)
    PROVE  LET b == Head(left)
           IN  /\ ~Skipped(s, b)
               /\ Len(s.line) = Len(r) + 1 - Len(left)
               /\ Len(s.line) < Len(r)
               /\ Completes(s, b) <=> Len(left) = 2
               /\ Len(left) > 2 => Following(Scan(s, b), Tail(left), r)
               /\ Len(left) = 2 => Append(s.line, b) = r
<1> DEFINE seen == Len(r) + 1 - Len(left)
           b == Head(left)
<1>1. /\ Len(r) \in Nat /\ Len(left) \in Nat
      /\ seen \in 0 .. Len(r) - 1 /\ Len(left) = Len(r) + 1 - seen
      /\ Len(left) = 2 <=> seen + 1 = Len(r)
      /\ \A i \in 1 .. Len(left) - 1 : left[i] = r[seen + i]
    <2>1. Len(r) \in Nat /\ Len(left) \in Nat
        BY LenProperties
    <2>2. /\ Len(left) <= Len(r) + 1
          /\ \A i \in 1 .. Len(left) - 1 : left[i] = r[seen + i]
        BY DEF Following
    <2>3. \A m, n \in Nat : n > 1 /\ n <= m + 1 =>
              /\ m + 1 - n \in 0 .. m - 1 /\ n = m + 1 - (m + 1 - n)
              /\ n = 2 <=> (m + 1 - n) + 1 = m
        OBVIOUS
    <2>4. /\ seen \in 0 .. Len(r) - 1 /\ Len(left) = Len(r) + 1 - seen
          /\ Len(left) = 2 <=> seen + 1 = Len(r)
        BY <2>1, <2>2, <2>3
    <2>. QED
        BY <2>1, <2>2, <2>4
<1>2. b = r[seen + 1] /\ b \in Bytes
    <2>1. b = left[1]
        BY <1>1
    <2>2. 1 \in 1 .. Len(left) - 1 /\ seen + 1 \in 1 .. Len(r)
        BY <1>1
    <2>3. left[1] = r[seen + 1]
        BY <1>1, <2>2
    <2>. QED
        BY <2>1, <2>2, <2>3
<1>3. ASSUME NEW d, NEW q, NEW e, Balanced(r, d, q, e)
      PROVE  ScannedTo(s, r, seen, d, q, e)
    BY <1>3 DEF Following
<1>. HIDE DEF seen, b
<1>4. PICK depth, quoted, escaped : Balanced(r, depth, quoted, escaped)
    BY DEF WellFormed
<1>5. s.line \in Seq(Bytes) /\ Len(s.line) = seen
      /\ \A i \in 1 .. seen : s.line[i] = r[i]
    <2>1. s.line \in Seq(Bytes)
        BY DEF Scanner
    <2>2. ScannedTo(s, r, seen, depth, quoted, escaped)
        BY <1>3, <1>4
    <2>. QED
        BY <2>1, <2>2 DEF ScannedTo
<1>6. ~Skipped(s, b)
    BY <1>2, <1>5 DEF Skipped, WellFormed
<1>7. ASSUME NEW d, NEW q, NEW e, Balanced(r, d, q, e)
      PROVE  /\ ScannedTo(Scan(s, b), r, seen + 1, d, q, e)
             /\ seen > 0 => (Completes(s, b) <=> d[seen + 1] = 0)
    <2>1. Reading(r, d, q, e) /\ ScannedTo(s, r, seen, d, q, e)
        BY <1>3, <1>7 DEF Balanced
    <2>2. seen > 0 => d[seen] > 0
        <3>1. SUFFICES ASSUME seen > 0 PROVE d[seen] > 0
            OBVIOUS
        <3>2. seen \in 1 .. Len(r) /\ seen # Len(r)
            BY <1>1, <3>1
        <3>3. d \in [0 .. Len(r) -> Nat]
            BY <1>7 DEF Balanced, Reading
        <3>4. d[seen] \in Nat
            BY <1>1, <3>3
        <3>5. d[seen] # 0
            BY <1>7, <3>2 DEF Balanced
        <3>. QED
            BY <3>4, <3>5
    <2>. QED
        BY <1>1, <1>2, <2>1, <2>2, ScanFollows
<1>8. Completes(s, b) <=> Len(left) = 2
    <2>1. depth[seen + 1] = 0 <=> seen + 1 = Len(r)
        BY <1>1, <1>4 DEF Balanced
    <2>2. CASE seen > 0
        BY <1>1, <1>4, <1>7, <2>1, <2>2
    <2>3. CASE seen = 0
        <3>1. depth[1] = 1
            BY <1>1, <1>4 DEF WellFormed, Balanced, Reading
        <3>2. ~Completes(s, b)
            BY <1>2, <2>3 DEF Completes, WellFormed
        <3>. QED
            BY <1>1, <2>1, <2>3, <3>1, <3>2
    <2>. QED
        BY <1>1, <2>2, <2>3
<1>9. Len(left) > 2 => Following(Scan(s, b), Tail(left), r)
    <2> SUFFICES ASSUME Len(left) > 2
                 PROVE  Following(Scan(s, b), Tail(left), r)
        OBVIOUS
    <2> DEFINE rest == Tail(left)
    <2>1. /\ Len(rest) = Len(left) - 1
          /\ \A i \in 1 .. Len(rest) : rest[i] = left[i+1]
        BY <1>1, EmptySeq, HeadTailProperties
    <2>. HIDE DEF rest
    <2>2. Len(r) + 1 - Len(rest) = seen + 1 /\ Len(rest) <= Len(r) + 1
        BY <1>1, <2>1
    <2>3. \A i \in 1 .. Len(rest) - 1 : rest[i] = r[(seen + 1) + i]
        <3> SUFFICES ASSUME NEW i \in 1 .. Len(rest) - 1
                     PROVE  rest[i] = r[(seen + 1) + i]
            OBVIOUS
        <3>1. i \in 1 .. Len(rest) /\ i + 1 \in 1 .. Len(left) - 1
            BY <1>1, <2>1
        <3>2. left[i+1] = r[seen + (i + 1)] /\ seen + (i + 1) = (seen + 1) + i
            BY <1>1, <3>1
        <3>. QED
            BY <2>1, <3>1, <3>2
    <2>. QED
        BY <1>7, <2>2, <2>3 DEF Following, rest
<1>10. Len(left) = 2 => Append(s.line, b) = r
    <2> SUFFICES ASSUME Len(left) = 2 PROVE Append(s.line, b) = r
        OBVIOUS
    <2> DEFINE a == Append(s.line, b)
    <2>1. /\ a \in Seq(Bytes)
          /\ Len(a) = Len(s.line) + 1
          /\ \A i \in 1 .. Len(s.line) : a[i] = s.line[i]
          /\ a[Len(s.line) + 1] = b
        BY <1>2, <1>5, AppendProperties
    <2>. HIDE DEF a
    <2>2. Len(a) = Len(r) /\ seen + 1 = Len(r) /\ seen \in Nat
        BY <1>1, <1>5, <2>1
    <2>3. \A i \in 1 .. Len(r) : i \in 1 .. seen \/ i = seen + 1
        BY <2>2
    <2>4. \A i \in 1 .. Len(r) : a[i] = r[i]
        BY <1>2, <1>5, <2>1, <2>3
    <2>. QED
        BY <2>1, <2>2, <2>4, SeqEqual DEF a
<1>. QED
    BY <1>1, <1>5, <1>6, <1>8, <1>9, <1>10 DEF seen, b

-----------------------------------------------------------------------------
(* Type correctness: the buffer bound among the types.                     *)

(* The numbers among the constants.                                        *)
LEMMA Bounds == LineMax \in Nat /\ LineMax > 1 /\ MaxFaults \in Nat
BY FramingAssumption

(* A fault that may happen is counted within the bound.                    *)
LEMMA FaultCounted ==
    ASSUME TypeOK, faults < MaxFaults
    PROVE  faults + 1 \in 0 .. MaxFaults
<1>1. faults \in 0 .. MaxFaults
    BY DEF TypeOK
<1>. QED
    BY <1>1, Bounds

(* The empty line has its type.                                            *)
LEMMA EmptyLine == <<>> \in Seq(Bytes) /\ Len(<<>>) = 0
OBVIOUS

(* The clean scanner fits the buffer.                                      *)
LEMMA CleanType == Reset \in Scanner /\ Len(Reset.line) <= LineMax - 1
BY ResetType, Bounds

(* The byte read is one the client sent.                                   *)
LEMMA TakeType ==
    ASSUME BufferInv, Take
    PROVE  /\ Byte \in Bytes
           /\ sending' \in Seq(Bytes)
           /\ Len(sending') = Len(sending) - 1
<1>1. sending \in Seq(Bytes) /\ sending # <<>>
    BY DEF BufferInv, TypeOK, Take
<1>2. Head(sending) \in Bytes /\ Tail(sending) \in Seq(Bytes)
      /\ Len(Tail(sending)) = Len(sending) - 1
    BY <1>1, HeadTailProperties
<1>. QED
    BY <1>2 DEF Take, Byte

(* Init establishes the invariant of the buffer.                           *)
LEMMA BufferInvInit == Init => BufferInv
<1> SUFFICES ASSUME Init PROVE BufferInv
    OBVIOUS
<1>1. rx \in Scanner /\ Len(rx.line) <= LineMax - 1
    BY CleanType DEF Init
<1>2. /\ sending \in Seq(Bytes)
      /\ request \in Seq(Bytes)
      /\ processed \in Seq(Bytes)
    <2>1. sending = <<>> /\ request = <<>> /\ processed = <<>>
        BY DEF Init
    <2>. QED
        BY <2>1, EmptyLine
<1>3. faults \in 0 .. MaxFaults
    <2>1. faults = 0
        BY DEF Init
    <2>. QED
        BY <2>1, Bounds
<1>. QED
    BY <1>1, <1>2, <1>3 DEF Init, BufferInv, TypeOK, IdleMeansClean

(* Every step keeps the invariant of the buffer.                           *)
LEMMA BufferInvStep == BufferInv /\ [Next]_vars => BufferInv'
<1> SUFFICES ASSUME BufferInv, [Next]_vars PROVE BufferInv'
    OBVIOUS
<1>. USE DEF BufferInv
<1>1. ASSUME NEW r \in Requests, StartRequest(r)
      PROVE  BufferInv'
    <2>1. r \in Seq(Bytes) /\ Append(r, "newline") \in Seq(Bytes)
        <3>1. r \in Seq(Bytes \ {"newline"})
            BY FramingAssumption
        <3>2. r \in Seq(Bytes)
            BY <3>1
        <3>. QED
            BY <3>2 DEF Bytes
    <2>. QED
        BY <1>1, <2>1 DEF TypeOK, IdleMeansClean, StartRequest
<1>2. CASE BreakOff
    BY <1>2, FaultCounted, EmptyLine DEF TypeOK, IdleMeansClean, BreakOff
<1>3. CASE GiveUp
    BY <1>3 DEF TypeOK, IdleMeansClean, GiveUp, client
<1>4. CASE DiscardStale
    BY <1>4, FaultCounted, CleanType DEF TypeOK, IdleMeansClean, DiscardStale
<1>5. CASE SkipBlank
    BY <1>5, TakeType DEF TypeOK, IdleMeansClean, SkipBlank, Take, client
<1>6. CASE Overflow
    BY <1>6, CleanType, TakeType DEF TypeOK, IdleMeansClean, Overflow,
       AfterOverflow, Take, client
<1>7. CASE StoreByte
    <2>1. rx \in Scanner /\ Len(rx.line) < LineMax - 1 /\ Byte \in Bytes
        <3>1. rx \in Scanner /\ Len(rx.line) \in Nat
            BY LenProperties DEF TypeOK, Scanner
        <3>2. Byte \in Bytes
            BY <1>7, TakeType DEF StoreByte
        <3>3. ~(Len(rx.line) >= LineMax - 1)
            BY <1>7 DEF StoreByte, Full
        <3>. QED
            BY <3>1, <3>2, <3>3, Bounds
    <2>2. /\ rx' \in Scanner /\ rx'.line # <<>>
          /\ Len(rx'.line) <= LineMax - 1
        BY <1>7, <2>1, ScanType, Bounds DEF StoreByte, Scanner
    <2>. QED
        BY <1>7, <2>2, TakeType DEF TypeOK, IdleMeansClean, StoreByte, Take,
           client
<1>8. CASE CompleteLine
    <2>1. rx \in Scanner /\ Byte \in Bytes
        BY <1>8, TakeType DEF TypeOK, CompleteLine
    <2>2. rx' = Reset
        BY <1>8, <2>1, HandedOffClean DEF CompleteLine
    <2>3. Append(rx.line, Byte) \in Seq(Bytes)
        BY <2>1 DEF Scanner
    <2>. QED
        BY <1>8, <2>2, <2>3, CleanType, TakeType
           DEF TypeOK, IdleMeansClean, CompleteLine, Take, client
<1>9. CASE UNCHANGED vars
    BY <1>9 DEF TypeOK, IdleMeansClean, vars
<1>. QED
    BY <1>1, <1>2, <1>3, <1>4, <1>5, <1>6, <1>7, <1>8, <1>9
       DEF Next, ReadByte

(* The invariant of the buffer holds in every reachable state.             *)
LEMMA BufferInvariance == Spec => []BufferInv
BY BufferInvInit, BufferInvStep, PTL DEF Spec

(* Every variable keeps its type: rpc_rx_line never holds more than        *)
(* LineMax - 1 bytes, whatever arrives and whenever the link stalls.       *)
THEOREM TypeCorrect == Spec => []TypeOK
BY BufferInvariance, PTL DEF BufferInv

(* Between messages the receiver is in its initial state, after overflows  *)
(* and dropped partials too.                                               *)
THEOREM CleanWhenIdle == Spec => []IdleMeansClean
BY BufferInvariance, PTL DEF BufferInv

-----------------------------------------------------------------------------
(* Intact dispatch.                                                        *)

(* What FollowsInv says of the byte of a request that is read next.        *)
LEMMA UnderWay ==
    ASSUME BufferInv, FollowsInv, sending # <<>>, Len(sending) > 1, clean,
           Fits(request), ClientIsWellFormed
    PROVE  /\ ~Skipped(rx, Byte) /\ ~Full
           /\ Completes(rx, Byte) <=> Len(sending) = 2
           /\ Len(sending) > 2 =>
                  Following(Scan(rx, Byte), Tail(sending), request)
           /\ Len(sending) = 2 => Append(rx.line, Byte) = request
<1>1. /\ request \in Seq(Bytes) /\ WellFormed(request)
      /\ sending \in Seq(Bytes) /\ rx \in Scanner
      /\ Following(rx, sending, request)
    BY DEF BufferInv, TypeOK, FollowsInv, ClientIsWellFormed
<1>2. /\ ~Skipped(rx, Byte)
      /\ Len(rx.line) = Len(request) + 1 - Len(sending)
      /\ Len(rx.line) < Len(request)
      /\ Completes(rx, Byte) <=> Len(sending) = 2
      /\ Len(sending) > 2 => Following(Scan(rx, Byte), Tail(sending), request)
      /\ Len(sending) = 2 => Append(rx.line, Byte) = request
    BY <1>1, FollowingStep DEF Byte
<1>3. Len(request) \in Nat /\ rx.line \in Seq(Bytes) /\ Len(rx.line) \in Nat
    BY <1>1, LenProperties DEF Scanner
<1>4. ~Full
    BY <1>2, <1>3, Bounds DEF Full, Fits
<1>. QED
    BY <1>2, <1>4

(* Every step keeps the scanner where a reader of JSON would be.           *)
LEMMA FollowsInvStep ==
    ASSUME ClientIsWellFormed
    PROVE  BufferInv /\ FollowsInv /\ [Next]_vars => FollowsInv'
<1> SUFFICES ASSUME BufferInv, FollowsInv, [Next]_vars PROVE FollowsInv'
    OBVIOUS
<1>1. ASSUME NEW r \in Requests, StartRequest(r)
      PROVE  FollowsInv'
    <2>1. r \in Seq(Bytes)
        <3>1. r \in Seq(Bytes \ {"newline"})
            BY FramingAssumption
        <3>. QED
            BY <3>1
    <2>2. /\ sending' = Append(r, "newline") /\ request' = r
          /\ clean' = (rx.line = <<>>) /\ rx' = rx
        BY <1>1 DEF StartRequest
    <2>3. Len(sending') = Len(r) + 1
        BY <2>1, <2>2, AppendProperties DEF Bytes
    <2>4. ASSUME clean'
          PROVE  Following(rx', sending', request')
        <3>1. rx = Reset
            BY <2>2, <2>4 DEF BufferInv, IdleMeansClean
        <3>. QED
            BY <2>1, <2>2, <3>1, FollowingStarts
    <2>. QED
        BY <2>2, <2>3, <2>4 DEF FollowsInv
<1>2. CASE BreakOff
    BY <1>2 DEF FollowsInv, BreakOff
<1>3. CASE DiscardStale
    <2>1. sending' = sending
        BY <1>3 DEF DiscardStale
    <2>2. CASE sending = <<>>
        BY <2>1, <2>2 DEF FollowsInv
    <2>3. CASE sending # <<>>
        BY <1>3, <2>3 DEF FollowsInv, DiscardStale
    <2>. QED
        BY <2>2, <2>3
<1>4. CASE ReadByte
    <2>1. SUFFICES ASSUME sending' # <<>>, Len(sending') > 1, clean,
                          Fits(request)
                   PROVE  FollowsInv'
        BY <1>4 DEF FollowsInv, ReadByte, SkipBlank, Overflow, StoreByte,
           CompleteLine, Take, client, Fits
    <2>2. /\ request' = request
          /\ sending' = Tail(sending) /\ sending # <<>> /\ Take
        BY <1>4 DEF ReadByte, SkipBlank, Overflow, StoreByte, CompleteLine,
           Take, client
    <2>3. Len(sending) > 2 /\ Len(sending) # 2
        <3>1. Len(sending') = Len(sending) - 1 /\ Len(sending) \in Nat
            BY <2>2, TakeType, LenProperties DEF BufferInv, TypeOK
        <3>2. \A n \in Nat : n - 1 > 1 => n > 2 /\ n # 2
            OBVIOUS
        <3>. QED
            BY <2>1, <3>1, <3>2
    <2>4. request \in Requests
        BY <2>1, <2>2, <2>3 DEF FollowsInv
    <2>5. /\ ~Skipped(rx, Byte) /\ ~Full
          /\ Completes(rx, Byte) <=> Len(sending) = 2
          /\ Following(Scan(rx, Byte), Tail(sending), request)
        BY <2>1, <2>2, <2>3, UnderWay
    <2>6. StoreByte
        BY <1>4, <2>3, <2>5 DEF ReadByte, SkipBlank, Overflow, CompleteLine
    <2>7. rx' = Scan(rx, Byte)
        BY <2>6 DEF StoreByte
    <2>. QED
        BY <2>2, <2>4, <2>5, <2>7 DEF FollowsInv
<1>5. CASE GiveUp \/ UNCHANGED vars
    BY <1>5 DEF FollowsInv, GiveUp, client, vars
<1>. QED
    BY <1>1, <1>2, <1>3, <1>4, <1>5 DEF Next

(* The scanner is always where a reader of JSON would be.                  *)
LEMMA FollowsInvariance ==
    ASSUME ClientIsWellFormed
    PROVE  Spec => [](BufferInv /\ FollowsInv)
<1>1. Init => FollowsInv
    BY DEF Init, FollowsInv
<1>. QED
    BY <1>1, FollowsInvStep, BufferInvInit, BufferInvStep, PTL DEF Spec

(* A well-formed request that fits the buffer and starts on an idle        *)
(* receiver is processed byte for byte as it was sent when its closing     *)
(* brace arrives: for every request and every buffer size, whatever broke  *)
(* before it.                                                              *)
THEOREM IntactlyDispatched ==
    ASSUME ClientIsWellFormed
    PROVE  Spec => IntactDispatch
<1> DEFINE Dispatched == Len(sending) = 2 /\ clean /\ Fits(request) /\ ReadByte
                => processed' = request /\ outcome' = "processed"
<1>1. BufferInv /\ FollowsInv /\ [Next]_vars => [Dispatched]_vars
    <2> SUFFICES ASSUME BufferInv, FollowsInv, Len(sending) = 2, clean,
                        Fits(request), ReadByte
                 PROVE  processed' = request /\ outcome' = "processed"
        OBVIOUS
    <2>1. sending # <<>> /\ Len(sending) > 1
        <3>1. sending # <<>>
            BY DEF ReadByte, SkipBlank, Overflow, StoreByte, CompleteLine, Take
        <3>2. Len(sending) > 1
            OBVIOUS
        <3>. QED
            BY <3>1, <3>2
    <2>2. /\ ~Skipped(rx, Byte) /\ ~Full
          /\ Completes(rx, Byte) /\ Append(rx.line, Byte) = request
        BY <2>1, UnderWay
    <2>3. CompleteLine
        BY <2>2 DEF ReadByte, SkipBlank, Overflow, StoreByte
    <2>. QED
        BY <2>2, <2>3 DEF CompleteLine
<1>. QED
    BY <1>1, FollowsInvariance, PTL DEF Spec, IntactDispatch
=============================================================================
