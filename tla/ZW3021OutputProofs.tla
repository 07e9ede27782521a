-------------------------- MODULE ZW3021OutputProofs --------------------------
(***************************************************************************)
(* Theorems about ZW3021Output for any set of output strings, of any       *)
(* length: its types, what the host has seen of a match at each step, and  *)
(* that no key is left held.                                               *)
(***************************************************************************)
EXTENDS ZW3021Output, SequenceTheorems, WellFoundedInduction, TLAPS

-----------------------------------------------------------------------------
(* The supported characters of a string, one at a time.                    *)

(* What holds of 0, and of n + 1 where it holds of n, holds of all.        *)
LEMMA SetInduction ==
    ASSUME NEW S \in SUBSET Nat, 0 \in S, \A n \in S : n + 1 \in S
    PROVE  S = Nat
<1>. SUFFICES ASSUME Nat \ S # {}
              PROVE  FALSE
    OBVIOUS
<1>. DEFINE R == OpToRel(<, Nat)
<1>1. IsWellFoundedOn(R, Nat)
    BY NatLessThanWellFounded
<1>. HIDE DEF R
<1>2. PICK x \in Nat \ S : \A y \in Nat \ S : ~ (<<y, x>> \in R)
    BY <1>1, WFMin
<1>3. x # 0
    OBVIOUS
<1>4. x - 1 \in Nat
    BY <1>3
<1>5. <<x - 1, x>> \in R
    BY <1>4 DEF R, OpToRel
<1>6. x - 1 \in S
    BY <1>2, <1>4, <1>5
<1>. QED
    BY <1>4, <1>6

\* One step of Typeable(): the text with ch after it, if ch can be typed.
Extend(text, ch) == IF Supported(ch) THEN Append(text, ch) ELSE text

\* g answers as Typeable(s) does, for the first m characters.
Follows(g, s, m) ==
    /\ g \in [0 .. m -> Seq(Chars)]
    /\ g[0] = <<>>
    /\ \A n \in 1 .. m : g[n] = Extend(g[n - 1], s[n])

(* There is such a function for every prefix.                              *)
LEMMA PrefixFunctions ==
    ASSUME NEW s \in Seq(Chars), NEW k \in 0 .. Len(s)
    PROVE  \E g : Follows(g, s, k)
<1>. DEFINE S == {m \in Nat : m <= Len(s) => \E g : Follows(g, s, m)}
<1>1. 0 \in S
    <2>. DEFINE g == [n \in 0 .. 0 |-> <<>>]
    <2>1. Follows(g, s, 0)
        BY DEF Follows
    <2>. QED
        BY <2>1
<1>2. ASSUME NEW m \in S
      PROVE  m + 1 \in S
    <2>. SUFFICES ASSUME m + 1 <= Len(s)
                  PROVE  \E h : Follows(h, s, m + 1)
        OBVIOUS
    <2>1. m \in Nat /\ Len(s) \in Nat /\ m <= Len(s)
        BY LenProperties
    <2>2. PICK g : Follows(g, s, m)
        BY <2>1
    <2>. DEFINE last == Extend(g[m], s[m + 1])
                h == [n \in 0 .. m + 1 |-> IF n = m + 1 THEN last ELSE g[n]]
    <2>3. s[m + 1] \in Chars
        BY <2>1, ElementOfSeq
    <2>4. last \in Seq(Chars)
        BY <2>1, <2>2, <2>3 DEF Follows, Extend
    <2>. HIDE DEF last
    <2>5. h \in [0 .. m + 1 -> Seq(Chars)]
        BY <2>1, <2>2, <2>4 DEF Follows
    <2>6. h[0] = <<>>
        BY <2>1, <2>2 DEF Follows
    <2>7. ASSUME NEW n \in 1 .. m + 1
          PROVE  h[n] = Extend(h[n - 1], s[n])
        <3>1. CASE n = m + 1
            <4>1. h[n] = last /\ h[n - 1] = g[m]
                BY <2>1, <3>1
            <4>. QED
                BY <3>1, <4>1 DEF last
        <3>2. CASE n # m + 1
            <4>1. n \in 1 .. m /\ h[n] = g[n] /\ h[n - 1] = g[n - 1]
                BY <2>1, <3>2
            <4>. QED
                BY <2>2, <4>1 DEF Follows
        <3>. QED
            BY <3>1, <3>2
    <2>. QED
        BY <2>5, <2>6, <2>7 DEF Follows
<1>3. S = Nat
    <2>. HIDE DEF S
    <2>1. S \in SUBSET Nat
        BY DEF S
    <2>. QED
        BY <1>1, <1>2, <2>1, SetInduction
<1>. QED
    BY <1>3, LenProperties

(* Typeable() is what its recursion says.                                  *)
LEMMA TypeableFollows ==
    ASSUME NEW s \in Seq(Chars)
    PROVE  Follows(Typeable(s), s, Len(s))
<1>1. Len(s) \in Nat
    BY LenProperties
<1>. DEFINE Body(f) == [n \in 0 .. Len(s) |->
                          IF n = 0 THEN <<>>
                          ELSE IF Supported(s[n]) THEN Append(f[n - 1], s[n])
                                                  ELSE f[n - 1]]
<1>2. PICK g : Follows(g, s, Len(s))
    BY <1>1, PrefixFunctions
<1>3. g = Body(g)
    <2>1. g \in [0 .. Len(s) -> Seq(Chars)]
        BY <1>2 DEF Follows
    <2>2. ASSUME NEW n \in 0 .. Len(s)
          PROVE  g[n] = Body(g)[n]
        <3>1. CASE n = 0
            BY <1>1, <1>2, <3>1 DEF Follows
        <3>2. CASE n # 0
            <4>1. n \in 1 .. Len(s)
                BY <1>1, <3>2
            <4>2. g[n] = Extend(g[n - 1], s[n])
                BY <1>2, <4>1 DEF Follows
            <4>. QED
                BY <3>2, <4>2 DEF Extend
        <3>. QED
            BY <3>1, <3>2
    <2>3. g = [n \in 0 .. Len(s) |-> g[n]]
        BY <2>1
    <2>4. Body(g) = [n \in 0 .. Len(s) |-> Body(g)[n]]
        OBVIOUS
    <2>. HIDE DEF Body
    <2>. QED
        BY <2>2, <2>3, <2>4
<1>4. Typeable(s) = CHOOSE f : f = Body(f)
    BY DEF Typeable
<1>. DEFINE t == Typeable(s)
<1>5. t = Body(t)
    <2>. HIDE DEF Body
    <2>. QED
        BY <1>3, <1>4
<1>. HIDE DEF t
<1>6. t[0] = <<>>
    BY <1>1, <1>5
<1>7. ASSUME NEW n \in 1 .. Len(s)
      PROVE  t[n] = Extend(t[n - 1], s[n])
    <2>1. n \in 0 .. Len(s) /\ n # 0
        BY <1>1
    <2>. QED
        BY <1>5, <2>1 DEF Extend
\* The recursion has one solution: t and g agree on every prefix.
<1>. DEFINE S == {n \in Nat : n <= Len(s) => t[n] = g[n]}
<1>8. 0 \in S
    BY <1>2, <1>6 DEF Follows
<1>9. ASSUME NEW n \in S
      PROVE  n + 1 \in S
    <2>. SUFFICES ASSUME n + 1 <= Len(s)
                  PROVE  t[n + 1] = g[n + 1]
        OBVIOUS
    <2>1. n + 1 \in 1 .. Len(s) /\ (n + 1) - 1 = n /\ t[n] = g[n]
        BY <1>1
    <2>. QED
        BY <1>2, <1>7, <2>1 DEF Follows
<1>10. \A n \in 0 .. Len(s) : t[n] = g[n]
    <2>1. S \in SUBSET Nat
        OBVIOUS
    <2>2. S = Nat
        <3>. HIDE DEF S
        <3>. QED
            BY <1>8, <1>9, <2>1, SetInduction
    <2>. QED
        BY <1>1, <2>2
<1>11. t \in [0 .. Len(s) -> Seq(Chars)]
    <2>1. t = [n \in 0 .. Len(s) |-> t[n]]
        BY <1>5
    <2>2. \A n \in 0 .. Len(s) : t[n] \in Seq(Chars)
        BY <1>2, <1>10 DEF Follows
    <2>. QED
        BY <2>1, <2>2
<1>. QED
    BY <1>6, <1>7, <1>11 DEF t, Follows

-----------------------------------------------------------------------------
(* The inductive invariant.                                                *)

\* The keys that are down at each label: the character's own between its two
\* events, shift around those of a capital.
Shift == IF c = "upper" THEN {"shift"} ELSE {}

KeysInv ==
    /\ pc \in {"idle", "char", "shift_down", "get_enter", "enter_down"}
           => pressed = {}
    /\ pc = "key_down" => pressed = Shift
    /\ pc = "key_up" => pressed = Shift \cup {Position(c)}
    /\ pc = "shift_up" => pressed = {"shift"}
    /\ pc \in {"shift_down", "shift_up"} => c = "upper"
    /\ pc = "enter_up" => pressed = {"enter"}

\* The character that is typed next is the one before p, and the host has
\* seen what is before that one.
TakenInv ==
    pc \in {"shift_down", "key_down"} =>
        /\ p - 1 \in 1 .. Len(value)
        /\ c = value[p - 1] /\ Supported(c)
        /\ typed = Typeable(value)[p - 2]

\* Once its key is down the host has seen it too.
SeenInv ==
    pc \in {"key_up", "shift_up"} =>
        /\ Supported(c)
        /\ typed = Typeable(value)[p - 1]

TextInv == TakenInv /\ SeenInv /\ HostTypesTheMatch

IInv == TypeOK /\ KeysInv /\ TextInv

-----------------------------------------------------------------------------
(* Strings and what Typeable() gives for them.                             *)

(* Every string that can be stored is a sequence of characters.            *)
LEMMA StringsAreTexts ==
    /\ NoString \in Seq(Chars)
    /\ Strings \cup {NoString} \subseteq Seq(Chars)
BY StringsAssumption, EmptySeq DEF NoString

(* What Typeable() says at the two ends of a string and in between.        *)
LEMMA TypeableFacts ==
    ASSUME NEW s \in Seq(Chars)
    PROVE  /\ Len(s) \in Nat
           /\ Typeable(s)[0] = <<>>
           /\ \A n \in 0 .. Len(s) : Typeable(s)[n] \in Seq(Chars)
           /\ \A n \in 1 .. Len(s) :
                  /\ s[n] \in Chars
                  /\ Typeable(s)[n] =
                        IF Supported(s[n]) THEN Append(Typeable(s)[n - 1], s[n])
                                           ELSE Typeable(s)[n - 1]
<1>1. Len(s) \in Nat /\ \A n \in 1 .. Len(s) : s[n] \in Chars
    BY LenProperties, ElementOfSeq
<1>2. Follows(Typeable(s), s, Len(s))
    BY TypeableFollows
<1>. QED
    BY <1>1, <1>2 DEF Follows, Extend

(* The texts the host may have seen.                                       *)
LEMMA TypedGrows ==
    /\ \A text \in Seq(Chars) : text \in Seq(Chars \cup {"enter"})
    /\ \A text \in Seq(Chars \cup {"enter"}), ch \in Chars \cup {"enter"} :
           Append(text, ch) \in Seq(Chars \cup {"enter"})
<1>1. Chars \subseteq Chars \cup {"enter"}
    OBVIOUS
<1>. QED
    BY <1>1, AppendProperties

(* Of a supported character the host sees the character, if exactly the    *)
(* capitals have shift held.                                               *)
LEMMA HostSeesTheCharacter ==
    ASSUME c \in Chars, Supported(c), pressed = Shift
    PROVE  /\ HostSees(Position(c)) = c
           /\ Position(c) \in {"letter", "symbol"}
BY DEF HostSees, Position, Shift, Supported, Chars

-----------------------------------------------------------------------------
(* The steps.                                                              *)

(* Init establishes the inductive invariant.                               *)
LEMMA InitInv == Init => IInv
<1>. SUFFICES ASSUME Init
              PROVE  IInv
    OBVIOUS
<1>1. Len(NoString) = 0 /\ NoString \in Seq(Chars \cup {"enter"})
    BY EmptySeq DEF NoString
<1>2. p \in 1 .. Len(value) + 1
    BY <1>1 DEF Init
<1>3. TypeOK
    BY <1>1, <1>2 DEF Init, TypeOK, Chars, NoString
<1>4. KeysInv
    BY DEF Init, KeysInv
<1>5. TextInv
    BY DEF Init, TextInv, TakenInv, SeenInv, HostTypesTheMatch
<1>. QED
    BY <1>3, <1>4, <1>5 DEF IInv

(* What the RPC thread writes to storage the worker has no part in.        *)
LEMMA RpcInv ==
    ASSUME IInv, Rpc \/ UNCHANGED vars
    PROVE  IInv'
<1>1. WorkerSame
    BY DEF Rpc, UpdateFinger, SetFingerEnter, DeleteEnter, DeleteString,
       WorkerSame, vars
<1>2. /\ string' \in Strings \cup {NoString}
      /\ enter' \in BOOLEAN
      /\ rpc' \in {"idle", "delete_string"}
    BY DEF Rpc, UpdateFinger, SetFingerEnter, DeleteEnter, DeleteString,
       vars, stored, IInv, TypeOK
<1>3. TypeOK'
    BY <1>1, <1>2 DEF WorkerSame, IInv, TypeOK
<1>4. KeysInv'
    BY <1>1 DEF WorkerSame, IInv, KeysInv, Shift
<1>5. TextInv'
    BY <1>1 DEF WorkerSame, IInv, TextInv, TakenInv, SeenInv, HostTypesTheMatch
<1>. QED
    BY <1>3, <1>4, <1>5 DEF IInv

(* A match takes the string that is stored, and starts before its first.   *)
LEMMA GetStringInv ==
    ASSUME IInv, GetString
    PROVE  IInv'
<1>1. /\ pc = "idle" /\ pc' = "char" /\ value' = string /\ p' = 1 /\ c' = c
      /\ typed' = <<>> /\ pressed' = pressed
      /\ string' = string /\ enter' = enter /\ rpc' = rpc
    BY DEF GetString, Step, stored
<1>2. string \in Seq(Chars) /\ string \in Strings \cup {NoString}
    BY StringsAreTexts DEF IInv, TypeOK
<1>3. Len(string) \in Nat /\ Typeable(string)[0] = <<>>
    BY <1>2, TypeableFacts
<1>4. typed' \in Seq(Chars \cup {"enter"})
    BY <1>1, EmptySeq
<1>5. TypeOK'
    BY <1>1, <1>2, <1>3, <1>4 DEF IInv, TypeOK
<1>6. KeysInv'
    BY <1>1 DEF IInv, KeysInv
<1>7. TextInv'
    BY <1>1, <1>3 DEF TextInv, TakenInv, SeenInv, HostTypesTheMatch
<1>. QED
    BY <1>5, <1>6, <1>7 DEF IInv

(* The walk over the string: one character skipped or taken.               *)
LEMMA CharInv ==
    ASSUME IInv, SkipChar \/ TakeChar
    PROVE  IInv'
<1>1. value \in Seq(Chars) /\ p \in 1 .. Len(value) + 1
    BY StringsAreTexts DEF IInv, TypeOK
<1>2. p <= Len(value) /\ pc = "char" /\ p' = p + 1 /\ value' = value
      /\ pressed' = pressed /\ typed' = typed
      /\ string' = string /\ enter' = enter /\ rpc' = rpc
    BY DEF SkipChar, TakeChar, Step, Keys, Buffer, stored
<1>3. Len(value) \in Nat /\ p \in 1 .. Len(value)
      /\ p' \in 1 .. Len(value) + 1 /\ p' - 1 = p /\ p' - 2 = p - 1
    BY <1>1, <1>2, TypeableFacts
<1>4. pressed = {} /\ typed = Typeable(value)[p - 1]
    BY <1>2 DEF IInv, KeysInv, TextInv, HostTypesTheMatch
<1>5. value[p] \in Chars
      /\ Typeable(value)[p] =
             IF Supported(value[p]) THEN Append(Typeable(value)[p - 1], value[p])
                                    ELSE Typeable(value)[p - 1]
    BY <1>1, <1>3, TypeableFacts
<1>6. CASE SkipChar
    <2>1. ~Supported(value[p]) /\ pc' = "char" /\ c' = c
        BY <1>6 DEF SkipChar, Step, Buffer
    <2>2. TypeOK'
        BY <1>2, <1>3, <2>1 DEF IInv, TypeOK
    <2>3. KeysInv'
        BY <1>2, <1>4, <2>1 DEF KeysInv
    <2>4. typed' = Typeable(value)[p' - 1]
        BY <1>2, <1>3, <1>4, <1>5, <2>1
    <2>5. TextInv'
        BY <1>2, <2>1, <2>4 DEF TextInv, TakenInv, SeenInv, HostTypesTheMatch
    <2>. QED
        BY <2>2, <2>3, <2>5 DEF IInv
<1>7. CASE TakeChar
    <2>1. /\ Supported(value[p]) /\ c' = value[p]
          /\ pc' = IF value[p] = "upper" THEN "shift_down" ELSE "key_down"
        BY <1>7 DEF TakeChar, Step, Buffer
    <2>2. TypeOK'
        BY <1>2, <1>3, <1>5, <2>1 DEF IInv, TypeOK
    <2>3. KeysInv'
        BY <1>2, <1>4, <2>1 DEF KeysInv, Shift
    <2>4. /\ p' - 1 \in 1 .. Len(value') /\ c' = value'[p' - 1]
          /\ Supported(c') /\ typed' = Typeable(value')[p' - 2]
        BY <1>2, <1>3, <1>4, <2>1
    <2>5. pc' \notin {"key_up", "shift_up", "char", "get_enter", "enter_down",
                      "enter_up"}
        BY <2>1
    <2>6. TextInv'
        BY <2>4, <2>5 DEF TextInv, TakenInv, SeenInv, HostTypesTheMatch,
           Supported
    <2>. QED
        BY <2>2, <2>3, <2>6 DEF IInv
<1>. QED
    BY <1>6, <1>7

(* Shift goes down before a capital, and the host sees nothing yet.        *)
LEMMA ShiftDownInv ==
    ASSUME IInv, ShiftDown
    PROVE  IInv'
<1>1. /\ pc = "shift_down" /\ pc' = "key_down"
      /\ UNCHANGED <<stored, value, p, c, typed>>
      /\ pressed' = pressed \cup {"shift"}
    BY DEF ShiftDown, Step, Press, Locals
<1>2. pressed = {} /\ c = "upper"
    BY <1>1 DEF IInv, KeysInv
<1>3. TypeOK'
    BY <1>1 DEF stored, IInv, TypeOK, Positions
<1>4. KeysInv'
    BY <1>1, <1>2 DEF KeysInv, Shift
<1>5. TextInv'
    BY <1>1 DEF IInv, TextInv, TakenInv, SeenInv, HostTypesTheMatch
<1>. QED
    BY <1>3, <1>4, <1>5 DEF IInv

(* The host sees the character that was taken.                             *)
LEMMA KeyDownInv ==
    ASSUME IInv, KeyDown
    PROVE  IInv'
<1>1. /\ pc = "key_down" /\ pc' = "key_up"
      /\ UNCHANGED <<stored, value, p, c>>
      /\ pressed' = pressed \cup {Position(c)}
      /\ typed' = IF Position(c) = "shift" THEN typed
                  ELSE Append(typed, HostSees(Position(c)))
    BY DEF KeyDown, Step, Press, Locals
<1>2. /\ pressed = Shift /\ c \in Chars /\ Supported(c)
      /\ p - 1 \in 1 .. Len(value) /\ c = value[p - 1]
      /\ typed = Typeable(value)[p - 2]
    BY <1>1 DEF IInv, TypeOK, KeysInv, TextInv, TakenInv
<1>3. HostSees(Position(c)) = c /\ Position(c) \in {"letter", "symbol"}
    BY <1>2, HostSeesTheCharacter
<1>4. typed' = Append(typed, c)
    BY <1>1, <1>3
<1>5. value \in Seq(Chars) /\ p \in Nat
    BY StringsAreTexts, TypeableFacts DEF IInv, TypeOK
<1>6. (p - 1) - 1 = p - 2
    BY <1>5
<1>7. typed' = Typeable(value)[p - 1]
    BY <1>2, <1>4, <1>5, <1>6, TypeableFacts
<1>8. typed' \in Seq(Chars \cup {"enter"})
    BY <1>2, <1>4, TypedGrows DEF IInv, TypeOK
<1>9. TypeOK'
    BY <1>1, <1>3, <1>8 DEF stored, IInv, TypeOK, Positions
<1>10. KeysInv'
    <2>1. Shift' = Shift /\ Position(c)' = Position(c)
        BY <1>1 DEF Shift, Position
    <2>. QED
        BY <1>1, <1>2, <2>1 DEF KeysInv
<1>11. TextInv'
    <2>1. SeenInv'
        BY <1>1, <1>2, <1>7 DEF SeenInv, Supported
    <2>. QED
        BY <1>1, <2>1 DEF TextInv, TakenInv, HostTypesTheMatch
<1>. QED
    BY <1>9, <1>10, <1>11 DEF IInv

(* The key comes up, and after a capital shift does before the next one.   *)
LEMMA KeyUpInv ==
    ASSUME IInv, KeyUp \/ ShiftUp
    PROVE  IInv'
<1>1. /\ UNCHANGED <<stored, value, p, c, typed>>
      /\ pc \in {"key_up", "shift_up"}
    BY DEF KeyUp, ShiftUp, Step, Release, Locals
<1>2. Supported(c) /\ typed = Typeable(value)[p - 1]
    BY <1>1 DEF IInv, TextInv, SeenInv
<1>3. c \in Chars
    BY DEF IInv, TypeOK
<1>4. CASE KeyUp
    <2>1. /\ pc = "key_up" /\ pressed' = pressed \ {Position(c)}
          /\ pc' = IF c = "upper" THEN "shift_up" ELSE "char"
        BY <1>4 DEF KeyUp, AfterKeyUp, Step, Release
    <2>2. pressed = Shift \cup {Position(c)} /\ Position(c) # "shift"
        BY <1>2, <1>3, <2>1 DEF IInv, KeysInv, Position, Supported, Chars
    <2>3. pressed' = Shift
        BY <2>1, <2>2 DEF Shift
    <2>. QED
        <3>1. TypeOK'
            BY <1>1, <2>1 DEF stored, IInv, TypeOK
        <3>2. KeysInv'
            BY <1>1, <2>1, <2>3 DEF KeysInv, Shift
        <3>3. TextInv'
            BY <1>1, <1>2, <2>1
               DEF TextInv, TakenInv, SeenInv, HostTypesTheMatch, Supported
        <3>. QED
            BY <3>1, <3>2, <3>3 DEF IInv
<1>5. CASE ShiftUp
    <2>1. pc = "shift_up" /\ pc' = "char" /\ pressed' = pressed \ {"shift"}
        BY <1>5 DEF ShiftUp, Step, Release
    <2>2. pressed' = {}
        BY <2>1 DEF IInv, KeysInv
    <2>3. TypeOK'
        BY <1>1, <2>1 DEF stored, IInv, TypeOK
    <2>4. KeysInv'
        BY <2>1, <2>2 DEF KeysInv
    <2>5. TextInv'
        BY <1>1, <1>2, <2>1
           DEF TextInv, TakenInv, SeenInv, HostTypesTheMatch
    <2>. QED
        BY <2>3, <2>4, <2>5 DEF IInv
<1>. QED
    BY <1>4, <1>5

(* The end of the string: the host has seen all of it.                     *)
LEMMA EndStringInv ==
    ASSUME IInv, EndString \/ GetEnter
    PROVE  IInv'
<1>1. UNCHANGED <<stored, value, p, c, pressed, typed>>
    BY DEF EndString, GetEnter, Step, Locals, Keys
<1>2. value \in Seq(Chars) /\ p \in 1 .. Len(value) + 1
    BY StringsAreTexts DEF IInv, TypeOK
<1>3. CASE EndString
    <2>1. p > Len(value) /\ pc = "char" /\ pc' = "get_enter"
        BY <1>3 DEF EndString, Step, Buffer
    <2>2. p - 1 = Len(value)
        BY <1>2, <2>1, TypeableFacts
    <2>3. typed = Typeable(value)[Len(value)] /\ pressed = {}
        BY <2>1, <2>2 DEF IInv, KeysInv, TextInv, HostTypesTheMatch
    <2>4. TypeOK'
        BY <1>1, <2>1 DEF stored, IInv, TypeOK
    <2>5. KeysInv'
        BY <1>1, <2>1, <2>3 DEF KeysInv
    <2>6. TextInv'
        BY <1>1, <2>1, <2>3
           DEF TextInv, TakenInv, SeenInv, HostTypesTheMatch
    <2>. QED
        BY <2>4, <2>5, <2>6 DEF IInv
<1>4. CASE GetEnter
    <2>1. pc = "get_enter" /\ pc' = IF enter THEN "enter_down" ELSE "idle"
        BY <1>4 DEF GetEnter, Step
    <2>2. TypeOK'
        BY <1>1, <2>1 DEF stored, IInv, TypeOK
    <2>3. KeysInv'
        BY <1>1, <2>1 DEF IInv, KeysInv
    <2>4. TextInv'
        BY <1>1, <2>1 DEF IInv, TextInv, TakenInv, SeenInv, HostTypesTheMatch
    <2>. QED
        BY <2>2, <2>3, <2>4 DEF IInv
<1>. QED
    BY <1>3, <1>4

(* Enter goes down after the whole string, and comes up.                   *)
LEMMA EnterInv ==
    ASSUME IInv, EnterDown \/ EnterUp
    PROVE  IInv'
<1>1. UNCHANGED <<stored, value, p, c>>
    BY DEF EnterDown, EnterUp, Step, Locals
<1>2. CASE EnterDown
    <2>1. /\ pc = "enter_down" /\ pc' = "enter_up"
          /\ pressed' = pressed \cup {"enter"}
          /\ typed' = Append(typed, "enter")
        BY <1>2 DEF EnterDown, Step, Press, HostSees
    <2>2. pressed = {} /\ typed = Typeable(value)[Len(value)]
        BY <2>1 DEF IInv, KeysInv, TextInv, HostTypesTheMatch
    <2>3. typed' \in Seq(Chars \cup {"enter"})
        BY <2>1, TypedGrows DEF IInv, TypeOK
    <2>4. TypeOK'
        BY <1>1, <2>1, <2>3 DEF stored, IInv, TypeOK, Positions
    <2>5. KeysInv'
        BY <2>1, <2>2 DEF KeysInv
    <2>6. TextInv'
        BY <1>1, <2>1, <2>2
           DEF TextInv, TakenInv, SeenInv, HostTypesTheMatch
    <2>. QED
        BY <2>4, <2>5, <2>6 DEF IInv
<1>3. CASE EnterUp
    <2>1. /\ pc = "enter_up" /\ pc' = "idle" /\ typed' = typed
          /\ pressed' = pressed \ {"enter"}
        BY <1>3 DEF EnterUp, Step, Release
    <2>2. pressed' = {}
        BY <2>1 DEF IInv, KeysInv
    <2>3. TypeOK'
        BY <1>1, <2>1 DEF stored, IInv, TypeOK
    <2>4. KeysInv'
        BY <2>1, <2>2 DEF KeysInv
    <2>5. TextInv'
        BY <2>1 DEF TextInv, TakenInv, SeenInv, HostTypesTheMatch
    <2>. QED
        BY <2>3, <2>4, <2>5 DEF IInv
<1>. QED
    BY <1>2, <1>3

(* Every step keeps the inductive invariant.                               *)
LEMMA StepInv ==
    ASSUME IInv, [Next]_vars
    PROVE  IInv'
BY RpcInv, GetStringInv, CharInv, ShiftDownInv, KeyDownInv, KeyUpInv,
   EndStringInv, EnterInv DEF Next, Emit

-----------------------------------------------------------------------------
(* The theorems.                                                           *)

(* The strengthened invariant holds in every reachable state.              *)
THEOREM Invariance == Spec => []IInv
<1>1. Init => IInv
    BY InitInv
<1>2. IInv /\ [Next]_vars => IInv'
    BY StepInv
<1>. QED
    BY <1>1, <1>2, PTL DEF Spec

(* Types: in particular the walk stays within the copy of the string, and  *)
(* no position is raised for a character that has none.                    *)
THEOREM TypeCorrect == Spec => []TypeOK
BY Invariance, PTL DEF IInv

(* The host sees the supported characters of the one string that was       *)
(* stored when the match came, whatever is written to storage meanwhile.   *)
THEOREM TypedAsStored == Spec => []HostTypesTheMatch
BY Invariance, PTL DEF IInv, TextInv

(* No key stays down between two characters or after the last one.         *)
THEOREM NoKeyHeld == Spec => []NothingHeld
<1>1. IInv => NothingHeld
    BY DEF IInv, KeysInv, NothingHeld
<1>. QED
    BY <1>1, Invariance, PTL
=============================================================================
