----------------------------- MODULE ZW3021Output -----------------------------
(***************************************************************************)
(* What a match types (src/zw3021.c, zw3021_emit_match_output()): the      *)
(* worker reads the finger's output string, raises key position events for *)
(* it one by one with a sleep after each, and then reads the "send enter"  *)
(* flag.  All the while an RPC command may rewrite both (src/storage.c).   *)
(* The host sees key presses, and the shift held when they come.           *)
(***************************************************************************)
EXTENDS Naturals, Sequences

CONSTANT Strings   \* output strings an RPC command may store

\* A letter in both cases, a character with a position of its own (digits
\* and symbols), and one with none.
Chars == {"lower", "upper", "symbol", "other"}

ASSUME StringsAssumption == Strings \subseteq Seq(Chars)

NoString == <<>>   \* no entry, or an empty one: both read as -ENOENT

VARIABLES string, enter,   \* what storage holds for the finger
          rpc,             \* the RPC thread: idle, or between two deletes
          pc, value, p, c, \* the worker and the locals of the emit functions
          pressed,         \* positions held down
          typed            \* what the host has seen of this match

stored == <<string, enter, rpc>>
vars == <<stored, pc, value, p, c, pressed, typed>>

Positions == {"letter", "symbol", "shift", "enter"}

TypeOK == /\ string \in Strings \cup {NoString}
          /\ enter \in BOOLEAN
          /\ rpc \in {"idle", "delete_string"}
          /\ pc \in {"idle", "char", "shift_down", "key_down", "key_up",
                     "shift_up", "get_enter", "enter_down", "enter_up"}
          /\ value \in Strings \cup {NoString}
          /\ p \in 1 .. Len(value) + 1
          /\ c \in Chars
          /\ pressed \subseteq Positions
          /\ typed \in Seq(Chars \cup {"enter"})

Init == /\ string = NoString
        /\ enter = FALSE
        /\ rpc = "idle"
        /\ pc = "idle"
        /\ value = NoString
        /\ p = 1
        /\ c = "other"
        /\ pressed = {}
        /\ typed = <<>>

-----------------------------------------------------------------------------
(* The RPC thread's writes to storage.                                     *)

WorkerSame == UNCHANGED <<pc, value, p, c, pressed, typed>>

UpdateFinger(s) == /\ rpc = "idle"
                   /\ string' = s
                   /\ UNCHANGED <<enter, rpc>>
                   /\ WorkerSame

SetFingerEnter(on) == /\ rpc = "idle"
                      /\ enter' = on
                      /\ UNCHANGED <<string, rpc>>
                      /\ WorkerSame

\* zw3021_storage_delete(): the flag, then the string.
DeleteEnter == /\ rpc = "idle"
               /\ enter' = FALSE
               /\ rpc' = "delete_string"
               /\ UNCHANGED string
               /\ WorkerSame

DeleteString == /\ rpc = "delete_string"
                /\ string' = NoString
                /\ rpc' = "idle"
                /\ UNCHANGED enter
                /\ WorkerSame

Rpc == \/ \E s \in Strings : UpdateFinger(s)
       \/ \E on \in BOOLEAN : SetFingerEnter(on)
       \/ DeleteEnter
       \/ DeleteString

-----------------------------------------------------------------------------
(* zw3021_char_to_offset() and the host's side of it.                      *)

BugAllSupported(ch) == ch \in Chars

Supported(ch) == ch # "other"

Position(ch) == CASE ch \in {"lower", "upper"} -> "letter"
                  [] ch = "symbol"             -> "symbol"
                  [] OTHER                     -> "below base"

\* The keymap gives every position its character, and shift the letters
\* their case (and a symbol another character).
HostSees(pos) == CASE pos = "letter" -> IF "shift" \in pressed THEN "upper"
                                                               ELSE "lower"
                   [] pos = "symbol" -> IF "shift" \in pressed THEN "other"
                                                               ELSE "symbol"
                   [] pos = "enter"  -> "enter"
                   [] OTHER          -> "other"

Press(pos) == /\ pressed' = pressed \cup {pos}
              /\ typed' = IF pos = "shift" THEN typed
                                           ELSE Append(typed, HostSees(pos))
Release(pos) == pressed' = pressed \ {pos} /\ UNCHANGED typed

-----------------------------------------------------------------------------
(* zw3021_emit_match_output().                                             *)

Step(from, to) == pc = from /\ pc' = to /\ UNCHANGED stored
Locals == UNCHANGED <<value, p, c>>
Keys == UNCHANGED <<pressed, typed>>

\* A match: zw3021_storage_get() copies the string, or there is none.
GetString == /\ string # NoString
             /\ Step("idle", "char")
             /\ value' = string /\ p' = 1 /\ c' = c
             /\ typed' = <<>> /\ UNCHANGED pressed

BugLiveString == string

\* What zw3021_emit_string() walks through.
Buffer == value

\* *p is unsupported and skipped.
SkipChar == /\ p <= Len(Buffer) /\ ~Supported(Buffer[p])
            /\ Step("char", "char")
            /\ p' = p + 1 /\ UNCHANGED <<value, c>>
            /\ Keys

TakeChar == /\ p <= Len(Buffer) /\ Supported(Buffer[p])
            /\ Step("char", IF Buffer[p] = "upper" THEN "shift_down"
                                                   ELSE "key_down")
            /\ c' = Buffer[p] /\ p' = p + 1 /\ UNCHANGED value
            /\ Keys

ShiftDown == Step("shift_down", "key_down") /\ Press("shift") /\ Locals
KeyDown == Step("key_down", "key_up") /\ Press(Position(c)) /\ Locals

BugShiftStuck == "char"

\* if (shifted) the shift is released as well.
AfterKeyUp == IF c = "upper" THEN "shift_up" ELSE "char"

KeyUp == Step("key_up", AfterKeyUp) /\ Release(Position(c)) /\ Locals
ShiftUp == Step("shift_up", "char") /\ Release("shift") /\ Locals

EndString == p > Len(Buffer) /\ Step("char", "get_enter") /\ Locals /\ Keys

GetEnter == /\ Step("get_enter", IF enter THEN "enter_down" ELSE "idle")
            /\ Locals /\ Keys

EnterDown == Step("enter_down", "enter_up") /\ Press("enter") /\ Locals
EnterUp == Step("enter_up", "idle") /\ Release("enter") /\ Locals

Emit == \/ GetString \/ SkipChar \/ TakeChar \/ ShiftDown \/ KeyDown
        \/ KeyUp \/ ShiftUp \/ EndString \/ GetEnter \/ EnterDown \/ EnterUp

Next == Rpc \/ Emit

Spec == Init /\ [][Next]_vars

-----------------------------------------------------------------------------
(* Properties.                                                             *)

\* The supported ones of the first n characters of s, for every n.
Typeable(s) ==
    LET seen[n \in 0 .. Len(s)] ==
            IF n = 0 THEN <<>>
            ELSE IF Supported(s[n]) THEN Append(seen[n - 1], s[n])
                                    ELSE seen[n - 1]
    IN  seen

\* Whatever is written to storage meanwhile, the host sees the supported
\* characters of the one string that was stored when the match came, in
\* their case and order, never a mixture of two; Enter comes last.
HostTypesTheMatch ==
    /\ pc = "char" => typed = Typeable(value)[p - 1]
    /\ pc \in {"get_enter", "enter_down"} => typed = Typeable(value)[Len(value)]
    /\ pc = "enter_up" => typed = Append(Typeable(value)[Len(value)], "enter")

\* No key stays down between two characters or after the last one: a shift
\* left held would change everything the user types next.
NothingHeld == pc \in {"idle", "char", "get_enter"} => pressed = {}
=============================================================================
