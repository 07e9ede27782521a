---------------------------- MODULE ZW3021Storage ----------------------------
(***************************************************************************)
(* The output strings, "send enter" flags and names in flash               *)
(* (src/storage.c), as the RPC commands that write them use it             *)
(* (src/rpc_commands.c).  The serial and the BLE thread run commands       *)
(* concurrently; nothing but the file system's own lock orders them.  One  *)
(* nvs_*() call is atomic, also when power fails; it may fail.  A string   *)
(* stands for its encrypted entry: a nonce in front of it, so the entry of *)
(* the empty string is 16 bytes and not none.                              *)
(***************************************************************************)
EXTENDS Naturals

CONSTANTS Threads,   \* the RPC threads: serial, BLE
          Ids,       \* the finger_id values of the requests (positive ints)
          Values,    \* output strings, EMPTY among them
          Names,     \* display names, EMPTY among them
          EMPTY      \* ""

ASSUME StorageAssumption == /\ Ids \subseteq Nat \ {0}
                            /\ EMPTY \in Values \cap Names

-----------------------------------------------------------------------------
(* Keys.  The commands cast finger_id to uint16_t, and nvs_*() take the    *)
(* sum with an offset as uint16_t again.                                   *)

uint16(n) == n % 65536

ZW3021_STORAGE_ENTER_KEY_OFFSET == 16384
ZW3021_STORAGE_NAME_KEY_OFFSET == 32768

BugEnterKeyCountsDown(id) ==
    uint16(ZW3021_STORAGE_ENTER_KEY_OFFSET + 65536 - uint16(id))

StringKey(id) == uint16(id)
EnterKey(id) == uint16(uint16(id) + ZW3021_STORAGE_ENTER_KEY_OFFSET)
NameKey(id) == uint16(uint16(id) + ZW3021_STORAGE_NAME_KEY_OFFSET)
Keys == UNION {{StringKey(id), EnterKey(id), NameKey(id)} : id \in Ids}

\* What an entry holds: only nvs_read()'s length and bytes tell the kinds
\* apart, and nothing checks them.
Entry(kind, val) == [kind |-> kind, val |-> val]
Absent == Entry("absent", EMPTY)
Flag(on) == Entry("flag", IF on THEN "on" ELSE "off")
Entries == {Absent} \cup {Flag(on) : on \in BOOLEAN}
           \cup {Entry("string", v) : v \in Values}
           \cup {Entry("name", n) : n \in Names}

Command(op, id, val) == [op |-> op, id |-> id, val |-> val]
Commands ==
    UNION {{Command("update_finger", id, v) : v \in Values}
           \cup {Command("set_finger_name", id, n) : n \in Names}
           \cup {Command("set_finger_enter", id, b) : b \in {"on", "off"}}
           \cup {Command("delete_finger", id, EMPTY)} : id \in Ids}
NoCommand == Command("none", 0, EMPTY)

VARIABLES nvs,             \* the flash
          storage_ready,   \* nvs_mount() succeeded at boot
          pc, cmd, ret,    \* each RPC thread: where, running what, result
          overtaken,       \* history: the keys of the thread's command that
                           \* another thread has written since it did
          failed           \* history: the keys its nvs_*() calls failed on

vars == <<nvs, storage_ready, pc, cmd, ret, overtaken, failed>>

TypeOK ==
    /\ nvs \in [Keys -> Entries]
    /\ storage_ready \in BOOLEAN
    /\ pc \in [Threads -> {"idle", "write", "delete_enter", "delete_string",
                           "reply"}]
    /\ cmd \in [Threads -> Commands \cup {NoCommand}]
    /\ ret \in [Threads -> {"OK", "ENODEV", "EIO"}]
    /\ overtaken \in [Threads -> SUBSET Keys]
    /\ failed \in [Threads -> SUBSET Keys]

\* A blank partition; zw3021_storage_init() may fail.
Init ==
    /\ nvs = [k \in Keys |-> Absent]
    /\ storage_ready \in BOOLEAN
    /\ pc = [t \in Threads |-> "idle"]
    /\ cmd = [t \in Threads |-> NoCommand]
    /\ ret = [t \in Threads |-> "OK"]
    /\ overtaken = [t \in Threads |-> {}]
    /\ failed = [t \in Threads |-> {}]

-----------------------------------------------------------------------------
\* What the string, the flag and the name of a finger read as: an entry of
\* nonce length or less is no string, a missing flag is off.
GetString(id) == LET entry == nvs[StringKey(id)]
                 IN  IF entry.kind \in {"absent", "flag"} \/ entry.val = EMPTY
                     THEN Absent ELSE entry
GetEnter(id) == nvs[EnterKey(id)] \notin {Absent, Flag(FALSE)}
GetName(id) == nvs[NameKey(id)]

BugDeleteStringFirst == "delete_string"

\* zw3021_storage_delete() clears the flag before the string.
FirstDelete == "delete_enter"

\* A command arrives; without a mounted file system every operation
\* returns -ENODEV at once.
Start(t, c) ==
    /\ pc[t] = "idle"
    /\ cmd' = [cmd EXCEPT ![t] = c]
    /\ pc' = [pc EXCEPT ![t] = IF ~storage_ready THEN "reply"
                               ELSE IF c.op = "delete_finger" THEN FirstDelete
                               ELSE "write"]
    /\ ret' = [ret EXCEPT ![t] = IF storage_ready THEN "OK" ELSE "ENODEV"]
    /\ overtaken' = [overtaken EXCEPT ![t] = {}]
    /\ failed' = [failed EXCEPT ![t] = {}]
    /\ UNCHANGED <<nvs, storage_ready>>

\* The key of a single-write command, the keys of any command, and the entry
\* it leaves there.  nvs_write() of no bytes deletes the entry, which is what
\* an empty name does.
KeyOf(c) == CASE c.op = "update_finger"    -> StringKey(c.id)
              [] c.op = "set_finger_enter" -> EnterKey(c.id)
              [] c.op = "set_finger_name"  -> NameKey(c.id)
KeysOf(c) == CASE c.op = "none"          -> {}
               [] c.op = "delete_finger" -> {StringKey(c.id), EnterKey(c.id)}
               [] OTHER                  -> {KeyOf(c)}
EntryOf(c) == CASE c.op = "update_finger"    -> Entry("string", c.val)
                [] c.op = "set_finger_enter" -> Entry("flag", c.val)
                [] c.op = "set_finger_name"  ->
                       IF c.val = EMPTY THEN Absent ELSE Entry("name", c.val)
                [] c.op = "delete_finger"    -> Absent

\* Thread t's nvs_*() call: it puts the entry at the key, over what other
\* threads have put there, or it fails.
Nvs(t, key, entry, r) ==
    /\ nvs' = IF r = "OK" THEN [nvs EXCEPT ![key] = entry] ELSE nvs
    /\ failed' = [failed EXCEPT ![t] = IF r = "OK" THEN @ ELSE @ \cup {key}]
    /\ overtaken' = IF r # "OK" THEN overtaken
                    ELSE [u \in Threads |->
                             IF u = t THEN overtaken[u] \ {key}
                             ELSE overtaken[u] \cup ({key} \cap KeysOf(cmd[u]))]
    /\ UNCHANGED <<storage_ready, cmd>>

BugWriteResultIgnored(r) == "OK"
BugReturnsByteCount(r) == IF r = "OK" THEN "16" ELSE r

\* A failed write is returned to the command.
WriteResult(r) == r

Write(t) ==
    /\ pc[t] = "write"
    /\ \E r \in {"OK", "EIO"} :
          /\ Nvs(t, KeyOf(cmd[t]), EntryOf(cmd[t]), r)
          /\ ret' = [ret EXCEPT ![t] = WriteResult(r)]
    /\ pc' = [pc EXCEPT ![t] = "reply"]

\* nvs_delete(id + ENTER_KEY_OFFSET), whose result is ignored.
DeleteEnter(t) ==
    /\ pc[t] = "delete_enter"
    /\ \E r \in {"OK", "EIO"} : Nvs(t, EnterKey(cmd[t].id), Absent, r)
    /\ pc' = [pc EXCEPT ![t] = IF FirstDelete = "delete_enter"
                               THEN "delete_string" ELSE "reply"]
    /\ UNCHANGED ret

\* return nvs_delete(id)
DeleteString(t) ==
    /\ pc[t] = "delete_string"
    /\ \E r \in {"OK", "EIO"} :
          /\ Nvs(t, StringKey(cmd[t].id), Absent, r)
          /\ ret' = [ret EXCEPT ![t] = r]
    /\ pc' = [pc EXCEPT ![t] = IF FirstDelete = "delete_enter"
                               THEN "reply" ELSE "delete_enter"]

\* cmd_delete_finger() does not look at the result.
RepliesOk(t) == ret[t] = "OK" \/ cmd[t].op = "delete_finger"

Reply(t) ==
    /\ pc[t] = "reply"
    /\ pc' = [pc EXCEPT ![t] = "idle"]
    /\ cmd' = [cmd EXCEPT ![t] = NoCommand]
    /\ ret' = [ret EXCEPT ![t] = "OK"]
    /\ overtaken' = [overtaken EXCEPT ![t] = {}]
    /\ failed' = [failed EXCEPT ![t] = {}]
    /\ UNCHANGED <<nvs, storage_ready>>

\* Power fails between any two steps and comes back; the mount may fail.
Reboot ==
    /\ storage_ready' \in BOOLEAN
    /\ pc' = [t \in Threads |-> "idle"]
    /\ cmd' = [t \in Threads |-> NoCommand]
    /\ ret' = [t \in Threads |-> "OK"]
    /\ overtaken' = [t \in Threads |-> {}]
    /\ failed' = [t \in Threads |-> {}]
    /\ UNCHANGED nvs

Next == \/ \E t \in Threads : \/ \E c \in Commands : Start(t, c)
                              \/ Write(t)
                              \/ DeleteEnter(t)
                              \/ DeleteString(t)
                              \/ Reply(t)
        \/ Reboot

Spec == Init /\ [][Next]_vars

-----------------------------------------------------------------------------
(* Properties.                                                             *)

Done(c, key) ==
    CASE c.op = "update_finger"    ->
             GetString(c.id) = IF c.val = EMPTY THEN Absent ELSE EntryOf(c)
      [] c.op = "set_finger_enter" -> GetEnter(c.id) = (c.val = "on")
      [] c.op = "set_finger_name"  -> GetName(c.id) = EntryOf(c)
      [] c.op = "delete_finger"    -> IF key = StringKey(c.id)
                                      THEN GetString(c.id) = Absent
                                      ELSE ~GetEnter(c.id)

\* "ok" to a command means that what it wrote is in flash, where it survives
\* power failing right after the reply: of two threads at one finger, the last
\* to write a key is the one whose value is read.  cmd_delete_finger() drops
\* the result, so of a delete this says only that with storage mounted each of
\* its two deletes that succeeded is done.
OkMeansStored ==
    \A t \in Threads :
        pc[t] = "reply" /\ RepliesOk(t) =>
        \A key \in KeysOf(cmd[t]) \ overtaken[t] :
            (cmd[t].op = "delete_finger" =>
                 storage_ready /\ key \notin failed[t])
            => Done(cmd[t], key)

\* A command for one finger never changes what another finger reads as.
View(id) == <<GetString(id), GetEnter(id), GetName(id)>>
FingersAreIsolated ==
    [][ \A id \in Ids : View(id)' # View(id)
            => \E t \in Threads : cmd[t].id = id ]_vars

\* Whenever power fails, delete_finger has not removed the string of a finger
\* and left its flag: it would press Enter after whatever string the slot is
\* given next.  (The flag's own delete may fail, its result being ignored, or
\* another thread may set the flag after it.)
EnterNeverOutlivesString ==
    [][ \A t \in Threads, id \in Ids :
            /\ cmd[t] = Command("delete_finger", id, EMPTY)
            /\ pc'[t] # pc[t]
            /\ EnterKey(id) \notin overtaken'[t] \cup failed'[t]
            /\ GetString(id) # Absent
            /\ GetString(id)' = Absent
            => ~GetEnter(id)' ]_vars
=============================================================================
