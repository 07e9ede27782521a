------------------------- MODULE ZW3021StorageProofs -------------------------
(***************************************************************************)
(* Theorems about ZW3021Storage for any threads, values, names and ids.    *)
(* What is said of the keys of one command holds for every id, its keys    *)
(* always being three.  That two fingers leave each other alone holds for  *)
(* the ids whose keys are theirs alone (OwnKeys); the run key_collision    *)
(* shows that it fails beyond them.                                        *)
(***************************************************************************)
EXTENDS ZW3021Storage, TLAPS

\* The ids below the first key offset, which src/storage.c allots its three
\* key ranges to.  Every sensor slot has such an id.
OwnKeys == \A id \in Ids : id < ZW3021_STORAGE_ENTER_KEY_OFFSET

-----------------------------------------------------------------------------
(* The inductive invariant.                                                *)

\* Each label belongs to the commands that pass it.
LabelInv ==
    \A t \in Threads :
        /\ pc[t] = "write" => /\ cmd[t] \in Commands
                              /\ cmd[t].op # "delete_finger"
        /\ pc[t] \in {"delete_enter", "delete_string"} =>
              /\ cmd[t] \in Commands
              /\ cmd[t].op = "delete_finger"
        /\ pc[t] = "reply" => cmd[t] \in Commands

\* Thread t's command has written key and tells its client so, or it is a
\* delete that has only the string left to remove.
Wrote(t, key) ==
    \/ /\ pc[t] = "reply" /\ RepliesOk(t)
       /\ cmd[t].op = "delete_finger" =>
              storage_ready /\ key \notin failed[t]
    \/ /\ pc[t] = "delete_string"
       /\ key = EnterKey(cmd[t].id) /\ key \notin failed[t]

\* What it has written is there until another thread overtakes it.
Holds(t) == \A key \in KeysOf(cmd[t]) \ overtaken[t] :
                Wrote(t, key) => nvs[key] = EntryOf(cmd[t])
WrittenInv == \A t \in Threads : Holds(t)

TypeInv == TypeOK /\ LabelInv
StoredInv == TypeInv /\ WrittenInv

-----------------------------------------------------------------------------
(* Keys, entries and commands.                                             *)

(* The keys of two fingers, and the three keys of one, are different.      *)
LEMMA KeysDisjoint ==
    ASSUME OwnKeys
    PROVE  \A i, j \in Ids :
              /\ StringKey(i) # EnterKey(j)
              /\ StringKey(i) # NameKey(j)
              /\ EnterKey(i) # NameKey(j)
              /\ i # j => /\ StringKey(i) # StringKey(j)
                          /\ EnterKey(i) # EnterKey(j)
                          /\ NameKey(i) # NameKey(j)
<1> SUFFICES ASSUME NEW i \in Ids, NEW j \in Ids
             PROVE  /\ StringKey(i) # EnterKey(j)
                    /\ StringKey(i) # NameKey(j)
                    /\ EnterKey(i) # NameKey(j)
                    /\ i # j => /\ StringKey(i) # StringKey(j)
                                /\ EnterKey(i) # EnterKey(j)
                                /\ NameKey(i) # NameKey(j)
    OBVIOUS
<1>1. i \in Nat /\ j \in Nat /\ i < 16384 /\ j < 16384
    BY StorageAssumption DEF OwnKeys, ZW3021_STORAGE_ENTER_KEY_OFFSET
<1>2. StringKey(i) = i /\ EnterKey(i) = i + 16384 /\ NameKey(i) = i + 32768
    BY <1>1 DEF StringKey, EnterKey, NameKey, uint16,
       ZW3021_STORAGE_ENTER_KEY_OFFSET, ZW3021_STORAGE_NAME_KEY_OFFSET
<1>3. StringKey(j) = j /\ EnterKey(j) = j + 16384 /\ NameKey(j) = j + 32768
    BY <1>1 DEF StringKey, EnterKey, NameKey, uint16,
       ZW3021_STORAGE_ENTER_KEY_OFFSET, ZW3021_STORAGE_NAME_KEY_OFFSET
<1>. QED
    BY <1>1, <1>2, <1>3

(* The string of any finger has not the key of its flag.                   *)
LEMMA StringIsNotEnter ==
    ASSUME NEW i \in Ids
    PROVE  StringKey(i) # EnterKey(i)
<1>1. i \in Nat
    BY StorageAssumption
<1> DEFINE n == i % 65536
<1>2. n \in Nat /\ n < 65536
    BY <1>1
<1>3. StringKey(i) = n /\ EnterKey(i) = (n + 16384) % 65536
    BY DEF StringKey, EnterKey, uint16, ZW3021_STORAGE_ENTER_KEY_OFFSET
<1> HIDE DEF n
<1>4. CASE n + 16384 < 65536
    BY <1>2, <1>3, <1>4
<1>5. CASE ~(n + 16384 < 65536)
    <2>1. (n + 16384) % 65536 = n + 16384 - 65536
        BY <1>2, <1>5
    <2>. QED
        BY <1>2, <1>3, <2>1
<1>. QED
    BY <1>4, <1>5

(* The keys of a finger are keys of the flash.                             *)
LEMMA KeysAreKeys ==
    \A i \in Ids : StringKey(i) \in Keys /\ EnterKey(i) \in Keys
                                         /\ NameKey(i) \in Keys
BY DEF Keys

(* The fields of a command, by its kind.                                   *)
LEMMA CommandFields ==
    ASSUME NEW c \in Commands
    PROVE  /\ c.id \in Ids
           /\ c = Command(c.op, c.id, c.val)
           /\ \/ c.op = "update_finger" /\ c.val \in Values
              \/ c.op = "set_finger_name" /\ c.val \in Names
              \/ c.op = "set_finger_enter" /\ c.val \in {"on", "off"}
              \/ c.op = "delete_finger" /\ c.val = EMPTY
BY DEF Commands, Command

(* The keys of a command are keys of the flash.                            *)
LEMMA KeysOfTypes ==
    \A c \in Commands \cup {NoCommand} : KeysOf(c) \subseteq Keys
<1>1. KeysOf(NoCommand) = {}
    BY DEF KeysOf, NoCommand, Command
<1>2. ASSUME NEW c \in Commands PROVE KeysOf(c) \subseteq Keys
    BY CommandFields, KeysAreKeys DEF KeysOf, KeyOf
<1>. QED
    BY <1>1, <1>2

(* What a single-write command writes is an entry, at a key of its finger. *)
LEMMA WriteTypes ==
    ASSUME NEW c \in Commands, c.op # "delete_finger"
    PROVE  /\ EntryOf(c) \in Entries
           /\ KeyOf(c) \in {StringKey(c.id), EnterKey(c.id), NameKey(c.id)}
<1>1. CASE c.op = "update_finger"
    BY <1>1, CommandFields DEF EntryOf, KeyOf, Entries
<1>2. CASE c.op = "set_finger_enter"
    <2>1. EntryOf(c) = Entry("flag", c.val)
        BY <1>2 DEF EntryOf
    <2>2. c.val = "on" \/ c.val = "off"
        BY <1>2, CommandFields
    <2>3. Flag(TRUE) = Entry("flag", "on") /\ Flag(FALSE) = Entry("flag", "off")
        BY DEF Flag
    <2>4. Flag(TRUE) \in Entries /\ Flag(FALSE) \in Entries
        BY DEF Entries
    <2>5. EntryOf(c) \in Entries
        BY <2>1, <2>2, <2>3, <2>4
    <2>6. KeyOf(c) = EnterKey(c.id)
        BY <1>2 DEF KeyOf
    <2>. QED
        BY <2>5, <2>6
<1>3. CASE c.op = "set_finger_name"
    BY <1>3, CommandFields DEF EntryOf, KeyOf, Entries
<1>. QED
    BY <1>1, <1>2, <1>3, CommandFields

-----------------------------------------------------------------------------
(* Type correctness.                                                       *)

(* A missing entry is an entry.                                            *)
LEMMA AbsentEntry == Absent \in Entries
BY DEF Entries

(* An nvs_*() call keeps the types of what it changes.                     *)
LEMMA NvsTypes ==
    ASSUME TypeOK, NEW t \in Threads, NEW key \in Keys, NEW entry \in Entries,
           NEW r, Nvs(t, key, entry, r)
    PROVE  /\ nvs' \in [Keys -> Entries]
           /\ overtaken' \in [Threads -> SUBSET Keys]
           /\ failed' \in [Threads -> SUBSET Keys]
           /\ storage_ready' = storage_ready /\ cmd' = cmd
<1>1. \A u \in Threads : KeysOf(cmd[u]) \subseteq Keys
    BY KeysOfTypes DEF TypeOK
<1>2. nvs' \in [Keys -> Entries] /\ failed' \in [Threads -> SUBSET Keys]
    BY DEF TypeOK, Nvs
<1>3. overtaken' \in [Threads -> SUBSET Keys]
    BY <1>1 DEF TypeOK, Nvs
<1>. QED
    BY <1>2, <1>3 DEF Nvs

(* Every step keeps types and labels.                                      *)
LEMMA TypeInvStep == TypeInv /\ [Next]_vars => TypeInv'
<1> SUFFICES ASSUME TypeInv, [Next]_vars PROVE TypeInv'
    OBVIOUS
<1>. USE DEF TypeInv
<1>1. ASSUME NEW t \in Threads, NEW c \in Commands, Start(t, c)
      PROVE  TypeInv'
    <2>1. TypeOK'
        BY <1>1 DEF TypeOK, Start, FirstDelete
    <2>2. LabelInv'
        BY <1>1 DEF LabelInv, TypeOK, Start, FirstDelete
    <2>. QED
        BY <2>1, <2>2
<1>2. ASSUME NEW t \in Threads, Write(t)
      PROVE  TypeInv'
    <2>1. cmd[t] \in Commands /\ cmd[t].op # "delete_finger"
        BY <1>2 DEF LabelInv, Write
    <2>4. KeyOf(cmd[t]) \in Keys
        BY <2>1, WriteTypes, CommandFields, KeysAreKeys
    <2>5. PICK r \in {"OK", "EIO"} :
              /\ Nvs(t, KeyOf(cmd[t]), EntryOf(cmd[t]), r)
              /\ ret' = [ret EXCEPT ![t] = r]
        BY <1>2 DEF Write, WriteResult
    <2>2. TypeOK'
        BY <1>2, <2>1, <2>4, <2>5, WriteTypes, NvsTypes DEF TypeOK, Write
    <2>3. LabelInv'
        BY <1>2, <2>1 DEF LabelInv, TypeOK, Write, Nvs
    <2>. QED
        BY <2>2, <2>3
<1>3. ASSUME NEW t \in Threads, DeleteEnter(t) \/ DeleteString(t)
      PROVE  TypeInv'
    <2>. PICK key \in {EnterKey(cmd[t].id), StringKey(cmd[t].id)},
              r \in {"OK", "EIO"} : Nvs(t, key, Absent, r)
                                   /\ ret' \in {ret, [ret EXCEPT ![t] = r]}
        BY <1>3 DEF DeleteEnter, DeleteString
    <2>3. cmd[t] \in Commands
        BY <1>3 DEF LabelInv, DeleteEnter, DeleteString
    <2>4. key \in Keys
        BY <2>3, CommandFields, KeysAreKeys
    <2>1. TypeOK'
        BY <1>3, <2>4, AbsentEntry, NvsTypes
           DEF TypeOK, DeleteEnter, DeleteString, FirstDelete
    <2>2. LabelInv'
        BY <1>3 DEF LabelInv, TypeOK, DeleteEnter, DeleteString, Nvs,
           FirstDelete
    <2>. QED
        BY <2>1, <2>2
<1>4. ASSUME NEW t \in Threads, Reply(t)
      PROVE  TypeInv'
    BY <1>4 DEF TypeOK, LabelInv, Reply
<1>5. CASE Reboot
    BY <1>5 DEF TypeOK, LabelInv, Reboot
<1>6. CASE UNCHANGED vars
    BY <1>6 DEF TypeOK, LabelInv, vars
<1>. QED
    BY <1>1, <1>2, <1>3, <1>4, <1>5, <1>6 DEF Next

(* Init establishes types and labels.                                      *)
LEMMA TypeInvInit == Init => TypeInv
BY AbsentEntry DEF Init, TypeInv, TypeOK, LabelInv

(* Every entry, label and result keeps its type, for every id.             *)
THEOREM TypeCorrect == Spec => []TypeOK
<1>1. Spec => []TypeInv
    BY TypeInvInit, TypeInvStep, PTL DEF Spec
<1>. QED
    BY <1>1, PTL DEF TypeInv

-----------------------------------------------------------------------------
(* What one nvs_*() call leaves alone.                                     *)

(* Every step that writes flash is one nvs_*() call for the finger of the  *)
(* command that makes it.                                                  *)
LEMMA OnlyNvsWrites ==
    ASSUME TypeInv, [Next]_vars, nvs' # nvs
    PROVE  \E t \in Threads :
              /\ Write(t) \/ DeleteEnter(t) \/ DeleteString(t)
              /\ cmd[t] \in Commands
              /\ \E key \in {StringKey(cmd[t].id), EnterKey(cmd[t].id),
                             NameKey(cmd[t].id)}, entry \in Entries :
                     Nvs(t, key, entry, "OK")
<1>1. PICK t \in Threads : Write(t) \/ DeleteEnter(t) \/ DeleteString(t)
    BY DEF Next, Start, Reply, Reboot, vars
<1>2. /\ cmd[t] \in Commands
      /\ \E key \in {StringKey(cmd[t].id), EnterKey(cmd[t].id),
                     NameKey(cmd[t].id)}, entry \in Entries :
             Nvs(t, key, entry, "OK")
    <2>1. CASE Write(t)
        <3>1. cmd[t] \in Commands /\ cmd[t].op # "delete_finger"
            BY <2>1 DEF TypeInv, LabelInv, Write
        <3>2. Nvs(t, KeyOf(cmd[t]), EntryOf(cmd[t]), "OK")
            BY <2>1 DEF Write, Nvs
        <3>. QED
            BY <3>1, <3>2, WriteTypes
    <2>2. CASE DeleteEnter(t) \/ DeleteString(t)
        <3>1. cmd[t] \in Commands
            BY <2>2 DEF TypeInv, LabelInv, DeleteEnter, DeleteString
        <3>2. \/ Nvs(t, EnterKey(cmd[t].id), Absent, "OK")
              \/ Nvs(t, StringKey(cmd[t].id), Absent, "OK")
            BY <2>2 DEF DeleteEnter, DeleteString, Nvs
        <3>. QED
            BY <3>1, <3>2, AbsentEntry
    <2>. QED
        BY <1>1, <2>1, <2>2
<1>. QED
    BY <1>1, <1>2

(* A call for one finger leaves what another reads as.                     *)
LEMMA OthersKept ==
    ASSUME OwnKeys, TypeOK, NEW t \in Threads, cmd[t] \in Commands,
           NEW key \in {StringKey(cmd[t].id), EnterKey(cmd[t].id),
                        NameKey(cmd[t].id)},
           NEW entry, NEW r, Nvs(t, key, entry, r),
           NEW id \in Ids, id # cmd[t].id
    PROVE  View(id)' = View(id)
<1>1. cmd[t].id \in Ids
    BY CommandFields
<1>2. key \notin {StringKey(id), EnterKey(id), NameKey(id)}
    BY <1>1, KeysDisjoint
<1>3. /\ nvs'[StringKey(id)] = nvs[StringKey(id)]
      /\ nvs'[EnterKey(id)] = nvs[EnterKey(id)]
      /\ nvs'[NameKey(id)] = nvs[NameKey(id)]
    BY <1>2, KeysAreKeys DEF Nvs, TypeOK
<1>. QED
    BY <1>3 DEF View, GetString, GetEnter, GetName

-----------------------------------------------------------------------------
(* Ok means stored.                                                        *)

\* A step that changes nothing of thread u and nothing in flash.
Kept(u) ==
    /\ pc'[u] = pc[u] /\ cmd'[u] = cmd[u] /\ ret'[u] = ret[u]
    /\ overtaken'[u] = overtaken[u] /\ failed'[u] = failed[u]
    /\ nvs' = nvs /\ storage_ready' = storage_ready

(* A step with no part in a thread or the flash keeps what it wrote.       *)
LEMMA KeptHolds ==
    ASSUME NEW u \in Threads, Kept(u), Holds(u)
    PROVE  Holds(u)'
<1>1. KeysOf(cmd[u])' = KeysOf(cmd[u]) /\ EntryOf(cmd[u])' = EntryOf(cmd[u])
    BY DEF Kept, KeysOf, KeyOf, EntryOf
<1>2. \A key : Wrote(u, key)' <=> Wrote(u, key)
    BY DEF Kept, Wrote, RepliesOk
<1>. QED
    BY <1>1, <1>2 DEF Kept, Holds

(* Another thread's nvs_*() call leaves what a thread wrote, or overtakes  *)
(* it: whatever key it writes, and whatever it does to the thread's own.   *)
LEMMA OthersHold ==
    ASSUME TypeOK, NEW t \in Threads, NEW key \in Keys, NEW entry, NEW r,
           Nvs(t, key, entry, r),
           NEW u \in Threads, u # t, pc'[u] = pc[u], ret'[u] = ret[u],
           Holds(u)
    PROVE  Holds(u)'
<1>1. cmd' = cmd /\ storage_ready' = storage_ready /\ failed'[u] = failed[u]
    BY DEF Nvs, TypeOK
<1>2. KeysOf(cmd[u])' = KeysOf(cmd[u]) /\ EntryOf(cmd[u])' = EntryOf(cmd[u])
    BY <1>1 DEF KeysOf, KeyOf, EntryOf
<1>3. \A k : Wrote(u, k)' <=> Wrote(u, k)
    BY <1>1 DEF Wrote, RepliesOk
<1>4. \A k \in KeysOf(cmd[u]) \ overtaken'[u] :
          k \in KeysOf(cmd[u]) \ overtaken[u] /\ nvs'[k] = nvs[k]
    <2>1. CASE r = "OK"
        <3>1. overtaken'[u] = overtaken[u] \cup ({key} \cap KeysOf(cmd[u]))
            BY <2>1 DEF Nvs
        <3>2. nvs' = [nvs EXCEPT ![key] = entry]
            BY <2>1 DEF Nvs
        <3>3. KeysOf(cmd[u]) \subseteq Keys
            BY KeysOfTypes DEF TypeOK
        <3>. QED
            BY <3>1, <3>2, <3>3 DEF TypeOK
    <2>2. CASE r # "OK"
        BY <2>2 DEF Nvs
    <2>. QED
        BY <2>1, <2>2
<1>. QED
    BY <1>2, <1>3, <1>4 DEF Holds

(* Every step keeps what every thread wrote.                               *)
LEMMA HoldsStep ==
    ASSUME TypeInv, [Next]_vars, \A t \in Threads : Holds(t)
    PROVE  \A t \in Threads : Holds(t)'
<1>1. ASSUME NEW t \in Threads, NEW c \in Commands, Start(t, c)
      PROVE  \A u \in Threads : Holds(u)'
    <2> SUFFICES ASSUME NEW u \in Threads PROVE Holds(u)'
        OBVIOUS
    <2>1. CASE u = t
        <3>1. /\ pc'[t] # "delete_string" /\ cmd'[t] = c
              /\ storage_ready' = storage_ready
            BY <1>1 DEF Start, FirstDelete, TypeInv, TypeOK
        <3>2. pc'[t] = "reply" => ~storage_ready /\ ret'[t] = "ENODEV"
            BY <1>1 DEF Start, FirstDelete, TypeInv, TypeOK
        <3>3. \A key : ~Wrote(t, key)'
            BY <3>1, <3>2 DEF Wrote, RepliesOk
        <3>. QED
            BY <2>1, <3>3 DEF Holds
    <2>2. CASE u # t
        <3>1. Kept(u)
            BY <1>1, <2>2 DEF Kept, Start, TypeInv, TypeOK
        <3>. QED
            BY <3>1, KeptHolds
    <2>. QED
        BY <2>1, <2>2
<1>2. ASSUME NEW t \in Threads, Write(t)
      PROVE  \A u \in Threads : Holds(u)'
    <2>1. cmd[t] \in Commands /\ cmd[t].op # "delete_finger"
        BY <1>2 DEF TypeInv, LabelInv, Write
    <2>2. PICK r \in {"OK", "EIO"} :
              /\ Nvs(t, KeyOf(cmd[t]), EntryOf(cmd[t]), r)
              /\ ret' = [ret EXCEPT ![t] = r]
        BY <1>2 DEF Write, WriteResult
    <2>3. KeyOf(cmd[t]) \in Keys
        BY <2>1, WriteTypes, CommandFields, KeysAreKeys
    <2>4. Holds(t)'
        <3>1. pc'[t] = "reply" /\ cmd' = cmd /\ ret'[t] = r
            BY <1>2, <2>2 DEF Write, Nvs, TypeInv, TypeOK
        <3>2. CASE r = "OK"
            <4>1. nvs'[KeyOf(cmd[t])] = EntryOf(cmd[t])
                BY <2>2, <2>3, <3>2 DEF Nvs, TypeInv, TypeOK
            <4>2. KeysOf(cmd[t]) = {KeyOf(cmd[t])}
                BY <2>1, CommandFields DEF KeysOf
            <4>3. /\ KeysOf(cmd[t])' = KeysOf(cmd[t])
                  /\ EntryOf(cmd[t])' = EntryOf(cmd[t])
                BY <3>1 DEF KeysOf, KeyOf, EntryOf
            <4>. QED
                BY <4>1, <4>2, <4>3 DEF Holds
        <3>3. CASE r = "EIO"
            <4>1. \A key : ~Wrote(t, key)'
                BY <2>1, <3>1, <3>3 DEF Wrote, RepliesOk
            <4>. QED
                BY <4>1 DEF Holds
        <3>. QED
            BY <3>2, <3>3
    <2>5. ASSUME NEW u \in Threads, u # t PROVE Holds(u)'
        <3>1. pc'[u] = pc[u] /\ ret'[u] = ret[u]
            BY <1>2, <2>2, <2>5 DEF Write, TypeInv, TypeOK
        <3>. QED
            BY <2>2, <2>3, <2>5, <3>1, OthersHold DEF TypeInv
    <2>. QED
        BY <2>4, <2>5
<1>3. ASSUME NEW t \in Threads, DeleteEnter(t)
      PROVE  \A u \in Threads : Holds(u)'
    <2>1. cmd[t] \in Commands /\ cmd[t].op = "delete_finger"
        BY <1>3 DEF TypeInv, LabelInv, DeleteEnter
    <2>2. PICK r \in {"OK", "EIO"} : Nvs(t, EnterKey(cmd[t].id), Absent, r)
        BY <1>3 DEF DeleteEnter
    <2>3. EnterKey(cmd[t].id) \in Keys
        BY <2>1, KeysAreKeys, CommandFields
    <2>4. Holds(t)'
        <3>1. pc'[t] = "delete_string" /\ cmd' = cmd
            BY <1>3, <2>2 DEF DeleteEnter, FirstDelete, Nvs, TypeInv, TypeOK
        <3>2. EnterKey(cmd[t].id) \notin failed'[t]
                  => nvs'[EnterKey(cmd[t].id)] = Absent
            BY <2>2, <2>3 DEF Nvs, TypeInv, TypeOK
        <3>3. EntryOf(cmd[t])' = Absent
            BY <2>1, <3>1 DEF EntryOf
        <3>. QED
            BY <3>1, <3>2, <3>3 DEF Holds, Wrote
    <2>5. ASSUME NEW u \in Threads, u # t PROVE Holds(u)'
        <3>1. pc'[u] = pc[u] /\ ret'[u] = ret[u]
            BY <1>3, <2>5 DEF DeleteEnter, TypeInv, TypeOK
        <3>. QED
            BY <2>2, <2>3, <2>5, <3>1, OthersHold DEF TypeInv
    <2>. QED
        BY <2>4, <2>5
<1>4. ASSUME NEW t \in Threads, DeleteString(t)
      PROVE  \A u \in Threads : Holds(u)'
    <2>1. cmd[t] \in Commands /\ cmd[t].op = "delete_finger"
        BY <1>4 DEF TypeInv, LabelInv, DeleteString
    <2>2. PICK r \in {"OK", "EIO"} : Nvs(t, StringKey(cmd[t].id), Absent, r)
        BY <1>4 DEF DeleteString
    <2>3. StringKey(cmd[t].id) \in Keys /\ EnterKey(cmd[t].id) \in Keys
        BY <2>1, KeysAreKeys, CommandFields
    <2>4. Holds(t)'
        <3>1. /\ pc[t] = "delete_string" /\ pc'[t] = "reply" /\ cmd' = cmd
            BY <1>4, <2>2 DEF DeleteString, FirstDelete, Nvs, TypeInv, TypeOK
        <3>2. EntryOf(cmd[t])' = Absent /\ EntryOf(cmd[t]) = Absent
            BY <2>1, <3>1 DEF EntryOf
        <3>3. /\ KeysOf(cmd[t]) = {StringKey(cmd[t].id), EnterKey(cmd[t].id)}
              /\ KeysOf(cmd[t])' = KeysOf(cmd[t])
            BY <2>1, <3>1 DEF KeysOf, KeyOf
        <3>4. StringKey(cmd[t].id) \notin failed'[t]
                  => nvs'[StringKey(cmd[t].id)] = Absent
            BY <2>2, <2>3 DEF Nvs, TypeInv, TypeOK
        <3>5. ASSUME EnterKey(cmd[t].id) \notin overtaken'[t] \cup failed'[t]
              PROVE  nvs'[EnterKey(cmd[t].id)] = Absent
            <4>1. StringKey(cmd[t].id) # EnterKey(cmd[t].id)
                BY <2>1, CommandFields, StringIsNotEnter
            <4>2. EnterKey(cmd[t].id) \notin overtaken[t] \cup failed[t]
                BY <2>2, <3>5, <4>1 DEF Nvs, TypeInv, TypeOK
            <4>3. nvs[EnterKey(cmd[t].id)] = Absent
                BY <3>1, <3>2, <3>3, <4>2 DEF Holds, Wrote
            <4>. QED
                BY <2>2, <4>1, <4>3 DEF Nvs, TypeInv, TypeOK
        <3>6. ASSUME NEW key \in KeysOf(cmd[t]) \ overtaken'[t],
                     Wrote(t, key)'
              PROVE  nvs'[key] = Absent
            <4>1. key \notin failed'[t]
                BY <2>1, <3>1, <3>6 DEF Wrote
            <4>. QED
                BY <3>3, <3>4, <3>5, <4>1
        <3>. QED
            BY <3>2, <3>3, <3>6 DEF Holds
    <2>5. ASSUME NEW u \in Threads, u # t PROVE Holds(u)'
        <3>1. pc'[u] = pc[u] /\ ret'[u] = ret[u]
            BY <1>4, <2>5 DEF DeleteString, TypeInv, TypeOK
        <3>. QED
            BY <2>2, <2>3, <2>5, <3>1, OthersHold DEF TypeInv
    <2>. QED
        BY <2>4, <2>5
<1>5. ASSUME NEW t \in Threads, Reply(t)
      PROVE  \A u \in Threads : Holds(u)'
    <2> SUFFICES ASSUME NEW u \in Threads PROVE Holds(u)'
        OBVIOUS
    <2>1. CASE u = t
        BY <1>5, <2>1 DEF Holds, Wrote, Reply, TypeInv, TypeOK
    <2>2. CASE u # t
        <3>1. Kept(u)
            BY <1>5, <2>2 DEF Kept, Reply, TypeInv, TypeOK
        <3>. QED
            BY <3>1, KeptHolds
    <2>. QED
        BY <2>1, <2>2
<1>6. CASE Reboot
    BY <1>6 DEF Holds, Wrote, Reboot
<1>7. CASE UNCHANGED vars
    <2>1. \A u \in Threads : Kept(u)
        BY <1>7 DEF vars, Kept
    <2>. QED
        BY <2>1, KeptHolds
<1>. QED
    BY <1>1, <1>2, <1>3, <1>4, <1>5, <1>6, <1>7 DEF Next

(* Init establishes the inductive invariant.                               *)
LEMMA StoredInvInit == Init => StoredInv
<1>1. Init => WrittenInv
    BY DEF Init, WrittenInv, Holds, Wrote
<1>. QED
    BY <1>1, TypeInvInit DEF StoredInv

(* Every step keeps the inductive invariant.                               *)
LEMMA StoredInvStep == StoredInv /\ [Next]_vars => StoredInv'
BY TypeInvStep, HoldsStep DEF StoredInv, WrittenInv

(* The inductive invariant holds of every reachable state.                 *)
THEOREM Invariance == Spec => []StoredInv
BY StoredInvInit, StoredInvStep, PTL DEF Spec

(* An entry written is what its command's client asked to be read.         *)
LEMMA WrittenIsDone ==
    ASSUME NEW c \in Commands, NEW key \in KeysOf(c), nvs[key] = EntryOf(c)
    PROVE  Done(c, key)
<1>1. CASE c.op = "update_finger"
    <2>1. key = StringKey(c.id)
        BY <1>1 DEF KeysOf, KeyOf
    <2>. QED
        BY <1>1, <2>1 DEF Done, GetString, EntryOf, Entry, Absent
<1>2. CASE c.op = "set_finger_enter"
    <2>1. key = EnterKey(c.id) /\ c.val \in {"on", "off"}
        BY <1>2, CommandFields DEF KeysOf, KeyOf
    <2>. QED
        BY <1>2, <2>1 DEF Done, GetEnter, EntryOf, Entry, Absent, Flag
<1>3. CASE c.op = "set_finger_name"
    <2>1. key = NameKey(c.id)
        BY <1>3 DEF KeysOf, KeyOf
    <2>. QED
        BY <1>3, <2>1 DEF Done, GetName, EntryOf
<1>4. CASE c.op = "delete_finger"
    <2>1. key \in {StringKey(c.id), EnterKey(c.id)} /\ nvs[key] = Absent
        BY <1>4 DEF KeysOf, EntryOf
    <2>2. CASE key = StringKey(c.id)
        BY <1>4, <2>1, <2>2 DEF Done, GetString, Entry, Absent
    <2>3. CASE key # StringKey(c.id)
        BY <1>4, <2>1, <2>3 DEF Done, GetEnter
    <2>. QED
        BY <2>2, <2>3
<1>. QED
    BY <1>1, <1>2, <1>3, <1>4, CommandFields

(* What a command answered with ok wrote is in flash until another thread  *)
(* writes the same key, for any number of threads and any ids, and whenever *)
(* the power fails.  An ok says that a write succeeded; of a delete, whose *)
(* result is dropped, it promises no more than those of its two deletes    *)
(* that succeeded, with storage mounted.                                   *)
THEOREM Stored == Spec => []OkMeansStored
<1>1. StoredInv => OkMeansStored
    <2> SUFFICES ASSUME StoredInv, NEW t \in Threads,
                        pc[t] = "reply", RepliesOk(t),
                        NEW key \in KeysOf(cmd[t]) \ overtaken[t],
                        cmd[t].op = "delete_finger" =>
                            storage_ready /\ key \notin failed[t]
                 PROVE  Done(cmd[t], key)
        BY DEF OkMeansStored
    <2>1. nvs[key] = EntryOf(cmd[t])
        BY DEF StoredInv, WrittenInv, Holds, Wrote
    <2>2. cmd[t] \in Commands
        BY DEF StoredInv, TypeInv, LabelInv
    <2>. QED
        BY <2>1, <2>2, WrittenIsDone
<1>. QED
    BY <1>1, Invariance, PTL

-----------------------------------------------------------------------------
(* Action properties.                                                      *)

(* A finger only changes by a command for it.                              *)
THEOREM Isolated ==
    ASSUME OwnKeys
    PROVE  Spec => FingersAreIsolated
<1> DEFINE Changed == \A id \in Ids : View(id)' # View(id)
                         => \E t \in Threads : cmd[t].id = id
<1>1. TypeInv /\ [Next]_vars => Changed
    <2> SUFFICES ASSUME TypeInv, [Next]_vars,
                        NEW id \in Ids, View(id)' # View(id)
                 PROVE  \E t \in Threads : cmd[t].id = id
        OBVIOUS
    <2>1. nvs' # nvs
        BY DEF View, GetString, GetEnter, GetName
    <2>2. PICK t \in Threads :
              /\ cmd[t] \in Commands
              /\ \E key \in {StringKey(cmd[t].id), EnterKey(cmd[t].id),
                             NameKey(cmd[t].id)}, entry \in Entries :
                     Nvs(t, key, entry, "OK")
        BY <2>1, OnlyNvsWrites
    <2>3. PICK key \in {StringKey(cmd[t].id), EnterKey(cmd[t].id),
                        NameKey(cmd[t].id)}, entry \in Entries :
                     Nvs(t, key, entry, "OK")
        BY <2>2
    <2>4. cmd[t].id = id
        BY <2>2, <2>3, OthersKept DEF TypeInv
    <2>. QED
        BY <2>4
<1>2. Spec => []TypeInv
    BY TypeInvInit, TypeInvStep, PTL DEF Spec
<1>. QED
    BY <1>1, <1>2, PTL DEF Spec, FingersAreIsolated

(* A power failure in the middle of a delete leaves no flag behind the     *)
(* string it removed: the flag goes first and, unless its delete fails or  *)
(* another thread sets it again, is gone when the string goes.  Any ids.   *)
THEOREM EnterFirst == Spec => EnterNeverOutlivesString
<1> DEFINE Ordered == \A t \in Threads, id \in Ids :
            /\ cmd[t] = Command("delete_finger", id, EMPTY)
            /\ pc'[t] # pc[t]
            /\ EnterKey(id) \notin overtaken'[t] \cup failed'[t]
            /\ GetString(id) # Absent
            /\ GetString(id)' = Absent
            => ~GetEnter(id)'
<1>1. StoredInv /\ [Next]_vars => Ordered
    <2> SUFFICES ASSUME StoredInv, [Next]_vars,
                        NEW t \in Threads, NEW id \in Ids,
                        cmd[t] = Command("delete_finger", id, EMPTY),
                        pc'[t] # pc[t],
                        EnterKey(id) \notin overtaken'[t] \cup failed'[t],
                        GetString(id) # Absent, GetString(id)' = Absent
                 PROVE  ~GetEnter(id)'
        OBVIOUS
    <2>. USE DEF StoredInv, TypeInv
    <2>1. cmd[t].id = id /\ cmd[t].op = "delete_finger"
        BY DEF Command
    <2>2. StringKey(id) # EnterKey(id)
        BY StringIsNotEnter
    <2>3. nvs'[StringKey(id)] # nvs[StringKey(id)]
        BY DEF GetString
    <2>4. PICK u \in Threads : Write(u) \/ DeleteEnter(u) \/ DeleteString(u)
        BY <2>3, OnlyNvsWrites
    <2>5. u = t
        BY <2>4 DEF Write, DeleteEnter, DeleteString, TypeOK
    <2>6. ~Write(t)
        BY <2>1 DEF LabelInv, Write
    <2>7. ~DeleteEnter(t)
        <3>1. SUFFICES ASSUME DeleteEnter(t) PROVE FALSE
            OBVIOUS
        <3>2. PICK r \in {"OK", "EIO"} : Nvs(t, EnterKey(id), Absent, r)
            BY <2>1, <3>1 DEF DeleteEnter
        <3>. QED
            BY <2>2, <2>3, <3>2 DEF Nvs, TypeOK
    <2>8. DeleteString(t)
        BY <2>4, <2>5, <2>6, <2>7
    <2>9. PICK r \in {"OK", "EIO"} : Nvs(t, StringKey(id), Absent, r)
        BY <2>1, <2>8 DEF DeleteString
    <2>10. EnterKey(id) \notin overtaken[t] \cup failed[t]
        BY <2>2, <2>9 DEF Nvs, TypeOK
    <2>11. nvs[EnterKey(id)] = Absent
        <3>1. EnterKey(id) \in KeysOf(cmd[t]) /\ EntryOf(cmd[t]) = Absent
            BY <2>1 DEF KeysOf, EntryOf
        <3>2. Wrote(t, EnterKey(id))
            BY <2>1, <2>8, <2>10 DEF Wrote, DeleteString
        <3>. QED
            BY <2>10, <3>1, <3>2 DEF WrittenInv, Holds
    <2>12. nvs'[EnterKey(id)] = Absent
        BY <2>2, <2>9, <2>11 DEF Nvs, TypeOK
    <2>. QED
        BY <2>12 DEF GetEnter
<1>. QED
    BY <1>1, Invariance, PTL DEF Spec, EnterNeverOutlivesString
===============================================================================
