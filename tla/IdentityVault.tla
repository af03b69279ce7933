---------------------------- MODULE IdentityVault -----------------------------
(***************************************************************************)
(* LocalIdentityVault: the identities of a node, in memory and in an       *)
(* encrypted file, and the master key in a file of its own, which the      *)
(* first process that needs one makes.  Processes share the two files.     *)
(*                                                                         *)
(* A step is what a process does up to its next system call that others    *)
(* can tell.  A process may be killed between any two steps, which leaves  *)
(* the files as they are; a power loss ends all processes and leaves of    *)
(* each file and each directory one of the states that the fsync calls so  *)
(* far allow.                                                              *)
(*                                                                         *)
(* The key file is at its default place, in a directory .secrets beside    *)
(* the vault file, so that creating the key makes both directories where   *)
(* they are missing.  What is above them is there to stay.                 *)
(*                                                                         *)
(* An identity is its uuid, numbered as they are made, with the signing    *)
(* key that is made and stored along with it.  Dicts keep the order of     *)
(* insertion: for identities this is the order of their numbers.           *)
(* Left out: a key or a path of the key file given in the environment; tag *)
(* keys, which are stored beside the identities; identities without a      *)
(* private key, stored like the others; legacy files, refused.             *)
(***************************************************************************)
EXTENDS Naturals, FiniteSetsExt

CONSTANTS
    Processes,
    Contexts,        \* what identities are asked for by
    MaxIdentities,   \* bound on the identities made
    MaxKeys,         \* bound on the master keys drawn
    MaxBinds,        \* bound on the calls that bind another context
    MaxKills,        \* bound on the processes killed
    MaxLosses,       \* bound on power losses
    NoValue,         \* Python's None
    Absent, Empty    \* what is at a path: no file, or one without contents yet

ASSUME BoundAssumption ==
    /\ MaxIdentities \in Nat /\ MaxKeys \in Nat /\ MaxBinds \in Nat
    /\ MaxKills \in Nat /\ MaxLosses \in Nat

Uuids == 1..MaxIdentities

Keys == 1..MaxKeys

(* The payload of the vault file: identities, each with one context.       *)
Payloads == [held: SUBSET Uuids, context: [Uuids -> Contexts \cup {NoValue}]]

(* The vault file, by the master key it is encrypted under.                *)
VaultFiles == [key: Keys, payload: Payloads]

(* _identities and _contexts; place is the position in the dict.           *)
Memories ==
    [held: SUBSET Uuids, bound: [Contexts -> Uuids \cup {NoValue}], place: [Contexts -> Nat]]

ASSUME ValueAssumption ==
    /\ NoValue \notin Uuids \cup Contexts \cup Keys
    /\ {Absent, Empty} \cap (Keys \cup VaultFiles) = {}
    /\ Absent # Empty

Stages ==
    {"down", "up", "key", "create", "look_above", "make_both", "make", "sync_above",
     "sync_home", "open", "reread", "write", "sync", "sync_dir", "keyed", "replace",
     "sync_vault"}

(* The directory of the vault file, and .secrets in it.                    *)
Directories == {"home", "secrets"}

(* "made" is there, and its name is not synced.                            *)
DirectoryStates == [home: {"absent", "made", "synced"}, secrets: {"absent", "made", "synced"}]

VARIABLES
    keyFile, vaultFile,   \* what is at the two paths
    keyLeft, vaultLeft,   \* what a power loss now may leave there, if the directory stays
    directory,            \* the two directories
    stage,                \* where each process is
    task,                 \* what it is at: "load", "save" or nothing
    key,                  \* the master key it has
    file,                 \* the vault file it has read, or is about to write
    memory,
    names,                \* displayName of each identity
    made, keys, binds, kills, losses,
    base,        \* history: the vault file that a process's memory comes from
    settled,     \* history: the identities of all saves that have returned
    borrowed,    \* history: a key was taken from a file that a loss may undo
    inherited,   \* history: directories found there that a loss might undo
    overlapped   \* history: a save replaced a file its process had not read

files == <<keyFile, vaultFile, keyLeft, vaultLeft, directory>>
counters == <<names, made, keys, binds, kills, losses>>
history == <<base, settled, borrowed, inherited, overlapped>>
vars == <<keyFile, vaultFile, keyLeft, vaultLeft, directory, stage, task, key, file,
          memory, names, made, keys, binds, kills, losses, base, settled, borrowed,
          inherited, overlapped>>

(* ------------------------ Identities and contexts ---------------------- *)

NoMemory ==
    [held |-> {}, bound |-> [c \in Contexts |-> NoValue], place |-> [c \in Contexts |-> 0]]

(* Binding a context keeps the position of one that is there already.      *)
Bind(m, uuid, context) ==
    [held |-> m.held \cup {uuid},
     bound |-> [m.bound EXCEPT ![context] = uuid],
     place |-> IF m.bound[context] # NoValue THEN m.place
               ELSE [m.place EXCEPT ![context] = 1 + Max({m.place[c] : c \in Contexts})]]

ContextsOf(m, uuid) == {c \in Contexts : m.bound[c] = uuid}

(* Mutant: the context of an identity is taken to be its display name.     *)
DisplayName(m, uuid) == names[uuid]

(* The one context that save() stores for an identity.                     *)
StoredContext(m, uuid) ==
    IF ContextsOf(m, uuid) = {} THEN names[uuid]
    ELSE CHOOSE c \in ContextsOf(m, uuid) :
            \A other \in ContextsOf(m, uuid) : m.place[c] <= m.place[other]

(* save(), the payload.                                                    *)
Dump(m) ==
    [held |-> m.held,
     context |-> [u \in Uuids |-> IF u \in m.held THEN StoredContext(m, u) ELSE NoValue]]

(* initialize(), the payload read back in order: of two identities with    *)
(* one context the later gets it.                                          *)
Load(payload) ==
    LET with(c) == {u \in payload.held : payload.context[u] = c}
    IN  [held |-> payload.held,
         bound |-> [c \in Contexts |-> IF with(c) = {} THEN NoValue ELSE Max(with(c))],
         place |-> [c \in Contexts |-> IF with(c) = {} THEN 0 ELSE Min(with(c))]]

(* -------------------------------- Actions ------------------------------ *)

Init ==
    /\ keyFile = Absent /\ keyLeft = {Absent}
    /\ vaultFile = Absent /\ vaultLeft = {Absent}
    /\ directory \in [home: {"absent", "synced"}, secrets: {"absent"}]
    /\ stage = [p \in Processes |-> "down"]
    /\ task = [p \in Processes |-> NoValue]
    /\ key = [p \in Processes |-> NoValue]
    /\ file = [p \in Processes |-> Absent]
    /\ memory = [p \in Processes |-> NoMemory]
    /\ names = [u \in Uuids |-> NoValue]
    /\ made = 0 /\ keys = 0 /\ binds = 0 /\ kills = 0 /\ losses = 0
    /\ base = [p \in Processes |-> Absent]
    /\ settled = {} /\ borrowed = FALSE /\ inherited = {} /\ overlapped = FALSE

(* What a process does next.                                               *)
GoTo(p, next) == stage' = [stage EXCEPT ![p] = next]

(* initialize(): with no file there is nothing to load and no key needed.  *)
Start(p) ==
    /\ stage[p] = "down"
    /\ GoTo(p, IF vaultFile = Absent THEN "up" ELSE "key")
    /\ task' = [task EXCEPT ![p] = IF vaultFile = Absent THEN NoValue ELSE "load"]
    /\ file' = [file EXCEPT ![p] = vaultFile]
    /\ base' = [base EXCEPT ![p] = vaultFile]
    /\ UNCHANGED <<files, key, memory, counters, settled, borrowed, inherited, overlapped>>

(* identity(): an identity is made for a context that has none.            *)
MakeIdentity(p, context) ==
    /\ stage[p] = "up"
    /\ memory[p].bound[context] = NoValue
    /\ made < MaxIdentities
    /\ made' = made + 1
    /\ names' = [names EXCEPT ![made + 1] = context]
    /\ memory' = [memory EXCEPT ![p] = Bind(@, made + 1, context)]
    /\ UNCHANGED <<files, stage, task, key, file, keys, binds, kills, losses, history>>

(* add_identity() of an identity of this vault: a second object with the   *)
(* same uuid is refused, and for a context that it has nothing changes.    *)
AddIdentity(p, uuid, context) ==
    /\ stage[p] = "up"
    /\ uuid \in memory[p].held
    /\ memory[p].bound[context] # uuid
    /\ binds < MaxBinds
    /\ binds' = binds + 1
    /\ memory' = [memory EXCEPT ![p] = Bind(@, uuid, context)]
    /\ UNCHANGED <<files, stage, task, key, file, names, made, keys, kills, losses, history>>

(* save(), up to the master key.                                           *)
Save(p) ==
    /\ stage[p] = "up"
    /\ GoTo(p, "key")
    /\ task' = [task EXCEPT ![p] = "save"]
    /\ UNCHANGED <<files, key, file, memory, counters, history>>

(* A process takes a key from the file.                                    *)
TakeKey(p) ==
    /\ key' = [key EXCEPT ![p] = keyFile]
    /\ GoTo(p, "keyed")
    /\ borrowed' = (borrowed \/ keyLeft # {keyFile})
    /\ UNCHANGED <<files, task, file, memory, counters, base, settled, inherited, overlapped>>

(* _master_key(): a file that holds a key is used.                         *)
ReadKey(p) ==
    /\ stage[p] = "key"
    /\ \/ keyFile \in Keys /\ TakeKey(p)
       \/ /\ keyFile \notin Keys
          /\ GoTo(p, "create")
          /\ UNCHANGED <<files, task, key, file, memory, counters, history>>

(* The directories that are there and that a power loss might undo.        *)
Unsynced == {d \in Directories : directory[d] = "made"}

(* _ensure_secure_parent(), the directories that are missing, from below.  *)
(* For one that is there nothing is synced, whoever made it.               *)
LookForParents(p) ==
    /\ \/ /\ stage[p] = "create"
          /\ GoTo(p, IF directory.secrets = "absent" THEN "look_above" ELSE "open")
          /\ inherited' = IF directory.secrets = "absent" THEN inherited
                          ELSE inherited \cup Unsynced
       \/ /\ stage[p] = "look_above"
          /\ GoTo(p, IF directory.home = "absent" THEN "make_both" ELSE "make")
          /\ inherited' = inherited \cup (Unsynced \ {"secrets"})
    /\ UNCHANGED <<files, task, key, file, memory, counters, base, settled, borrowed,
                   overlapped>>

(* A directory is made, unless another process was first.                  *)
Mkdir(d) ==
    directory' = [directory EXCEPT ![d] = IF @ = "absent" THEN "made" ELSE @]

(* mkdir(parents=True, exist_ok=True), the upper one first.                *)
MakeParents(p) ==
    /\ \/ /\ stage[p] = "make_both" /\ directory.home = "absent"
          /\ Mkdir("home")
          /\ UNCHANGED stage
       \/ /\ stage[p] = "make_both" /\ directory.home # "absent"
          /\ Mkdir("secrets")
          /\ GoTo(p, "sync_above")
       \/ /\ stage[p] = "make"
          /\ Mkdir("secrets")
          /\ GoTo(p, "sync_home")
    /\ UNCHANGED <<keyFile, keyLeft, vaultFile, vaultLeft, task, key, file, memory, counters,
                   history>>

(* Mutant: an fsync of the vault's directory does nothing.                 *)
ReplacedIsEnough == vaultLeft

(* What the fsync of the vault's directory leaves to chance.               *)
AfterDirectorySync == {vaultFile}

(* The names in it are synced: those of the vault file and of .secrets.    *)
SyncHome ==
    /\ vaultLeft' = AfterDirectorySync
    /\ directory' = [directory EXCEPT !.secrets = IF @ = "made" THEN "synced" ELSE @]

(* fsync of what contains each directory that was missing, from the top.   *)
SyncParents(p) ==
    /\ \/ /\ stage[p] = "sync_above"
          /\ directory' = [directory EXCEPT !.home = "synced"]
          /\ GoTo(p, "sync_home")
          /\ UNCHANGED vaultLeft
       \/ /\ stage[p] = "sync_home"
          /\ SyncHome
          /\ GoTo(p, "open")
    /\ UNCHANGED <<keyFile, keyLeft, vaultFile, task, key, file, memory, counters, history>>

(* Mutant: the key file is opened without O_EXCL.                          *)
MayCreate == TRUE

(* O_CREAT | O_EXCL                                                        *)
NotThere == keyFile = Absent

(* _exclusive_secure_create(): of the key just drawn; FileExistsError if   *)
(* another process was first, or left an empty file.                       *)
CreateKeyFile(p) ==
    /\ stage[p] = "open"
    /\ UNCHANGED <<vaultFile, vaultLeft, directory, task, file, memory, names, made, binds,
                   kills, losses, history>>
    /\ \/ /\ NotThere
          /\ keys < MaxKeys
          /\ keys' = keys + 1
          /\ key' = [key EXCEPT ![p] = keys + 1]
          /\ keyFile' = Empty
          /\ keyLeft' = keyLeft \cup {Empty}
          /\ GoTo(p, "write")
       \/ /\ ~NotThere
          /\ GoTo(p, "reread")
          /\ UNCHANGED <<keyFile, keyLeft, keys, key>>

(* Where an exception leaves a process: initialize() fails, or save().     *)
Raise(p) ==
    /\ GoTo(p, IF task[p] = "load" THEN "down" ELSE "up")
    /\ task' = [task EXCEPT ![p] = NoValue]
    /\ key' = [key EXCEPT ![p] = NoValue]
    /\ file' = [file EXCEPT ![p] = Absent]

(* After FileExistsError: the other's key, or "Concurrent vault master-key *)
(* creation produced invalid key material".                                *)
RereadKey(p) ==
    /\ stage[p] = "reread"
    /\ \/ keyFile \in Keys /\ TakeKey(p)
       \/ /\ keyFile \notin Keys
          /\ Raise(p)
          /\ UNCHANGED <<files, memory, counters, history>>

WriteKey(p) ==
    /\ stage[p] = "write"
    /\ GoTo(p, "sync")
    /\ keyFile' = key[p]
    /\ keyLeft' = keyLeft \cup {key[p]}
    /\ UNCHANGED <<vaultFile, vaultLeft, directory, task, key, file, memory, counters,
                   history>>

(* Making a directory or writing fails, on a full disk for one: what was   *)
(* made so far stays, an empty key file too.                               *)
CreateKeyFails(p) ==
    /\ stage[p] \in {"make_both", "make", "write"}
    /\ Raise(p)
    /\ UNCHANGED <<files, memory, counters, history>>

(* fsync of the file: its contents are there, its name may not be.         *)
AfterSync(p) == {Absent, key[p]}

SyncKey(p) ==
    /\ stage[p] = "sync"
    /\ GoTo(p, "sync_dir")
    /\ keyLeft' = AfterSync(p)
    /\ UNCHANGED <<keyFile, vaultFile, vaultLeft, directory, task, key, file, memory, counters,
                   history>>

(* fsync of the directory: the name is there too.                          *)
SyncKeyDir(p) ==
    /\ stage[p] = "sync_dir"
    /\ GoTo(p, "keyed")
    /\ keyLeft' = keyLeft \ {Absent}
    /\ UNCHANGED <<keyFile, vaultFile, vaultLeft, directory, task, key, file, memory, counters,
                   history>>

(* initialize(), the rest: another key does not decrypt the file.          *)
Decrypt(p) ==
    /\ stage[p] = "keyed" /\ task[p] = "load"
    /\ \/ /\ file[p].key = key[p]
          /\ memory' = [memory EXCEPT ![p] = Load(file[p].payload)]
          /\ GoTo(p, "up")
          /\ task' = [task EXCEPT ![p] = NoValue]
          /\ key' = [key EXCEPT ![p] = NoValue]
          /\ file' = [file EXCEPT ![p] = Absent]
       \/ /\ file[p].key # key[p]
          /\ Raise(p)
          /\ UNCHANGED memory
    /\ UNCHANGED <<files, counters, history>>

(* _atomic_secure_write(), up to the fsync of the temporary file.  Its     *)
(* directory is there, since the one of the key is in it.                  *)
WriteTemporary(p) ==
    /\ stage[p] = "keyed" /\ task[p] = "save"
    /\ GoTo(p, "replace")
    /\ file' = [file EXCEPT ![p] = [key |-> key[p], payload |-> Dump(memory[p])]]
    /\ key' = [key EXCEPT ![p] = NoValue]
    /\ UNCHANGED <<files, task, memory, counters, history>>

(* It fails: the temporary file is removed and the vault is as it was.     *)
WriteTemporaryFails(p) ==
    /\ stage[p] = "keyed" /\ task[p] = "save"
    /\ Raise(p)
    /\ UNCHANGED <<files, memory, counters, history>>

(* os.replace()                                                            *)
Replace(p) ==
    /\ stage[p] = "replace"
    /\ GoTo(p, "sync_vault")
    /\ vaultFile' = file[p]
    /\ vaultLeft' = vaultLeft \cup {file[p]}
    /\ overlapped' = (overlapped \/ vaultFile # base[p])
    /\ base' = [base EXCEPT ![p] = file[p]]
    /\ UNCHANGED <<keyFile, keyLeft, directory, task, key, file, memory, counters, settled,
                   borrowed, inherited>>

(* fsync of the vault's directory; save() returns.                         *)
SyncVault(p) ==
    /\ stage[p] = "sync_vault"
    /\ GoTo(p, "up")
    /\ SyncHome
    /\ settled' = settled \cup file[p].payload.held
    /\ task' = [task EXCEPT ![p] = NoValue]
    /\ file' = [file EXCEPT ![p] = Absent]
    /\ UNCHANGED <<keyFile, keyLeft, vaultFile, key, memory, counters, base, borrowed,
                   inherited, overlapped>>

(* What is left of a process that has ended.                               *)
Ended(p) ==
    /\ task' = [task EXCEPT ![p] = NoValue]
    /\ key' = [key EXCEPT ![p] = NoValue]
    /\ memory' = [memory EXCEPT ![p] = NoMemory]
    /\ file' = [file EXCEPT ![p] = Absent]
    /\ base' = [base EXCEPT ![p] = Absent]

Kill(p) ==
    /\ stage[p] # "down"
    /\ kills < MaxKills
    /\ kills' = kills + 1
    /\ GoTo(p, "down")
    /\ Ended(p)
    /\ UNCHANGED <<files, names, made, keys, binds, losses, settled, borrowed,
                   inherited, overlapped>>

(* Whether a directory may be there after a power loss.                    *)
Survives(d) == IF directory[d] = "made" THEN BOOLEAN ELSE {directory[d] = "synced"}

(* What a power loss now may leave: a directory that is gone takes with it *)
(* all that was in it.                                                     *)
Disks ==
    {[home |-> h, secrets |-> h /\ s,
      key |-> IF h /\ s THEN k ELSE Absent, vault |-> IF h THEN v ELSE Absent] :
        h \in Survives("home"), s \in Survives("secrets"),
        k \in keyLeft, v \in vaultLeft}

PowerLoss ==
    /\ losses < MaxLosses
    /\ losses' = losses + 1
    /\ \E disk \in Disks :
          /\ keyFile' = disk.key /\ keyLeft' = {disk.key}
          /\ vaultFile' = disk.vault /\ vaultLeft' = {disk.vault}
          /\ directory' = [home |-> IF disk.home THEN "synced" ELSE "absent",
                           secrets |-> IF disk.secrets THEN "synced" ELSE "absent"]
    /\ stage' = [p \in Processes |-> "down"]
    /\ task' = [p \in Processes |-> NoValue]
    /\ key' = [p \in Processes |-> NoValue]
    /\ memory' = [p \in Processes |-> NoMemory]
    /\ file' = [p \in Processes |-> Absent]
    /\ base' = [p \in Processes |-> Absent]
    /\ UNCHANGED <<names, made, keys, binds, kills, settled, borrowed, inherited, overlapped>>

Next ==
    \/ \E p \in Processes :
          \/ Start(p)
          \/ \E c \in Contexts : MakeIdentity(p, c)
          \/ \E u \in Uuids, c \in Contexts : AddIdentity(p, u, c)
          \/ Save(p)
          \/ ReadKey(p) \/ LookForParents(p) \/ MakeParents(p) \/ SyncParents(p)
          \/ CreateKeyFile(p) \/ CreateKeyFails(p) \/ RereadKey(p)
          \/ WriteKey(p) \/ SyncKey(p) \/ SyncKeyDir(p)
          \/ Decrypt(p)
          \/ WriteTemporary(p) \/ WriteTemporaryFails(p)
          \/ Replace(p) \/ SyncVault(p)
          \/ Kill(p)
    \/ PowerLoss

Spec == Init /\ [][Next]_vars

(* ------------------------------ Properties ----------------------------- *)

TypeOK ==
    /\ keyFile \in Keys \cup {Absent, Empty}
    /\ keyLeft \in SUBSET (Keys \cup {Absent, Empty})
    /\ vaultFile \in VaultFiles \cup {Absent}
    /\ vaultLeft \in SUBSET (VaultFiles \cup {Absent})
    /\ directory \in DirectoryStates
    /\ stage \in [Processes -> Stages]
    /\ task \in [Processes -> {"load", "save", NoValue}]
    /\ key \in [Processes -> Keys \cup {NoValue}]
    /\ file \in [Processes -> VaultFiles \cup {Absent}]
    /\ memory \in [Processes -> Memories]
    /\ names \in [Uuids -> Contexts \cup {NoValue}]
    /\ made \in 0..MaxIdentities /\ keys \in 0..MaxKeys /\ binds \in 0..MaxBinds
    /\ kills \in 0..MaxKills /\ losses \in 0..MaxLosses
    /\ base \in [Processes -> VaultFiles \cup {Absent}]
    /\ settled \in SUBSET Uuids
    /\ borrowed \in BOOLEAN /\ inherited \in SUBSET Directories /\ overlapped \in BOOLEAN

(* The vault file can be opened with the key file beside it: always while  *)
(* the power stays on, and after a power loss, whatever it leaves, unless  *)
(* a process had gone on with a key, or in a directory .secrets, that the  *)
(* process which made it had not yet synced (_master_key reads the file,   *)
(* and _ensure_secure_parent finds the directory, without an fsync).       *)
VaultOpens ==
    /\ losses = 0 /\ vaultFile # Absent => keyFile = vaultFile.key
    /\ ~borrowed /\ "secrets" \notin inherited =>
          \A disk \in Disks : disk.vault # Absent => disk.key = disk.vault.key

(* An identity that a completed save() stored is in the vault file and in  *)
(* whatever a power loss may leave of it, as long as no process saved over *)
(* a file it had not read and none found the vault's directory made and    *)
(* not yet synced (_atomic_secure_write, _ensure_secure_parent).           *)
SavedIsKept ==
    ~overlapped /\ "home" \notin inherited /\ settled # {} =>
        \A left \in {disk.vault : disk \in Disks} \cup {vaultFile} :
            left # Absent /\ settled \subseteq left.payload.held

(* What save() would write now, read back by initialize(): the same        *)
(* identities; and if each of them has a context, each is found by one of  *)
(* its contexts, and no context leads to another identity than before.     *)
RestartKeepsContexts ==
    \A p \in Processes :
        LET before == memory[p]
            after == Load(Dump(before))
        IN  /\ after.held = before.held
            /\ (\A u \in before.held : ContextsOf(before, u) # {}) =>
                  /\ \A u \in before.held : ContextsOf(after, u) # {}
                  /\ \A c \in Contexts : after.bound[c] \in {NoValue, before.bound[c]}
=============================================================================
