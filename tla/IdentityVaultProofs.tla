------------------------ MODULE IdentityVaultProofs -------------------------
(* Theorems about IdentityVault, for any processes and contexts and any     *)
(* number of identities, master keys, kills and power losses.              *)
EXTENDS IdentityVault, WellFoundedInduction, TLAPS

(* The stages between the creation of the key file and its last fsync,     *)
(* those in which a process knows what the vault file is going to be, and  *)
(* those of _ensure_secure_parent.                                         *)
Creating == {"write", "sync", "sync_dir"}
Writing == {"replace", "sync_vault"}
Parents == {"look_above", "make_both", "make", "sync_above", "sync_home", "open"}
NeedsKey == {"key", "create", "reread", "keyed"} \cup Parents \cup Creating

(* What a process has at each stage: a key once it has drawn or read one,  *)
(* a vault file while it loads one and once it has written one.            *)
StageOK ==
    \A p \in Processes :
        /\ stage[p] \in Creating \cup {"keyed"} => key[p] \in Keys
        /\ stage[p] \in Writing \/ (stage[p] \in NeedsKey /\ task[p] = "load")
              => file[p] \in VaultFiles

(* Positions in the dict of contexts are bounded, so that there is a last. *)
PlacesBounded ==
    \A p \in Processes : \A c \in Contexts :
        memory[p].place[c] <= MaxIdentities + made + binds

(* What is at a path may be what a power loss leaves there.                *)
PathsAreLeft == keyFile \in keyLeft /\ vaultFile \in vaultLeft

(* O_EXCL: one process at a time makes the key file, and until it has      *)
(* synced the directory a power loss may leave none.                       *)
OneCreator ==
    \A p \in Processes :
        /\ stage[p] \in Creating =>
              /\ Absent \in keyLeft
              /\ \A q \in Processes : stage[q] \in Creating => q = p
        /\ stage[p] = "write" => keyFile = Empty
        /\ stage[p] \in {"sync", "sync_dir"} => keyFile = key[p]
        /\ stage[p] = "sync_dir" => keyLeft = {Absent, key[p]}

(* A process that has a key has the one in the file; so has what it is     *)
(* about to store.                                                         *)
KeyIsFiled ==
    \A p \in Processes :
        /\ stage[p] = "keyed" =>
              /\ keyFile = key[p]
              /\ ~borrowed => keyLeft = {key[p]}
        /\ stage[p] \in Writing =>
              /\ keyFile = file[p].key
              /\ ~borrowed => keyLeft = {file[p].key}

(* The vault file and the key: VaultOpens, of the two files by themselves. *)
KeysOpen ==
    /\ losses = 0 /\ vaultFile # Absent => keyFile = vaultFile.key
    /\ ~borrowed /\ "secrets" \notin inherited =>
          \A left \in vaultLeft : left # Absent => keyLeft = {left.key}

(* A directory that nobody has to answer for but who found it unsynced.    *)
Anchored(d) == directory[d] = "synced" \/ (directory[d] = "made" /\ d \in inherited)

(* Once _ensure_secure_parent has returned both directories are anchored,  *)
(* and so they are under every file.                                       *)
ParentsAnchored ==
    /\ directory.secrets # "absent" => directory.home # "absent"
    /\ \A p \in Processes :
          /\ stage[p] \in {"make", "sync_home"} => Anchored("home")
          /\ stage[p] \in {"sync_above", "sync_home"} => directory.secrets # "absent"
          /\ stage[p] = "open" => Anchored("home") /\ Anchored("secrets")
    /\ keyFile # Absent => Anchored("home") /\ Anchored("secrets")
    /\ vaultFile # Absent => Anchored("home")

(* What a process has in memory covers the vault file that it comes from.  *)
Covers(p) == base[p] # Absent => base[p].payload.held \subseteq memory[p].held

MemoryCoversBase ==
    \A p \in Processes :
        /\ stage[p] = "up" => Covers(p)
        /\ stage[p] \in NeedsKey =>
              IF task[p] = "load" THEN file[p] = base[p] /\ base[p] # Absent ELSE Covers(p)
        /\ stage[p] \in Writing =>
              Covers(p) /\ task[p] = "save" /\ file[p].payload.held = memory[p].held

(* While save() syncs what it has put there, others only add to it.        *)
ReplacedIsThere ==
    ~overlapped => \A p \in Processes : stage[p] = "sync_vault" =>
        vaultFile # Absent /\ file[p].payload.held \subseteq vaultFile.payload.held

(* SavedIsKept, of the vault file by itself.                               *)
SavedIsLeft ==
    ~overlapped /\ "home" \notin inherited /\ settled # {} =>
        \A left \in vaultLeft \cup {vaultFile} :
            left # Absent /\ settled \subseteq left.payload.held

Typed == TypeOK /\ StageOK /\ PlacesBounded

IInv ==
    /\ Typed /\ PathsAreLeft /\ OneCreator /\ KeyIsFiled /\ KeysOpen
    /\ ParentsAnchored
    /\ MemoryCoversBase /\ ReplacedIsThere /\ SavedIsLeft

(* ----------------------- Least and greatest numbers -------------------- *)

LEMMA LeastNatural ==
    ASSUME NEW S \in SUBSET Nat, S # {}
    PROVE  \E least \in S : \A n \in S : least <= n
  <1> DEFINE less == OpToRel(<, Nat)
  <1>1. IsWellFoundedOn(less, Nat)
    BY NatLessThanWellFounded
  <1>2. \A x, y \in Nat : x < y => <<x, y>> \in less
    BY DEF OpToRel
  <1> HIDE DEF less
  <1>3. PICK least \in S : \A n \in S : ~ (<<n, least>> \in less)
    BY <1>1, WFMin
  <1>4. ASSUME NEW n \in S PROVE least <= n
    <2>1. n \in Nat /\ least \in Nat /\ ~(n < least)
      BY <1>2, <1>3
    <2> QED
      BY <2>1
  <1> QED
    BY <1>4

LEMMA GreatestNatural ==
    ASSUME NEW S \in SUBSET Nat, S # {}, NEW bound \in Nat, \A n \in S : n <= bound
    PROVE  \E greatest \in S : \A n \in S : greatest >= n
  <1> DEFINE R == {bound - n : n \in S}
  <1>0. \A n \in S : bound - n \in Nat
    OBVIOUS
  <1>1. R \in SUBSET Nat /\ R # {}
    BY <1>0
  <1>2. PICK least \in R : \A n \in R : least <= n
    BY <1>1, LeastNatural
  <1>3. PICK greatest \in S : least = bound - greatest
    BY <1>2
  <1>4. ASSUME NEW n \in S PROVE greatest >= n
    <2>1. bound - n \in R
      OBVIOUS
    <2>2. bound - greatest <= bound - n
      BY <2>1, <1>2, <1>3
    <2> QED
      BY <2>2
  <1> QED
    BY <1>4

LEMMA MaxType ==
    ASSUME NEW S \in SUBSET Nat, S # {}, NEW bound \in Nat, \A n \in S : n <= bound
    PROVE  Max(S) \in S /\ \A n \in S : n <= Max(S)
  BY GreatestNatural DEF Max

LEMMA MinType ==
    ASSUME NEW S \in SUBSET Nat, S # {}
    PROVE  Min(S) \in S
  BY LeastNatural DEF Min

(* ------------------------ Identities and contexts ---------------------- *)

LEMMA NoMemoryType ==
    NoMemory \in Memories /\ \A c \in Contexts : NoMemory.place[c] = 0
  BY DEF NoMemory, Memories

(* Binding a context moves no position up by more than one.                *)
LEMMA BindType ==
    ASSUME NEW m \in Memories, NEW uuid \in Uuids, NEW context \in Contexts,
           NEW bound \in Nat, \A c \in Contexts : m.place[c] <= bound
    PROVE  /\ Bind(m, uuid, context) \in Memories
           /\ Bind(m, uuid, context).held = m.held \cup {uuid}
           /\ \A c \in Contexts : Bind(m, uuid, context).place[c] <= bound + 1
  <1> DEFINE places == {m.place[c] : c \in Contexts}
  <1>1. places \in SUBSET Nat /\ places # {} /\ \A n \in places : n <= bound
    BY DEF Memories
  <1>2. Max(places) \in Nat /\ Max(places) <= bound
    BY <1>1, MaxType
  <1> DEFINE place == IF m.bound[context] # NoValue THEN m.place
                      ELSE [m.place EXCEPT ![context] = 1 + Max(places)]
  <1>3. place \in [Contexts -> Nat] /\ \A c \in Contexts : place[c] <= bound + 1
    BY <1>2 DEF Memories
  <1>4. Bind(m, uuid, context) = [held |-> m.held \cup {uuid},
                                  bound |-> [m.bound EXCEPT ![context] = uuid],
                                  place |-> place]
    BY DEF Bind
  <1> HIDE DEF place
  <1> QED
    BY <1>3, <1>4 DEF Memories

(* An identity that has a context is stored under one of its own.          *)
LEMMA StoredIsOwn ==
    ASSUME NEW m \in Memories, NEW uuid \in Uuids, ContextsOf(m, uuid) # {}
    PROVE  StoredContext(m, uuid) \in ContextsOf(m, uuid)
  <1> DEFINE own == ContextsOf(m, uuid)
             places == {m.place[c] : c \in own}
  <1>1. own \subseteq Contexts
    BY DEF ContextsOf
  <1>2. places \in SUBSET Nat /\ places # {}
    BY <1>1 DEF Memories
  <1>3. PICK least \in places : \A n \in places : least <= n
    BY <1>2, LeastNatural
  <1>4. \E c \in own : \A other \in own : m.place[c] <= m.place[other]
    BY <1>3
  <1>5. StoredContext(m, uuid) =
            CHOOSE c \in own : \A other \in own : m.place[c] <= m.place[other]
    BY DEF StoredContext
  <1> HIDE DEF own
  <1>6. StoredContext(m, uuid) \in own
    BY <1>4, <1>5
  <1> QED
    BY <1>6 DEF own

LEMMA DumpType ==
    ASSUME NEW m \in Memories, names \in [Uuids -> Contexts \cup {NoValue}]
    PROVE  Dump(m) \in Payloads /\ Dump(m).held = m.held
  <1>1. ASSUME NEW u \in Uuids PROVE StoredContext(m, u) \in Contexts \cup {NoValue}
    <2>1. CASE ContextsOf(m, u) = {}
      BY <2>1 DEF StoredContext
    <2>2. CASE ContextsOf(m, u) # {}
      BY <2>2, StoredIsOwn DEF ContextsOf
    <2> QED
      BY <2>1, <2>2
  <1> QED
    BY <1>1 DEF Dump, Payloads, Memories

LEMMA LoadType ==
    ASSUME NEW payload \in Payloads
    PROVE  /\ Load(payload) \in Memories
           /\ Load(payload).held = payload.held
           /\ \A c \in Contexts : Load(payload).place[c] <= MaxIdentities
  <1> DEFINE with(c) == {u \in payload.held : payload.context[u] = c}
  <1>1. ASSUME NEW c \in Contexts, with(c) # {}
        PROVE  /\ Max(with(c)) \in Uuids
               /\ Min(with(c)) \in Nat /\ Min(with(c)) <= MaxIdentities
    <2>1. /\ with(c) \in SUBSET Uuids /\ with(c) \in SUBSET Nat
          /\ \A n \in with(c) : n <= MaxIdentities
      BY BoundAssumption DEF Payloads, Uuids
    <2>2. Max(with(c)) \in with(c) /\ Min(with(c)) \in with(c)
      BY <1>1, <2>1, MaxType, MinType, BoundAssumption
    <2> QED
      BY <2>1, <2>2
  <1>2. Load(payload) =
            [held |-> payload.held,
             bound |-> [c \in Contexts |-> IF with(c) = {} THEN NoValue ELSE Max(with(c))],
             place |-> [c \in Contexts |-> IF with(c) = {} THEN 0 ELSE Min(with(c))]]
    BY DEF Load
  <1> HIDE DEF with
  <1> QED
    BY <1>1, <1>2, BoundAssumption DEF Memories, Payloads

(* What is saved now is read back with its contexts.                       *)
LEMMA RoundTrip ==
    ASSUME NEW m \in Memories, names \in [Uuids -> Contexts \cup {NoValue}],
           \A u \in m.held : ContextsOf(m, u) # {}
    PROVE  LET after == Load(Dump(m))
           IN  /\ \A u \in m.held : ContextsOf(after, u) # {}
               /\ \A c \in Contexts : after.bound[c] \in {NoValue, m.bound[c]}
  <1> DEFINE payload == Dump(m)
             with(c) == {u \in payload.held : payload.context[u] = c}
             after == Load(payload)
  <1>1. /\ m.held \subseteq Uuids
        /\ payload.held = m.held
        /\ \A u \in m.held : payload.context[u] = StoredContext(m, u)
    BY DEF Dump, Memories
  <1>2. \A u \in m.held : /\ payload.context[u] \in Contexts
                          /\ m.bound[payload.context[u]] = u
    BY <1>1, StoredIsOwn DEF ContextsOf
  <1>3. \A c \in Contexts :
            after.bound[c] = IF with(c) = {} THEN NoValue ELSE Max(with(c))
    BY DEF Load
  <1>4. ASSUME NEW u \in m.held PROVE with(payload.context[u]) = {u}
    BY <1>1, <1>2
  <1>5. ASSUME NEW u \in m.held PROVE Max({u}) = u
    BY <1>1 DEF Max, Uuids
  <1>6. ASSUME NEW c \in Contexts, with(c) # {} PROVE \E u \in m.held : with(c) = {u}
    BY <1>1, <1>4, <1>6
  <1> HIDE DEF with, payload, after
  <1>7. ASSUME NEW u \in m.held PROVE after.bound[payload.context[u]] = u
    BY <1>2, <1>3, <1>4, <1>5
  <1>8. ASSUME NEW u \in m.held PROVE ContextsOf(after, u) # {}
    BY <1>2, <1>7 DEF ContextsOf
  <1>9. ASSUME NEW c \in Contexts PROVE after.bound[c] \in {NoValue, m.bound[c]}
    <2>1. CASE with(c) = {}
      BY <2>1, <1>3
    <2>2. CASE with(c) # {}
      <3>1. PICK u \in with(c) : TRUE
        BY <2>2
      <3>2. u \in m.held /\ payload.context[u] = c
        BY <3>1, <1>1 DEF with
      <3> QED
        BY <3>2, <1>2, <1>7
    <2> QED
      BY <2>1, <2>2
  <1> QED
    BY <1>8, <1>9 DEF after, payload

LEMMA TypeKeepsContexts == TypeOK => RestartKeepsContexts
  <1> SUFFICES ASSUME TypeOK PROVE RestartKeepsContexts
    OBVIOUS
  <1>1. names \in [Uuids -> Contexts \cup {NoValue}]
    BY DEF TypeOK
  <1>2. ASSUME NEW p \in Processes
        PROVE  /\ memory[p] \in Memories
               /\ Load(Dump(memory[p])).held = memory[p].held
    <2>1. memory[p] \in Memories
      BY DEF TypeOK
    <2> QED
      BY <2>1, <1>1, DumpType, LoadType
  <1> QED
    BY <1>1, <1>2, RoundTrip DEF RestartKeepsContexts

(* -------------------------------- Types -------------------------------- *)

LEMMA InitType == Init => Typed
  <1> SUFFICES ASSUME Init PROVE Typed
    OBVIOUS
  <1>1. TypeOK
    <2>1. /\ memory \in [Processes -> Memories]
          /\ made \in 0..MaxIdentities /\ keys \in 0..MaxKeys /\ binds \in 0..MaxBinds
          /\ kills \in 0..MaxKills /\ losses \in 0..MaxLosses
      BY BoundAssumption, NoMemoryType DEF Init
    <2>2. stage \in [Processes -> Stages] /\ task \in [Processes -> {"load", "save", NoValue}]
      BY DEF Init, Stages
    <2>3. directory \in DirectoryStates
      BY DEF Init, DirectoryStates
    <2> QED
      BY <2>1, <2>2, <2>3 DEF Init, TypeOK
  <1>2. StageOK
    BY DEF Init, StageOK, Creating, Writing, Parents, NeedsKey
  <1>3. PlacesBounded
    BY BoundAssumption, NoMemoryType DEF Init, PlacesBounded
  <1> QED
    BY <1>1, <1>2, <1>3 DEF Typed

LEMMA TypeInv == Typed /\ [Next]_vars => Typed'
  <1> SUFFICES ASSUME Typed, [Next]_vars
               PROVE  Typed'
    OBVIOUS
  <1> USE BoundAssumption DEF Typed, TypeOK, StageOK, PlacesBounded, Creating, Writing,
           Parents, NeedsKey, GoTo, files, counters, history
  <1>1. ASSUME NEW p \in Processes, Start(p) PROVE Typed'
    BY <1>1 DEF Start, Stages
  <1>2. ASSUME NEW p \in Processes, NEW c \in Contexts, MakeIdentity(p, c)
        PROVE  Typed'
    <2>1. made + 1 \in Uuids /\ made' \in 0..MaxIdentities
      BY <1>2 DEF MakeIdentity, Uuids
    <2>2. /\ Bind(memory[p], made + 1, c) \in Memories
          /\ \A d \in Contexts : Bind(memory[p], made + 1, c).place[d]
                                    <= MaxIdentities + made + binds + 1
      BY <2>1, BindType
    <2> QED
      BY <1>2, <2>1, <2>2 DEF MakeIdentity, Memories
  <1>3. ASSUME NEW p \in Processes, NEW u \in Uuids, NEW c \in Contexts, AddIdentity(p, u, c)
        PROVE  Typed'
    <2>2. /\ Bind(memory[p], u, c) \in Memories
          /\ \A d \in Contexts : Bind(memory[p], u, c).place[d]
                                    <= MaxIdentities + made + binds + 1
      BY BindType
    <2> QED
      BY <1>3, <2>2 DEF AddIdentity, Memories
  <1>4. ASSUME NEW p \in Processes, Save(p) PROVE Typed'
    BY <1>4 DEF Save, Stages
  <1>5. ASSUME NEW p \in Processes, ReadKey(p) \/ RereadKey(p) PROVE Typed'
    <2>1. CASE keyFile \in Keys
      <3>1. TakeKey(p) /\ stage[p] \in {"key", "reread"}
        BY <1>5, <2>1 DEF ReadKey, RereadKey
      <3>2. borrowed' \in BOOLEAN
        BY <3>1 DEF TakeKey
      <3>3. stage' \in [Processes -> Stages] /\ key' \in [Processes -> Keys \cup {NoValue}]
        BY <2>1, <3>1 DEF TakeKey, Stages
      <3>4. UNCHANGED <<keyFile, vaultFile, keyLeft, vaultLeft, directory, task, file, memory, names,
                        made, keys, binds, kills, losses, base, settled, inherited,
                        overlapped>>
        BY <3>1 DEF TakeKey
      <3>5. StageOK'
        BY <2>1, <3>1 DEF TakeKey
      <3> QED
        BY <3>2, <3>3, <3>4, <3>5
    <2>2. CASE keyFile \notin Keys
      BY <1>5, <2>2 DEF ReadKey, RereadKey, Raise, Stages
    <2> QED
      BY <2>1, <2>2
  <1>6. ASSUME NEW p \in Processes, CreateKeyFile(p) PROVE Typed'
    <2>1. CASE ~NotThere
      BY <1>6, <2>1 DEF CreateKeyFile, Stages
    <2>2. CASE NotThere
      <3>1. keys + 1 \in Keys /\ keys' \in 0..MaxKeys
        BY <1>6, <2>2 DEF CreateKeyFile, Keys
      <3>2. /\ stage[p] = "open"
            /\ keyFile' = Empty /\ keyLeft' = keyLeft \cup {Empty}
            /\ key' = [key EXCEPT ![p] = keys + 1]
            /\ stage' = [stage EXCEPT ![p] = "write"]
            /\ UNCHANGED <<vaultFile, vaultLeft, directory, task, file, memory, names, made,
                           binds, kills, losses, base, settled, borrowed, inherited,
                           overlapped>>
        BY <1>6, <2>2 DEF CreateKeyFile
      <3>3. TypeOK'
        BY <3>1, <3>2 DEF Stages
      <3>4. StageOK'
        BY <3>1, <3>2
      <3> QED
        BY <3>2, <3>3, <3>4
    <2> QED
      BY <2>1, <2>2
  <1>7. ASSUME NEW p \in Processes, WriteKey(p) PROVE Typed'
    BY <1>7 DEF WriteKey, Stages
  <1>8. ASSUME NEW p \in Processes, CreateKeyFails(p) \/ WriteTemporaryFails(p)
        PROVE  Typed'
    BY <1>8 DEF CreateKeyFails, WriteTemporaryFails, Raise, Stages
  <1>9. ASSUME NEW p \in Processes, SyncKey(p) \/ SyncKeyDir(p) PROVE Typed'
    BY <1>9 DEF SyncKey, SyncKeyDir, AfterSync, Stages
  <1>10. ASSUME NEW p \in Processes, Decrypt(p) PROVE Typed'
    <2>1. file[p] \in VaultFiles /\ file[p].payload \in Payloads
      BY <1>10 DEF Decrypt, VaultFiles
    <2>2. /\ Load(file[p].payload) \in Memories
          /\ \A c \in Contexts : Load(file[p].payload).place[c] <= MaxIdentities
      BY <2>1, LoadType
    <2>3. \A c \in Contexts : Load(file[p].payload).place[c] <= MaxIdentities + made + binds
      BY <2>2 DEF Memories
    <2> QED
      BY <1>10, <2>2, <2>3 DEF Decrypt, Raise, Stages
  <1>11. ASSUME NEW p \in Processes, WriteTemporary(p) PROVE Typed'
    BY <1>11, DumpType DEF WriteTemporary, Stages, VaultFiles
  <1>12. ASSUME NEW p \in Processes, Replace(p) PROVE Typed'
    BY <1>12 DEF Replace, Stages
  <1>13. ASSUME NEW p \in Processes, SyncVault(p) PROVE Typed'
    <2>1. directory' \in DirectoryStates
      BY <1>13 DEF SyncVault, SyncHome, DirectoryStates
    <2> QED
      BY <1>13, <2>1 DEF SyncVault, SyncHome, AfterDirectorySync, Stages, VaultFiles, Payloads
  <1>14. ASSUME NEW p \in Processes, Kill(p) PROVE Typed'
    BY <1>14, NoMemoryType DEF Kill, Ended, Stages
  <1>15. CASE PowerLoss
    <2>1. /\ keyFile' \in keyLeft \cup {Absent} /\ keyLeft' = {keyFile'}
          /\ vaultFile' \in vaultLeft \cup {Absent} /\ vaultLeft' = {vaultFile'}
          /\ directory' \in DirectoryStates
      BY <1>15 DEF PowerLoss, Disks, DirectoryStates
    <2> QED
      BY <1>15, <2>1, NoMemoryType DEF PowerLoss, Stages
  <1>16. CASE UNCHANGED vars
    BY <1>16 DEF vars
  <1>17. ASSUME NEW p \in Processes, LookForParents(p) PROVE Typed'
    <2>1. inherited' \in SUBSET Directories
      BY <1>17 DEF LookForParents, Unsynced
    <2>2. /\ stage[p] \in {"create", "look_above"}
          /\ \E next \in {"open", "look_above", "make_both", "make"} :
                stage' = [stage EXCEPT ![p] = next]
      BY <1>17 DEF LookForParents
    <2>3. stage' \in [Processes -> Stages]
      BY <2>2 DEF Stages
    <2>4. UNCHANGED <<keyFile, vaultFile, keyLeft, vaultLeft, directory, task, key, file, memory,
                      names, made, keys, binds, kills, losses, base, settled, borrowed,
                      overlapped>>
      BY <1>17 DEF LookForParents
    <2>5. StageOK'
      BY <2>2, <2>4
    <2> QED
      BY <2>1, <2>3, <2>4, <2>5
  <1>18. ASSUME NEW p \in Processes, MakeParents(p) PROVE Typed'
    <2>1. directory' \in DirectoryStates
      BY <1>18 DEF MakeParents, Mkdir, DirectoryStates
    <2> QED
      BY <1>18, <2>1 DEF MakeParents, Stages
  <1>19. ASSUME NEW p \in Processes, SyncParents(p) PROVE Typed'
    <2>1. directory' \in DirectoryStates
      BY <1>19 DEF SyncParents, SyncHome, DirectoryStates
    <2> QED
      BY <1>19, <2>1 DEF SyncParents, SyncHome, AfterDirectorySync, Stages
  <1> QED
    BY <1>1, <1>2, <1>3, <1>4, <1>5, <1>6, <1>7, <1>8, <1>9, <1>10, <1>11, <1>12, <1>13,
       <1>14, <1>15, <1>16, <1>17, <1>18, <1>19 DEF Next

(* ------------------------- The key and the files ----------------------- *)

KeyFacts == PathsAreLeft /\ OneCreator /\ KeyIsFiled /\ KeysOpen

LEMMA Apart ==
    /\ Absent \notin Keys /\ Empty \notin Keys /\ Absent # Empty
    /\ Absent \notin VaultFiles /\ \A f \in VaultFiles : f.key \in Keys
  BY ValueAssumption DEF VaultFiles

(* Processes that move on without touching the files change nothing about  *)
(* the keys of the others.                                                 *)
LEMMA FilesUntouched ==
    ASSUME KeyFacts, UNCHANGED <<keyFile, vaultFile, keyLeft, vaultLeft, losses, borrowed>>,
           inherited \subseteq inherited',
           \A p \in Processes :
              \/ stage'[p] \notin Creating \cup Writing \cup {"keyed"}
              \/ stage'[p] = stage[p] /\ key'[p] = key[p] /\ file'[p] = file[p]
    PROVE  KeyFacts'
  <1> USE DEF KeyFacts
  <1>1. PathsAreLeft' /\ KeysOpen'
    BY DEF PathsAreLeft, KeysOpen
  <1>2. OneCreator'
    BY DEF OneCreator, Creating
  <1>3. KeyIsFiled'
    BY DEF KeyIsFiled
  <1> QED
    BY <1>1, <1>2, <1>3

(* A process that takes the key of the file.                               *)
LEMMA TakeKeyFacts ==
    ASSUME Typed, KeyFacts, NEW p \in Processes, keyFile \in Keys, TakeKey(p)
    PROVE  KeyFacts'
  <1> USE DEF KeyFacts, TakeKey, GoTo, files, counters, Typed, TypeOK
  <1>1. PathsAreLeft' /\ KeysOpen'
    BY DEF PathsAreLeft, KeysOpen
  <1>2. OneCreator'
    BY DEF OneCreator, Creating
  <1>3. KeyIsFiled'
    BY DEF KeyIsFiled, Writing
  <1> QED
    BY <1>1, <1>2, <1>3

(* A directory that is anchored and that nobody found unsynced stays.      *)
LEMMA AnchoredSurvives ==
    ASSUME NEW d \in Directories, Anchored(d), d \notin inherited
    PROVE  Survives(d) = {TRUE}
  BY DEF Anchored, Survives

(* A directory that is gone takes with it all that was in it.              *)
LEMMA DiskForm ==
    ASSUME NEW disk \in Disks
    PROVE  \E h \in Survives("home"), s \in Survives("secrets"), k \in keyLeft, v \in vaultLeft :
              /\ h \in BOOLEAN /\ s \in BOOLEAN
              /\ disk.home = h /\ disk.secrets = (h /\ s)
              /\ disk.key = (IF h /\ s THEN k ELSE Absent)
              /\ disk.vault = (IF h THEN v ELSE Absent)
  <1>1. PICK h \in Survives("home"), s \in Survives("secrets"), k \in keyLeft, v \in vaultLeft :
           disk = [home |-> h, secrets |-> h /\ s,
                   key |-> IF h /\ s THEN k ELSE Absent, vault |-> IF h THEN v ELSE Absent]
    BY DEF Disks
  <1>2. h \in BOOLEAN /\ s \in BOOLEAN
    BY DEF Survives
  <1> QED
    BY <1>1, <1>2

(* What a power loss leaves opens, as the two files by themselves do.      *)
LEMMA DisksOpen ==
    ASSUME Typed, PathsAreLeft, KeysOpen, ParentsAnchored
    PROVE  VaultOpens
  <1> SUFFICES ASSUME ~borrowed, "secrets" \notin inherited, NEW disk \in Disks,
                      disk.vault # Absent
               PROVE  disk.key = disk.vault.key
    BY DEF VaultOpens, KeysOpen
  <1>1. PICK h \in Survives("home"), s \in Survives("secrets"), k \in keyLeft, v \in vaultLeft :
           /\ h \in BOOLEAN /\ s \in BOOLEAN
           /\ disk.key = (IF h /\ s THEN k ELSE Absent)
           /\ disk.vault = (IF h THEN v ELSE Absent)
    BY DiskForm
  <1>2. h /\ disk.vault = v
    BY <1>1
  <1>3. keyLeft = {v.key} /\ v.key \in Keys
    BY <1>1, <1>2, Apart DEF KeysOpen, Typed, TypeOK
  <1>4. Anchored("secrets")
    BY <1>3, Apart DEF PathsAreLeft, ParentsAnchored
  <1>5. s = TRUE
    BY <1>1, <1>4, AnchoredSurvives DEF Directories
  <1> QED
    BY <1>1, <1>2, <1>3, <1>5

LEMMA InitKeyFacts == Init => KeyFacts
  BY Apart DEF Init, KeyFacts, PathsAreLeft, OneCreator, KeyIsFiled, KeysOpen, Creating, Writing

LEMMA KeyInv == Typed /\ KeyFacts /\ ParentsAnchored /\ [Next]_vars => KeyFacts'
  <1> SUFFICES ASSUME Typed, KeyFacts, ParentsAnchored, [Next]_vars
               PROVE  KeyFacts'
    OBVIOUS
  <1> USE DEF Typed, TypeOK
  <1>1. ASSUME NEW p \in Processes, Start(p) \/ Save(p) PROVE KeyFacts'
    BY <1>1, FilesUntouched DEF Start, Save, GoTo, files, counters, history,
       Creating, Writing
  <1>2. ASSUME NEW p \in Processes, NEW c \in Contexts, MakeIdentity(p, c)
        PROVE  KeyFacts'
    BY <1>2, FilesUntouched DEF MakeIdentity, files, history
  <1>3. ASSUME NEW p \in Processes, NEW u \in Uuids, NEW c \in Contexts, AddIdentity(p, u, c)
        PROVE  KeyFacts'
    BY <1>3, FilesUntouched DEF AddIdentity, files, history
  <1>4. ASSUME NEW p \in Processes, ReadKey(p) \/ RereadKey(p) PROVE KeyFacts'
    <2>1. CASE keyFile \in Keys
      BY <1>4, <2>1, TakeKeyFacts DEF ReadKey, RereadKey
    <2>2. CASE keyFile \notin Keys
      BY <1>4, <2>2, FilesUntouched DEF ReadKey, RereadKey, Raise, GoTo, files, counters,
         history, Creating, Writing
    <2> QED
      BY <2>1, <2>2
  <1>5. ASSUME NEW p \in Processes, CreateKeyFile(p) PROVE KeyFacts'
    <2>1. CASE ~NotThere
      BY <1>5, <2>1, FilesUntouched DEF CreateKeyFile, GoTo, history, Creating, Writing
    <2>2. CASE NotThere
      <3>1. /\ keyFile = Absent /\ Absent \in keyLeft
            /\ keyFile' = Empty /\ keyLeft' = keyLeft \cup {Empty}
            /\ stage' = [stage EXCEPT ![p] = "write"]
            /\ \A q \in Processes : q # p => key'[q] = key[q]
            /\ UNCHANGED <<vaultFile, vaultLeft, file, losses, borrowed, inherited>>
        BY <1>5, <2>2 DEF CreateKeyFile, NotThere, GoTo, history, KeyFacts, PathsAreLeft
      <3>2. \A q \in Processes : stage[q] \notin Creating \cup Writing \cup {"keyed"}
        BY <3>1, Apart DEF KeyFacts, OneCreator, KeyIsFiled, Typed, StageOK, Creating
      <3>3. \A q \in Processes : q # p => stage'[q] \notin Creating \cup Writing \cup {"keyed"}
        BY <3>1, <3>2
      <3>4. PathsAreLeft' /\ KeysOpen'
        BY <3>1, Apart DEF KeyFacts, PathsAreLeft, KeysOpen
      <3>5. OneCreator'
        BY <3>1, <3>3 DEF OneCreator, Creating
      <3>6. KeyIsFiled'
        BY <3>1, <3>3 DEF KeyIsFiled, Writing
      <3> QED
        BY <3>4, <3>5, <3>6 DEF KeyFacts
    <2> QED
      BY <2>1, <2>2
  <1>6. ASSUME NEW p \in Processes, WriteKey(p) PROVE KeyFacts'
    <2>1. /\ stage[p] = "write" /\ keyFile = Empty /\ Absent \in keyLeft /\ key[p] \in Keys
          /\ \A q \in Processes : stage[q] \in Creating => q = p
          /\ keyFile' = key[p] /\ keyLeft' = keyLeft \cup {key[p]}
          /\ stage' = [stage EXCEPT ![p] = "sync"]
          /\ UNCHANGED <<vaultFile, vaultLeft, key, file, losses, borrowed, inherited>>
      BY <1>6 DEF WriteKey, GoTo, counters, history, KeyFacts, OneCreator, StageOK, Creating
    <2>2. \A q \in Processes : stage'[q] \notin Writing \cup {"keyed"}
      BY <2>1, Apart DEF KeyFacts, KeyIsFiled, StageOK, Writing
    <2>3. PathsAreLeft' /\ KeysOpen'
      BY <2>1, Apart DEF KeyFacts, PathsAreLeft, KeysOpen
    <2>4. OneCreator'
      BY <2>1 DEF OneCreator, Creating
    <2>5. KeyIsFiled'
      BY <2>2 DEF KeyIsFiled
    <2> QED
      BY <2>3, <2>4, <2>5 DEF KeyFacts
  <1>7. ASSUME NEW p \in Processes, CreateKeyFails(p) \/ WriteTemporaryFails(p)
        PROVE  KeyFacts'
    BY <1>7, FilesUntouched DEF CreateKeyFails, WriteTemporaryFails, Raise, GoTo, files,
       counters, history, Creating, Writing
  <1>8. ASSUME NEW p \in Processes, SyncKey(p) PROVE KeyFacts'
    <2>1. /\ stage[p] = "sync" /\ keyFile = key[p] /\ Absent \in keyLeft /\ key[p] \in Keys
          /\ \A q \in Processes : stage[q] \in Creating => q = p
          /\ keyLeft' = {Absent, key[p]}
          /\ stage' = [stage EXCEPT ![p] = "sync_dir"]
          /\ UNCHANGED <<keyFile, vaultFile, vaultLeft, key, file, losses, borrowed, inherited>>
      BY <1>8 DEF SyncKey, AfterSync, GoTo, counters, history, KeyFacts, OneCreator, StageOK,
         Creating
    <2>2. PathsAreLeft' /\ KeysOpen'
      BY <2>1, Apart DEF KeyFacts, PathsAreLeft, KeysOpen
    <2>3. OneCreator'
      BY <2>1 DEF OneCreator, Creating
    <2>4. KeyIsFiled'
      BY <2>1, Apart DEF KeyFacts, KeyIsFiled, StageOK, Writing
    <2> QED
      BY <2>2, <2>3, <2>4 DEF KeyFacts
  <1>9. ASSUME NEW p \in Processes, SyncKeyDir(p) PROVE KeyFacts'
    <2>1. /\ stage[p] = "sync_dir" /\ keyFile = key[p] /\ keyLeft = {Absent, key[p]}
          /\ key[p] \in Keys
          /\ \A q \in Processes : stage[q] \in Creating => q = p
          /\ keyLeft' = keyLeft \ {Absent}
          /\ stage' = [stage EXCEPT ![p] = "keyed"]
          /\ UNCHANGED <<keyFile, vaultFile, vaultLeft, key, file, losses, borrowed, inherited>>
      BY <1>9 DEF SyncKeyDir, GoTo, counters, history, KeyFacts, OneCreator, StageOK, Creating
    <2>2. keyLeft' = {key[p]}
      BY <2>1, Apart
    <2>3. PathsAreLeft' /\ KeysOpen'
      BY <2>1, <2>2, Apart DEF KeyFacts, PathsAreLeft, KeysOpen
    <2>4. OneCreator'
      BY <2>1 DEF OneCreator, Creating
    <2>5. KeyIsFiled'
      BY <2>1, <2>2, Apart DEF KeyFacts, KeyIsFiled, StageOK, Writing
    <2> QED
      BY <2>3, <2>4, <2>5 DEF KeyFacts
  <1>10. ASSUME NEW p \in Processes, Decrypt(p) PROVE KeyFacts'
    BY <1>10, FilesUntouched DEF Decrypt, Raise, GoTo, files, counters, history, Creating, Writing
  <1>11. ASSUME NEW p \in Processes, WriteTemporary(p) PROVE KeyFacts'
    <2>1. /\ stage[p] = "keyed" /\ stage' = [stage EXCEPT ![p] = "replace"]
          /\ file'[p].key = key[p]
          /\ \A q \in Processes : q # p => file'[q] = file[q] /\ key'[q] = key[q]
          /\ UNCHANGED <<keyFile, keyLeft, vaultFile, vaultLeft, losses, borrowed, inherited>>
      BY <1>11 DEF WriteTemporary, GoTo, files, counters, history
    <2>2. PathsAreLeft' /\ KeysOpen'
      BY <2>1 DEF KeyFacts, PathsAreLeft, KeysOpen
    <2>3. OneCreator'
      BY <2>1 DEF KeyFacts, OneCreator, Creating
    <2>4. KeyIsFiled'
      BY <2>1 DEF KeyFacts, KeyIsFiled, Writing
    <2> QED
      BY <2>2, <2>3, <2>4 DEF KeyFacts
  <1>12. ASSUME NEW p \in Processes, Replace(p) PROVE KeyFacts'
    <2>1. /\ stage[p] = "replace" /\ stage' = [stage EXCEPT ![p] = "sync_vault"]
          /\ vaultFile' = file[p] /\ vaultLeft' = vaultLeft \cup {file[p]}
          /\ keyFile = file[p].key /\ (~borrowed => keyLeft = {file[p].key})
          /\ UNCHANGED <<keyFile, keyLeft, key, file, losses, borrowed, inherited>>
      BY <1>12 DEF Replace, GoTo, counters, KeyFacts, KeyIsFiled, Writing
    <2>2. PathsAreLeft' /\ KeysOpen'
      BY <2>1 DEF KeyFacts, PathsAreLeft, KeysOpen
    <2>3. OneCreator'
      BY <2>1 DEF KeyFacts, OneCreator, Creating
    <2>4. KeyIsFiled'
      BY <2>1 DEF KeyFacts, KeyIsFiled, Writing
    <2> QED
      BY <2>2, <2>3, <2>4 DEF KeyFacts
  <1>13. ASSUME NEW p \in Processes, SyncVault(p) PROVE KeyFacts'
    <2>1. /\ stage' = [stage EXCEPT ![p] = "up"]
          /\ vaultLeft' = {vaultFile}
          /\ \A q \in Processes : q # p => file'[q] = file[q]
          /\ UNCHANGED <<keyFile, keyLeft, vaultFile, key, losses, borrowed, inherited>>
      BY <1>13 DEF SyncVault, SyncHome, AfterDirectorySync, GoTo, counters
    <2>2. PathsAreLeft' /\ KeysOpen'
      BY <2>1 DEF KeyFacts, PathsAreLeft, KeysOpen
    <2>3. OneCreator'
      BY <2>1 DEF KeyFacts, OneCreator, Creating
    <2>4. KeyIsFiled'
      BY <2>1 DEF KeyFacts, KeyIsFiled, Writing
    <2> QED
      BY <2>2, <2>3, <2>4 DEF KeyFacts
  <1>14. ASSUME NEW p \in Processes, Kill(p) PROVE KeyFacts'
    BY <1>14, FilesUntouched DEF Kill, Ended, GoTo, files, Creating, Writing
  <1>15. CASE PowerLoss
    <2>1. PICK disk \in Disks :
             /\ keyFile' = disk.key /\ keyLeft' = {disk.key}
             /\ vaultFile' = disk.vault /\ vaultLeft' = {disk.vault}
             /\ \A q \in Processes : stage'[q] = "down"
             /\ losses' # 0 /\ UNCHANGED <<borrowed, inherited>>
      BY <1>15 DEF PowerLoss
    <2>2. PathsAreLeft' /\ KeysOpen'
      BY <2>1, DisksOpen DEF KeyFacts, PathsAreLeft, KeysOpen, VaultOpens
    <2>3. OneCreator' /\ KeyIsFiled'
      BY <2>1 DEF OneCreator, KeyIsFiled, Creating, Writing
    <2> QED
      BY <2>2, <2>3 DEF KeyFacts
  <1>16. CASE UNCHANGED vars
    BY <1>16, FilesUntouched DEF vars
  <1>17. ASSUME NEW p \in Processes, LookForParents(p) \/ MakeParents(p) PROVE KeyFacts'
    <2>1. inherited \subseteq inherited'
      BY <1>17 DEF LookForParents, MakeParents, history
    <2> QED
      BY <1>17, <2>1, FilesUntouched DEF LookForParents, MakeParents, GoTo, files, counters,
         history, Creating, Writing
  <1>18. ASSUME NEW p \in Processes, SyncParents(p) PROVE KeyFacts'
    <2>1. /\ \A q \in Processes : stage'[q] \in {stage[q], "sync_home", "open"}
          /\ vaultLeft' \in {vaultLeft, {vaultFile}}
          /\ UNCHANGED <<keyFile, keyLeft, vaultFile, key, file, losses, borrowed, inherited>>
      BY <1>18 DEF SyncParents, SyncHome, AfterDirectorySync, GoTo, counters, history
    <2>2. PathsAreLeft' /\ KeysOpen'
      BY <2>1 DEF KeyFacts, PathsAreLeft, KeysOpen
    <2>3. OneCreator'
      BY <2>1 DEF KeyFacts, OneCreator, Creating
    <2>4. KeyIsFiled'
      BY <2>1 DEF KeyFacts, KeyIsFiled, Writing
    <2> QED
      BY <2>2, <2>3, <2>4 DEF KeyFacts
  <1> QED
    BY <1>1, <1>2, <1>3, <1>4, <1>5, <1>6, <1>7, <1>8, <1>9, <1>10, <1>11, <1>12, <1>13,
       <1>14, <1>15, <1>16, <1>17, <1>18 DEF Next

(* --------------------------- The directories --------------------------- *)

(* A process that leaves files and directories alone, at whatever stage,   *)
(* as long as it passes none of those that say something of a directory.   *)
LEMMA DirectoriesUntouched ==
    ASSUME ParentsAnchored, inherited \subseteq inherited',
           UNCHANGED <<directory, keyFile, vaultFile>>,
           \A p \in Processes :
              \/ stage'[p] \notin {"make", "sync_above", "sync_home", "open"}
              \/ stage'[p] = stage[p]
    PROVE  ParentsAnchored'
  BY DEF ParentsAnchored, Anchored

LEMMA InitParents == Init => ParentsAnchored
  BY DEF Init, ParentsAnchored, Anchored

LEMMA ParentsInv == Typed /\ KeyFacts /\ ParentsAnchored /\ [Next]_vars => ParentsAnchored'
  <1> SUFFICES ASSUME Typed, KeyFacts, ParentsAnchored, [Next]_vars
               PROVE  ParentsAnchored'
    OBVIOUS
  <1> USE DEF Typed, TypeOK
  <1>1. ASSUME NEW p \in Processes,
               \/ Start(p) \/ Save(p) \/ ReadKey(p) \/ RereadKey(p) \/ CreateKeyFails(p)
               \/ SyncKey(p) \/ SyncKeyDir(p) \/ Decrypt(p) \/ WriteTemporary(p)
               \/ WriteTemporaryFails(p) \/ Kill(p)
        PROVE  ParentsAnchored'
    <2>1. UNCHANGED <<directory, keyFile, vaultFile, inherited>>
      BY <1>1 DEF Start, Save, ReadKey, RereadKey, TakeKey, CreateKeyFails, SyncKey, SyncKeyDir,
         Decrypt, WriteTemporary, WriteTemporaryFails, Kill, files, history
    <2>2. ASSUME NEW q \in Processes
          PROVE  \/ stage'[q] \notin {"make", "sync_above", "sync_home", "open"}
                 \/ stage'[q] = stage[q]
      BY <1>1 DEF Start, Save, ReadKey, RereadKey, TakeKey, CreateKeyFails, SyncKey, SyncKeyDir,
         Decrypt, WriteTemporary, WriteTemporaryFails, Kill, Raise, GoTo
    <2> QED
      BY <2>1, <2>2, DirectoriesUntouched
  <1>2. ASSUME NEW p \in Processes, NEW c \in Contexts, MakeIdentity(p, c)
        PROVE  ParentsAnchored'
    BY <1>2, DirectoriesUntouched DEF MakeIdentity, files, history
  <1>3. ASSUME NEW p \in Processes, NEW u \in Uuids, NEW c \in Contexts, AddIdentity(p, u, c)
        PROVE  ParentsAnchored'
    BY <1>3, DirectoriesUntouched DEF AddIdentity, files, history
  <1>4. ASSUME NEW p \in Processes, LookForParents(p) PROVE ParentsAnchored'
    <2>1. CASE stage[p] = "create" /\ directory.secrets # "absent"
      <3>1. /\ stage' = [stage EXCEPT ![p] = "open"]
            /\ inherited' = inherited \cup {d \in {"home", "secrets"} : directory[d] = "made"}
            /\ UNCHANGED <<directory, keyFile, vaultFile>>
        BY <1>4, <2>1 DEF LookForParents, Unsynced, Directories, GoTo, files
      <3>2. Anchored("home")' /\ Anchored("secrets")'
        BY <2>1, <3>1 DEF Anchored, ParentsAnchored, DirectoryStates
      <3> QED
        BY <3>1, <3>2 DEF ParentsAnchored, Anchored
    <2>2. CASE stage[p] = "create" /\ directory.secrets = "absent"
      BY <1>4, <2>2, DirectoriesUntouched DEF LookForParents, GoTo, files
    <2>3. CASE stage[p] = "look_above" /\ directory.home = "absent"
      BY <1>4, <2>3, DirectoriesUntouched DEF LookForParents, GoTo, files
    <2>4. CASE stage[p] = "look_above" /\ directory.home # "absent"
      <3>1. /\ stage' = [stage EXCEPT ![p] = "make"]
            /\ inherited \subseteq inherited'
            /\ directory.home = "made" => "home" \in inherited'
            /\ UNCHANGED <<directory, keyFile, vaultFile>>
        BY <1>4, <2>4 DEF LookForParents, Unsynced, Directories, GoTo, files
      <3>2. Anchored("home")'
        BY <2>4, <3>1 DEF Anchored, DirectoryStates
      <3> QED
        BY <3>1, <3>2 DEF ParentsAnchored, Anchored
    <2> QED
      BY <1>4, <2>1, <2>2, <2>3, <2>4 DEF LookForParents
  <1>5. ASSUME NEW p \in Processes, MakeParents(p) PROVE ParentsAnchored'
    <2>1. UNCHANGED <<keyFile, vaultFile, inherited>>
      BY <1>5 DEF MakeParents, history
    <2>2. CASE stage[p] = "make_both" /\ directory.home = "absent"
      <3>1. /\ directory' = [directory EXCEPT !.home = "made"]
            /\ UNCHANGED stage
        BY <1>5, <2>2 DEF MakeParents, Mkdir, DirectoryStates
      <3> QED
        BY <2>1, <2>2, <3>1 DEF ParentsAnchored, Anchored, DirectoryStates
    <2>3. CASE stage[p] \in {"make_both", "make"} /\ directory.home # "absent"
      <3>1. /\ directory'.home = directory.home
            /\ directory'.secrets = IF directory.secrets = "absent" THEN "made"
                                    ELSE directory.secrets
            /\ stage' = [stage EXCEPT ![p] = IF stage[p] = "make" THEN "sync_home"
                                              ELSE "sync_above"]
        BY <1>5, <2>3 DEF MakeParents, Mkdir, GoTo, DirectoryStates
      <3> QED
        BY <2>1, <2>3, <3>1 DEF ParentsAnchored, Anchored, DirectoryStates
    <2> QED
      BY <1>5, <2>2, <2>3 DEF MakeParents, ParentsAnchored, Anchored
  <1>6. ASSUME NEW p \in Processes, SyncParents(p) PROVE ParentsAnchored'
    <2>1. UNCHANGED <<keyFile, vaultFile, inherited>>
      BY <1>6 DEF SyncParents, history
    <2>2. CASE stage[p] = "sync_above"
      <3>1. /\ directory'.home = "synced" /\ directory'.secrets = directory.secrets
            /\ stage' = [stage EXCEPT ![p] = "sync_home"]
        BY <1>6, <2>2 DEF SyncParents, GoTo, DirectoryStates
      <3> QED
        BY <2>1, <2>2, <3>1 DEF ParentsAnchored, Anchored, DirectoryStates
    <2>3. CASE stage[p] = "sync_home"
      <3>1. /\ directory'.home = directory.home /\ directory'.secrets = "synced"
            /\ stage' = [stage EXCEPT ![p] = "open"]
        BY <1>6, <2>3 DEF SyncParents, SyncHome, GoTo, ParentsAnchored, DirectoryStates
      <3> QED
        BY <2>1, <2>3, <3>1 DEF ParentsAnchored, Anchored, DirectoryStates
    <2> QED
      BY <1>6, <2>2, <2>3 DEF SyncParents
  <1>7. ASSUME NEW p \in Processes, CreateKeyFile(p) PROVE ParentsAnchored'
    BY <1>7 DEF CreateKeyFile, GoTo, history, ParentsAnchored, Anchored
  <1>8. ASSUME NEW p \in Processes, WriteKey(p) PROVE ParentsAnchored'
    <2>1. keyFile = Empty
      BY <1>8 DEF WriteKey, KeyFacts, OneCreator
    <2> QED
      BY <1>8, <2>1, Apart DEF WriteKey, GoTo, history, ParentsAnchored, Anchored
  <1>9. ASSUME NEW p \in Processes, Replace(p) PROVE ParentsAnchored'
    <2>1. keyFile # Absent
      BY <1>9, Apart DEF Replace, KeyFacts, KeyIsFiled, StageOK, Writing
    <2> QED
      BY <1>9, <2>1 DEF Replace, GoTo, ParentsAnchored, Anchored
  <1>10. ASSUME NEW p \in Processes, SyncVault(p) PROVE ParentsAnchored'
    <2>1. /\ directory'.home = directory.home
          /\ directory'.secrets = IF directory.secrets = "made" THEN "synced"
                                  ELSE directory.secrets
          /\ stage' = [stage EXCEPT ![p] = "up"]
          /\ UNCHANGED <<keyFile, vaultFile, inherited>>
      BY <1>10 DEF SyncVault, SyncHome, GoTo, DirectoryStates
    <2> QED
      BY <2>1 DEF ParentsAnchored, Anchored
  <1>11. CASE PowerLoss
    <2>1. PICK disk \in Disks :
             /\ keyFile' = disk.key /\ vaultFile' = disk.vault
             /\ directory' = [home |-> IF disk.home THEN "synced" ELSE "absent",
                              secrets |-> IF disk.secrets THEN "synced" ELSE "absent"]
             /\ \A q \in Processes : stage'[q] = "down"
      BY <1>11 DEF PowerLoss
    <2>2. /\ disk.secrets => disk.home
          /\ disk.key # Absent => disk.home /\ disk.secrets
          /\ disk.vault # Absent => disk.home
      BY DiskForm
    <2> QED
      BY <2>1, <2>2 DEF ParentsAnchored, Anchored
  <1>12. CASE UNCHANGED vars
    BY <1>12, DirectoriesUntouched DEF vars
  <1> QED
    BY <1>1, <1>2, <1>3, <1>4, <1>5, <1>6, <1>7, <1>8, <1>9, <1>10, <1>11, <1>12 DEF Next

(* ---------------------------- What was saved --------------------------- *)

HeldFacts == MemoryCoversBase /\ ReplacedIsThere /\ SavedIsLeft

(* What MemoryCoversBase says of one process.                              *)
CoversBase(p) ==
    /\ stage[p] = "up" => Covers(p)
    /\ stage[p] \in NeedsKey =>
          IF task[p] = "load" THEN file[p] = base[p] /\ base[p] # Absent ELSE Covers(p)
    /\ stage[p] \in Writing =>
          Covers(p) /\ task[p] = "save" /\ file[p].payload.held = memory[p].held

(* A process that moves on alone, without touching the vault file, has to  *)
(* see to its own memory only.                                             *)
LEMMA VaultUntouched ==
    ASSUME HeldFacts, NEW p \in Processes, CoversBase(p)', stage'[p] # "sync_vault",
           inherited \subseteq inherited',
           UNCHANGED <<vaultFile, vaultLeft, settled, overlapped>>,
           \A q \in Processes : q # p =>
              /\ stage'[q] = stage[q] /\ task'[q] = task[q] /\ file'[q] = file[q]
              /\ memory'[q] = memory[q] /\ base'[q] = base[q]
    PROVE  HeldFacts'
  <1> USE DEF HeldFacts
  <1>1. MemoryCoversBase'
    BY DEF MemoryCoversBase, CoversBase, Covers
  <1>2. ReplacedIsThere' /\ SavedIsLeft'
    BY DEF ReplacedIsThere, SavedIsLeft
  <1> QED
    BY <1>1, <1>2

(* What a power loss leaves of the vault is what it leaves of its file.    *)
LEMMA DisksKeep ==
    ASSUME ParentsAnchored, SavedIsLeft
    PROVE  SavedIsKept
  <1> SUFFICES ASSUME ~overlapped, "home" \notin inherited, settled # {}, NEW disk \in Disks
               PROVE  disk.vault \in vaultLeft
    BY DEF SavedIsKept, SavedIsLeft
  <1>1. Anchored("home")
    BY DEF SavedIsLeft, ParentsAnchored
  <1>2. Survives("home") = {TRUE}
    BY <1>1, AnchoredSurvives DEF Directories
  <1> QED
    BY <1>2, DiskForm

LEMMA InitHeldFacts == Init => HeldFacts
  BY DEF Init, HeldFacts, MemoryCoversBase, ReplacedIsThere, SavedIsLeft, NeedsKey, Parents, Creating,
     Writing

LEMMA HeldInv == Typed /\ ParentsAnchored /\ HeldFacts /\ [Next]_vars => HeldFacts'
  <1> SUFFICES ASSUME Typed, ParentsAnchored, HeldFacts, [Next]_vars
               PROVE  HeldFacts'
    OBVIOUS
  <1> USE DEF Typed, TypeOK
  <1>0. ASSUME NEW p \in Processes PROVE CoversBase(p)
    BY DEF HeldFacts, MemoryCoversBase, CoversBase
  <1>1. ASSUME NEW p \in Processes, Start(p) PROVE HeldFacts'
    <2>1. CoversBase(p)'
      BY <1>1, <1>0 DEF Start, CoversBase, Covers, NeedsKey, Parents, Creating, Writing, GoTo
    <2> QED
      BY <1>1, <2>1, VaultUntouched DEF Start, GoTo, files, counters
  <1>2. ASSUME NEW p \in Processes, NEW c \in Contexts, MakeIdentity(p, c)
        PROVE  HeldFacts'
    <2>1. memory'[p].held = memory[p].held \cup {made + 1}
      BY <1>2 DEF MakeIdentity, Bind
    <2>2. CoversBase(p)'
      BY <1>2, <1>0, <2>1 DEF MakeIdentity, CoversBase, Covers, NeedsKey, Parents, Creating, Writing, history
    <2> QED
      BY <1>2, <2>2, VaultUntouched DEF MakeIdentity, files, history
  <1>3. ASSUME NEW p \in Processes, NEW u \in Uuids, NEW c \in Contexts, AddIdentity(p, u, c)
        PROVE  HeldFacts'
    <2>1. memory'[p].held = memory[p].held \cup {u}
      BY <1>3 DEF AddIdentity, Bind
    <2>2. CoversBase(p)'
      BY <1>3, <1>0, <2>1 DEF AddIdentity, CoversBase, Covers, NeedsKey, Parents, Creating, Writing, history
    <2> QED
      BY <1>3, <2>2, VaultUntouched DEF AddIdentity, files, history
  <1>4. ASSUME NEW p \in Processes, Save(p) PROVE HeldFacts'
    <2>1. CoversBase(p)'
      BY <1>4, <1>0 DEF Save, CoversBase, Covers, NeedsKey, Parents, Creating, Writing, GoTo, history
    <2> QED
      BY <1>4, <2>1, VaultUntouched DEF Save, GoTo, files, history
  <1>5. ASSUME NEW p \in Processes, ReadKey(p) \/ RereadKey(p) PROVE HeldFacts'
    <2>1. CoversBase(p)' /\ stage'[p] # "sync_vault"
      BY <1>5, <1>0 DEF ReadKey, RereadKey, TakeKey, Raise, CoversBase, Covers, NeedsKey, Parents, Creating,
         Writing, GoTo, history
    <2> QED
      BY <1>5, <2>1, VaultUntouched DEF ReadKey, RereadKey, TakeKey, Raise, GoTo, files, history
  <1>6. ASSUME NEW p \in Processes, CreateKeyFile(p) PROVE HeldFacts'
    <2>1. CoversBase(p)' /\ stage'[p] # "sync_vault"
      BY <1>6, <1>0 DEF CreateKeyFile, CoversBase, Covers, NeedsKey, Parents, Creating, Writing, GoTo, history
    <2> QED
      BY <1>6, <2>1, VaultUntouched DEF CreateKeyFile, GoTo, history
  <1>7. ASSUME NEW p \in Processes, WriteKey(p) \/ SyncKey(p) \/ SyncKeyDir(p) PROVE HeldFacts'
    <2>1. CoversBase(p)' /\ stage'[p] # "sync_vault"
      BY <1>7, <1>0 DEF WriteKey, SyncKey, SyncKeyDir, CoversBase, Covers, NeedsKey, Parents, Creating,
         Writing, GoTo, history
    <2> QED
      BY <1>7, <2>1, VaultUntouched DEF WriteKey, SyncKey, SyncKeyDir, GoTo, history
  <1>8. ASSUME NEW p \in Processes, CreateKeyFails(p) \/ WriteTemporaryFails(p)
        PROVE  HeldFacts'
    <2>1. CoversBase(p)' /\ stage'[p] # "sync_vault"
      BY <1>8, <1>0 DEF CreateKeyFails, WriteTemporaryFails, Raise, CoversBase, Covers, NeedsKey, Parents,
         Creating, Writing, GoTo, history
    <2> QED
      BY <1>8, <2>1, VaultUntouched DEF CreateKeyFails, WriteTemporaryFails, Raise, GoTo, files,
         history
  <1>9. ASSUME NEW p \in Processes, Decrypt(p) PROVE HeldFacts'
    <2>1. /\ file[p] = base[p] /\ base[p] # Absent
          /\ file[p].payload \in Payloads
      BY <1>9, <1>0 DEF Decrypt, CoversBase, NeedsKey, Parents, VaultFiles
    <2>2. Load(file[p].payload).held = base[p].payload.held
      BY <2>1, LoadType
    <2>3. CoversBase(p)' /\ stage'[p] # "sync_vault"
      BY <1>9, <2>2 DEF Decrypt, Raise, CoversBase, Covers, NeedsKey, Parents, Creating, Writing, GoTo, history
    <2> QED
      BY <1>9, <2>3, VaultUntouched DEF Decrypt, Raise, GoTo, files, history
  <1>10. ASSUME NEW p \in Processes, WriteTemporary(p) PROVE HeldFacts'
    <2>1. Dump(memory[p]).held = memory[p].held
      BY DumpType
    <2>2. CoversBase(p)' /\ stage'[p] # "sync_vault"
      BY <1>10, <1>0, <2>1 DEF WriteTemporary, CoversBase, Covers, NeedsKey, Parents, Creating, Writing, GoTo,
         history
    <2> QED
      BY <1>10, <2>2, VaultUntouched DEF WriteTemporary, GoTo, files, history
  <1>11. ASSUME NEW p \in Processes, Replace(p) PROVE HeldFacts'
    <2>1. /\ stage[p] = "replace" /\ stage' = [stage EXCEPT ![p] = "sync_vault"]
          /\ file[p] # Absent
          /\ vaultFile' = file[p] /\ vaultLeft' = vaultLeft \cup {file[p]}
          /\ base' = [base EXCEPT ![p] = file[p]]
          /\ overlapped' = (overlapped \/ vaultFile # base[p])
          /\ UNCHANGED <<task, file, memory, settled, inherited>>
      BY <1>11, Apart DEF Replace, GoTo, counters, StageOK, Writing
    <2>2. ~overlapped' => ~overlapped /\ vaultFile = base[p]
      BY <2>1
    <2>3. base[p] # Absent => base[p].payload.held \subseteq file[p].payload.held
      BY <2>1, <1>0 DEF CoversBase, Covers, Writing
    <2>4. MemoryCoversBase'
      <3>1. CoversBase(p)'
        BY <2>1, <1>0 DEF CoversBase, Covers, NeedsKey, Parents, Creating, Writing
      <3>2. \A q \in Processes : q # p => CoversBase(q)'
        BY <2>1, <1>0 DEF CoversBase, Covers
      <3>3. \A q \in Processes : CoversBase(q)'
        BY <3>1, <3>2
      <3> QED
        BY <3>3 DEF MemoryCoversBase, CoversBase
    <2>5. ReplacedIsThere'
      <3> SUFFICES ASSUME ~overlapped', NEW q \in Processes, stage'[q] = "sync_vault"
                   PROVE  file[q].payload.held \subseteq file[p].payload.held
        BY <2>1 DEF ReplacedIsThere
      <3>1. CASE q = p
        BY <3>1
      <3>2. CASE q # p
        <4>1. vaultFile # Absent /\ file[q].payload.held \subseteq vaultFile.payload.held
          BY <3>2, <2>1, <2>2 DEF HeldFacts, ReplacedIsThere
        <4> QED
          BY <4>1, <2>2, <2>3
      <3> QED
        BY <3>1, <3>2
    <2>6. SavedIsLeft'
      <3> SUFFICES ASSUME ~overlapped', "home" \notin inherited, settled # {}
                   PROVE  \A left \in vaultLeft \cup {file[p]} :
                             left # Absent /\ settled \subseteq left.payload.held
        BY <2>1 DEF SavedIsLeft
      <3>1. /\ vaultFile # Absent /\ settled \subseteq vaultFile.payload.held
            /\ \A left \in vaultLeft : left # Absent /\ settled \subseteq left.payload.held
        BY <2>2 DEF HeldFacts, SavedIsLeft
      <3> QED
        BY <3>1, <2>1, <2>2, <2>3
    <2> QED
      BY <2>4, <2>5, <2>6 DEF HeldFacts
  <1>12. ASSUME NEW p \in Processes, SyncVault(p) PROVE HeldFacts'
    <2>1. /\ stage[p] = "sync_vault" /\ stage' = [stage EXCEPT ![p] = "up"]
          /\ vaultLeft' = {vaultFile}
          /\ settled' = settled \cup file[p].payload.held
          /\ task' = [task EXCEPT ![p] = NoValue]
          /\ file' = [file EXCEPT ![p] = Absent]
          /\ UNCHANGED <<vaultFile, memory, base, inherited, overlapped>>
      BY <1>12 DEF SyncVault, SyncHome, AfterDirectorySync, GoTo, counters
    <2>2. MemoryCoversBase'
      <3>1. CoversBase(p)'
        BY <2>1, <1>0 DEF CoversBase, Covers, NeedsKey, Parents, Creating, Writing
      <3>2. \A q \in Processes : q # p => CoversBase(q)'
        BY <2>1, <1>0 DEF CoversBase, Covers
      <3>3. \A q \in Processes : CoversBase(q)'
        BY <3>1, <3>2
      <3> QED
        BY <3>3 DEF MemoryCoversBase, CoversBase
    <2>3. ReplacedIsThere'
      BY <2>1 DEF HeldFacts, ReplacedIsThere
    <2>4. SavedIsLeft'
      BY <2>1 DEF HeldFacts, ReplacedIsThere, SavedIsLeft
    <2> QED
      BY <2>2, <2>3, <2>4 DEF HeldFacts
  <1>13. ASSUME NEW p \in Processes, Kill(p) PROVE HeldFacts'
    <2>1. CoversBase(p)'
      BY <1>13 DEF Kill, Ended, CoversBase, NeedsKey, Parents, Creating, Writing, GoTo
    <2> QED
      BY <1>13, <2>1, VaultUntouched DEF Kill, Ended, GoTo, files
  <1>14. CASE PowerLoss
    <2>1. PICK disk \in Disks :
             /\ vaultFile' = disk.vault /\ vaultLeft' = {disk.vault}
             /\ \A q \in Processes : stage'[q] = "down"
             /\ UNCHANGED <<settled, inherited, overlapped>>
      BY <1>14 DEF PowerLoss
    <2>2. MemoryCoversBase' /\ ReplacedIsThere'
      BY <2>1 DEF MemoryCoversBase, ReplacedIsThere, NeedsKey, Parents, Creating, Writing
    <2>3. SavedIsLeft'
      BY <2>1, DisksKeep DEF HeldFacts, SavedIsLeft, SavedIsKept
    <2> QED
      BY <2>2, <2>3 DEF HeldFacts
  <1>15. CASE UNCHANGED vars
    BY <1>15 DEF vars, HeldFacts, MemoryCoversBase, Covers, ReplacedIsThere, SavedIsLeft
  <1>16. ASSUME NEW p \in Processes, LookForParents(p) \/ MakeParents(p) PROVE HeldFacts'
    <2>1. CoversBase(p)' /\ stage'[p] # "sync_vault" /\ inherited \subseteq inherited'
      BY <1>16, <1>0 DEF LookForParents, MakeParents, CoversBase, Covers, NeedsKey, Parents,
         Creating, Writing, GoTo, history
    <2> QED
      BY <1>16, <2>1, VaultUntouched DEF LookForParents, MakeParents, GoTo, files, history
  <1>17. ASSUME NEW p \in Processes, SyncParents(p) PROVE HeldFacts'
    <2>1. /\ stage[p] \in {"sync_above", "sync_home"}
          /\ stage' = [stage EXCEPT ![p] = IF @ = "sync_above" THEN "sync_home" ELSE "open"]
          /\ vaultLeft' \in {vaultLeft, {vaultFile}}
          /\ UNCHANGED <<vaultFile, task, file, memory, base, settled, inherited, overlapped>>
      BY <1>17 DEF SyncParents, SyncHome, AfterDirectorySync, GoTo, history
    <2>2. MemoryCoversBase'
      BY <2>1 DEF HeldFacts, MemoryCoversBase, Covers, NeedsKey, Parents, Creating, Writing
    <2>3. ReplacedIsThere' /\ SavedIsLeft'
      BY <2>1 DEF HeldFacts, ReplacedIsThere, SavedIsLeft
    <2> QED
      BY <2>2, <2>3 DEF HeldFacts
  <1> QED
    BY <1>1, <1>2, <1>3, <1>4, <1>5, <1>6, <1>7, <1>8, <1>9, <1>10, <1>11, <1>12, <1>13,
       <1>14, <1>15, <1>16, <1>17 DEF Next

(* ------------------------------- Theorems ------------------------------ *)

(* The invariant that the other theorems rest on: what each process has at *)
(* each stage of initialize() and save(), that one process at a time makes *)
(* the key file, which directories are synced under the files, and that    *)
(* memory covers the vault file it comes from.                             *)
THEOREM Invariance == Spec => []IInv
  <1>1. IInv <=> Typed /\ KeyFacts /\ ParentsAnchored /\ HeldFacts
    BY DEF IInv, KeyFacts, HeldFacts
  <1>2. Init => IInv
    BY <1>1, InitType, InitKeyFacts, InitParents, InitHeldFacts
  <1>3. IInv /\ [Next]_vars => IInv'
    <2>1. IInv' <=> Typed' /\ KeyFacts' /\ ParentsAnchored' /\ HeldFacts'
      BY DEF IInv, KeyFacts, HeldFacts
    <2> QED
      BY <1>1, <2>1, TypeInv, KeyInv, ParentsInv, HeldInv
  <1> QED
    BY <1>2, <1>3, PTL DEF Spec

(* Every reachable state of the processes and their files is well typed.   *)
THEOREM VaultTypeCorrect == Spec => []TypeOK
  <1>1. IInv => TypeOK
    BY DEF IInv, Typed
  <1> QED
    BY <1>1, Invariance, PTL

(* The vault file opens with the key file beside it, however many          *)
(* processes race to make the key and its directories (_master_key,        *)
(* _exclusive_secure_create, _ensure_secure_parent) and wherever they are  *)
(* killed; over a power loss too, unless a process went on with a key or a *)
(* .secrets that it found and that was not yet synced.                     *)
THEOREM KeyOpensVault == Spec => []VaultOpens
  <1>1. IInv => VaultOpens
    BY DisksOpen DEF IInv
  <1> QED
    BY <1>1, Invariance, PTL

(* What a save() that returned has stored survives any crash, and every    *)
(* later save() by a process that had read it (_atomic_secure_write),      *)
(* unless the vault's directory was found there unsynced.                  *)
THEOREM SavesAreDurable == Spec => []SavedIsKept
  <1>1. IInv => SavedIsKept
    BY DisksKeep DEF IInv
  <1> QED
    BY <1>1, Invariance, PTL

(* save() followed by initialize() gives no context to another identity,   *)
(* and leaves each identity one of its own.                                *)
THEOREM ContextsSurvive == Spec => []RestartKeepsContexts
  <1>1. IInv => RestartKeepsContexts
    BY TypeKeepsContexts DEF IInv, Typed
  <1> QED
    BY <1>1, Invariance, PTL
=============================================================================
