------------------------------- MODULE KeyStore -------------------------------
(***************************************************************************)
(* The wallet database of one program (nectarstorage/masterpassword.py,    *)
(* base.py, sqlite.py, and nectar/wallet/core.py on top of them).          *)
(*                                                                         *)
(* Two objects share one SQLite file: the configuration store, which keeps *)
(* the master key encrypted under the user's password, and the key store,  *)
(* which keeps the private keys encrypted under the master key.  When a    *)
(* statement of one object meets a storage error, that object moves the    *)
(* file aside and goes on in memory; the other object is not told.         *)
(*                                                                         *)
(* Every call is one step.  An object's storage error is a step of its     *)
(* own, taken before the call whose statement meets it: the statement is   *)
(* repeated in memory, so the call goes on as if it began there.           *)
(***************************************************************************)
EXTENDS Integers

CONSTANTS
    Pubs,        \* public keys
    Passwords,   \* passwords the user may give
    NoPassword,  \* the store is locked
    Renames,     \* whether moving the file aside may succeed, and may fail
    Delays,      \* seconds that may pass between one storage error and the next
    MaxNow,      \* bound on the seconds of the clock, which name the files moved aside
    MaxMasters   \* bound on the master keys ever made

ASSUME PasswordAssumption == NoPassword \notin Passwords
ASSUME StorageAssumption ==
    Renames \subseteq BOOLEAN /\ Delays \subseteq Nat /\ MaxNow \in Nat /\ MaxMasters \in Nat

Tables == {"config", "keys"}
Places == {"disk", "memory"}

VARIABLES
    db,          \* the two databases: see Empty
    place,       \* where each object keeps its table: use_memory, sqlite_file
    aside,       \* rows of the file moved aside in each second
    store,       \* MasterPassword: password, and master, 0 for None
    now,         \* the clock, in seconds
    made,        \* number of master keys made so far
    out,         \* how the last call ended
    kept,        \* history: keys written to the disk, and neither removed nor wiped
    stray        \* history: keys written to the disk while it had no master key, or
                 \* left there by a wipe that did not reach them

vars == <<db, place, aside, store, now, made, out, kept, stray>>

-----------------------------------------------------------------------------

\* A database without a file.  master is the key held encrypted under password in
\* the config table, 0 for none; rows are the keys, each with the master it is
\* encrypted under.
Empty == [file |-> FALSE, tables |-> {}, master |-> 0, password |-> NoPassword, rows |-> {}]

\* exists(), create()
WithTables(d, tables) == [d EXCEPT !.file = TRUE, !.tables = @ \cup tables]

\* The database of an object, and whether its table is in it: it is not, when the
\* other object has moved the file aside.
Of(table) == db[place[table]]
Has(table) == table \in Of(table).tables

\* sqlite3.connect makes a missing file, whatever comes next.
Touched(table) == [db EXCEPT ![place[table]].file = TRUE]

Locked == store.password = NoPassword
Rows == Of("keys").rows
Stored(pub) == \E m \in 1..made : <<pub, m>> \in Rows

Init ==
    /\ db = [p \in Places |-> IF p = "disk" THEN WithTables(Empty, Tables) ELSE Empty]
    /\ place = [t \in Tables |-> "disk"]
    /\ aside = [n \in 0..MaxNow |-> {}]
    /\ store = [password |-> NoPassword, master |-> 0]
    /\ now = 0 /\ made = 0 /\ out = "none"
    /\ kept = {} /\ stray = {}

\* The file system and the clock stay as they are, and no keys come or go.
NoKeys == UNCHANGED <<place, aside, now, kept, stray>>

\* A call that ends in an error, or that only reads.
Refused(error) ==
    /\ out' = error
    /\ UNCHANGED <<store, made>>

-----------------------------------------------------------------------------
\* MasterPassword

\* Mutant: a wrong password opens the store under a new master key.
UnlockAnyhow(pwd) ==
    /\ Has("config") /\ NoKeys
    /\ IF Of("config").master # 0 /\ Of("config").password = pwd
       THEN /\ store' = [password |-> pwd, master |-> Of("config").master]
            /\ out' = "ok" /\ UNCHANGED <<db, made>>
       ELSE /\ made < MaxMasters /\ made' = made + 1
            /\ store' = [password |-> pwd, master |-> made']
            /\ db' = [db EXCEPT ![place["config"]].master = made',
                                ![place["config"]].password = pwd]
            /\ out' = "ok"

\* unlock: the password is set before anything is read, and taken back only when
\* it turns out to be wrong.  Without a master key a new one is made and saved.
Unlock(pwd) ==
    /\ NoKeys
    /\ \/ /\ ~Has("config")
          /\ store' = [store EXCEPT !.password = pwd]
          /\ out' = "SQLError" /\ db' = Touched("config") /\ UNCHANGED made
       \/ /\ Has("config") /\ Of("config").master # 0
          /\ IF Of("config").password = pwd
             THEN /\ store' = [password |-> pwd, master |-> Of("config").master]
                  /\ out' = "ok"
             ELSE /\ store' = [store EXCEPT !.password = NoPassword]
                  /\ out' = "WrongMasterPassword"
          /\ UNCHANGED <<db, made>>
       \/ /\ Has("config") /\ Of("config").master = 0
          /\ made < MaxMasters /\ made' = made + 1
          /\ store' = [password |-> pwd, master |-> made']
          /\ db' = [db EXCEPT ![place["config"]].master = made',
                              ![place["config"]].password = pwd]
          /\ out' = "ok"

\* newWallet: only when there are no keys yet.
NewWallet(pwd) ==
    IF ~Has("keys") THEN Refused("SQLError") /\ db' = Touched("keys") /\ NoKeys
    ELSE IF Rows # {} THEN Refused("WalletExists") /\ UNCHANGED db /\ NoKeys
    ELSE Unlock(pwd)

Lock ==
    /\ store' = [password |-> NoPassword, master |-> 0]
    /\ out' = "ok"
    /\ UNCHANGED <<db, made>> /\ NoKeys

\* What locked() leads to: it reads the configuration when there is no password.
LockedError == IF Has("config") THEN "WalletLocked" ELSE "SQLError"

\* Mutant: the new password is saved with a new master key.
ChangeMaster(pwd) ==
    /\ ~Locked /\ store.master # 0 /\ Has("config")
    /\ made < MaxMasters /\ made' = made + 1
    /\ store' = [password |-> pwd, master |-> made']
    /\ db' = [db EXCEPT ![place["config"]].master = made', ![place["config"]].password = pwd]
    /\ out' = "ok" /\ NoKeys

\* change_password: the master key in memory is saved under the new password.
ChangePassword(pwd) ==
    /\ NoKeys
    /\ \/ Locked /\ Refused(LockedError) /\ UNCHANGED db
       \/ /\ ~Locked /\ UNCHANGED made
          /\ store' = [store EXCEPT !.password = pwd]
          /\ IF store.master = 0 THEN out' = "NoMaster" /\ UNCHANGED db
             ELSE IF ~Has("config") THEN out' = "SQLError" /\ db' = Touched("config")
             ELSE /\ out' = "ok"
                  /\ db' = [db EXCEPT ![place["config"]].master = store.master,
                                      ![place["config"]].password = pwd]

-----------------------------------------------------------------------------
\* The keys

\* addPrivateKey
Add(pub) ==
    LET row == <<pub, store.master>>
        onDisk == IF place["keys"] = "disk" THEN {row} ELSE {}
    IN IF ~Has("keys") THEN Refused("SQLError") /\ db' = Touched("keys") /\ NoKeys
       ELSE IF Stored(pub) THEN Refused("KeyAlreadyInStore") /\ UNCHANGED db /\ NoKeys
       ELSE IF Locked THEN Refused(LockedError) /\ UNCHANGED db /\ NoKeys
       ELSE IF store.master = 0 THEN Refused("NoMaster") /\ UNCHANGED db /\ NoKeys
       ELSE /\ db' = [db EXCEPT ![place["keys"]].rows = @ \cup {row}]
            /\ kept' = kept \cup onDisk
            /\ stray' = stray \cup (IF db["disk"].master = 0 THEN onDisk ELSE {})
            /\ out' = "ok"
            /\ UNCHANGED <<place, aside, store, now, made>>

\* getPrivateKeyForPublicKey
Get(pub) ==
    /\ Refused(IF ~Has("keys") THEN "SQLError"
               ELSE IF ~Stored(pub) THEN "MissingKey"
               ELSE IF Locked THEN LockedError
               ELSE IF <<pub, store.master>> \in Rows THEN "ok" ELSE "Undecryptable")
    /\ db' = IF Has("keys") THEN db ELSE Touched("keys")
    /\ NoKeys

Without(d, rows) == [d EXCEPT !.rows = @ \ rows]

\* removePrivateKeyFromPublicKey
Remove(pub) ==
    LET rows == {pub} \X (1..made)
    IN /\ Refused(IF Has("keys") THEN "ok" ELSE "SQLError")
       /\ db' = IF Has("keys") THEN [db EXCEPT ![place["keys"]] = Without(@, rows)]
                               ELSE Touched("keys")
       /\ kept' = IF Has("keys") /\ place["keys"] = "disk" THEN kept \ rows ELSE kept
       /\ UNCHANGED <<place, aside, now, stray>>

\* wipe_masterpassword; without the table there is nothing to wipe.
WipedMaster(d) ==
    [d EXCEPT ![place["config"]].master = 0, ![place["config"]].password = NoPassword]

\* Wallet.wipe: the keys first, then the master key.  The store stays unlocked.
Wipe ==
    LET wiped == [db EXCEPT ![place["keys"]].rows = {}]
    IN \/ ~Has("keys") /\ Refused("SQLError") /\ db' = Touched("keys") /\ NoKeys
       \/ /\ Has("keys")
          /\ Refused(IF Has("config") THEN "ok" ELSE "SQLError")
          /\ db' = IF Has("config") THEN WipedMaster(wiped)
                   ELSE [wiped EXCEPT ![place["config"]].file = TRUE]
          /\ kept' = IF place["keys"] = "disk" THEN kept \ db["disk"].rows ELSE kept
          /\ stray' = stray \cup db'["disk"].rows
          /\ UNCHANGED <<place, aside, now>>

-----------------------------------------------------------------------------
\* Storage errors and restarts

\* Mutant: all files moved aside get the same name.
FallbackSameName(table, touched, renamed) ==
    /\ place[table] = "disk"
    /\ aside' = IF renamed /\ (db["disk"].file \/ touched)
                THEN [aside EXCEPT ![0] = db["disk"].rows] ELSE aside
    /\ db' = [p \in Places |-> IF p = "memory" THEN WithTables(db[p], {table})
                               ELSE IF renamed THEN Empty
                               ELSE [db[p] EXCEPT !.file = @ \/ touched]]
    /\ place' = [place EXCEPT ![table] = "memory"]
    /\ UNCHANGED <<store, made, now, out, kept, stray>>

\* _fallback_to_memory: the file, if there is one (the statement that failed may
\* have made it), is renamed, and the object's table made in memory.
Fallback(table, touched, renamed) ==
    /\ place[table] = "disk"
    /\ \E d \in Delays : now + d <= MaxNow /\ now' = now + d
    /\ aside' = IF renamed /\ (db["disk"].file \/ touched)
                THEN [aside EXCEPT ![now'] = db["disk"].rows] ELSE aside
    /\ db' = [p \in Places |-> IF p = "memory" THEN WithTables(db[p], {table})
                               ELSE IF renamed THEN Empty
                               ELSE [db[p] EXCEPT !.file = @ \/ touched]]
    /\ place' = [place EXCEPT ![table] = "memory"]
    /\ UNCHANGED <<store, made, out, kept, stray>>

\* The program ends, or crashes, and starts again: what was in memory is gone.
Restart ==
    /\ place' = [t \in Tables |-> "disk"]
    /\ db' = [p \in Places |-> IF p = "memory" THEN Empty ELSE WithTables(db[p], Tables)]
    /\ store' = [password |-> NoPassword, master |-> 0]
    /\ out' = "none"
    /\ UNCHANGED <<aside, now, made, kept, stray>>

\* ... and the configuration store meets a storage error as it is opened, so that
\* the key store goes to memory with it.
RestartInMemory(renamed) ==
    /\ \E d \in Delays : now + d <= MaxNow /\ now' = now + d
    /\ aside' = IF renamed THEN [aside EXCEPT ![now'] = db["disk"].rows] ELSE aside
    /\ place' = [t \in Tables |-> "memory"]
    /\ db' = [p \in Places |-> IF p = "memory" THEN WithTables(Empty, Tables)
                               ELSE IF renamed THEN Empty
                               ELSE [db[p] EXCEPT !.file = TRUE]]
    /\ store' = [password |-> NoPassword, master |-> 0]
    /\ out' = "none"
    /\ UNCHANGED <<made, kept, stray>>

Next ==
    \/ \E pwd \in Passwords : Unlock(pwd) \/ NewWallet(pwd) \/ ChangePassword(pwd)
    \/ Lock
    \/ \E pub \in Pubs : Add(pub) \/ Get(pub) \/ Remove(pub)
    \/ Wipe
    \/ \E renamed \in Renames :
         \/ \E table \in Tables, touched \in BOOLEAN : Fallback(table, touched, renamed)
         \/ RestartInMemory(renamed)
    \/ Restart

Spec == Init /\ [][Next]_vars

-----------------------------------------------------------------------------

Outcomes == {"none", "ok", "SQLError", "WrongMasterPassword", "WalletExists", "WalletLocked",
             "NoMaster", "KeyAlreadyInStore", "MissingKey", "Undecryptable"}
KeyRows == Pubs \X (1..made)

Databases ==
    [file : BOOLEAN, tables : SUBSET Tables, master : 0..made,
     password : Passwords \cup {NoPassword}, rows : SUBSET KeyRows]

\* What a database may hold: a master key with the password it is encrypted under,
\* and nothing at all in a table that was never made.
WellFormed(d) ==
    /\ d.master = 0 <=> d.password = NoPassword
    /\ "config" \notin d.tables => d.master = 0
    /\ "keys" \notin d.tables => d.rows = {}
    /\ d.tables # {} => d.file

\* Every variable has its type, and the databases are well formed.
TypeOK ==
    /\ db \in [Places -> Databases] /\ \A p \in Places : WellFormed(db[p])
    /\ place \in [Tables -> Places]
    /\ aside \in [0..MaxNow -> SUBSET KeyRows]
    /\ store \in [password : Passwords \cup {NoPassword}, master : 0..made]
    /\ now \in 0..MaxNow /\ made \in 0..MaxMasters
    /\ out \in Outcomes
    /\ kept \subseteq KeyRows /\ stray \subseteq KeyRows

\* Every key on the disk is encrypted under the master key on the disk, so that the
\* password opens it after the next start, whatever storage errors, restarts, wrong
\* passwords and changes of the password came before.  Excepted are only a key
\* added between a wipe and the next unlock (the wiped store is still unlocked), and
\* one that a wipe has left behind.
KeysOpen == \A row \in db["disk"].rows \ stray : row[2] = db["disk"].master

\* An unlocked store reads every key on the disk that it can see, but for the same
\* exceptions.
UnlockedReads ==
    ~Locked /\ store.master # 0 /\ place["keys"] = "disk" =>
        \A row \in Rows \ stray : row[2] = store.master

\* No key that was written to the disk is lost by a storage error: it is still
\* there, or in a file that was moved aside.
KeysSurvive == kept \subseteq db["disk"].rows \cup UNION {aside[n] : n \in 0..MaxNow}
=============================================================================
