----------------------------- MODULE KeyStore_proofs ----------------------------
(***************************************************************************)
(* Proofs about KeyStore, for any number of keys, passwords, storage       *)
(* errors and restarts.  They hold as long as the damaged file can be      *)
(* moved aside, and no two are within one second: otherwise the key store  *)
(* and its master key part, or one file replaces the other.                *)
(***************************************************************************)
EXTENDS KeyStore, TLAPS

MovesAside == FALSE \notin Renames /\ 0 \notin Delays

disk == db["disk"]
AllOnDisk == \A t \in Tables : place[t] = "disk"

\* As long as both objects use the disk both tables are there.  When one leaves, the file is
\* moved aside, and nobody makes a table again before the next start.
TablesTogether == disk.tables = IF AllOnDisk THEN Tables ELSE {}

\* The master key in memory is the one on the disk, unless that was wiped.
MasterKept == AllOnDisk /\ store.master # 0 => disk.master \in {0, store.master}

\* The name of the next file that is moved aside is free.
NamesFree == \A n \in 0..MaxNow : n > now => aside[n] = {}

StoreInv ==
    /\ TypeOK
    /\ TablesTogether /\ MasterKept /\ NamesFree
    /\ KeysOpen /\ KeysSurvive

-----------------------------------------------------------------------------

LEMMA WithTablesStep ==
    ASSUME NEW d \in Databases, WellFormed(d), NEW tables \in SUBSET Tables
    PROVE  LET e == WithTables(d, tables) IN
           /\ e \in Databases /\ WellFormed(e)
           /\ e.tables = d.tables \cup tables /\ e.file
           /\ e.rows = d.rows /\ e.master = d.master
<1> DEFINE all == d.tables \cup tables
           new == [d EXCEPT !.file = TRUE, !.tables = all]
<1>1. WithTables(d, tables) = new
  BY DEF WithTables
<1>2. all \in SUBSET Tables /\ d.tables \subseteq all
  BY DEF Databases
<1> HIDE DEF all
<1>3. /\ new \in Databases /\ WellFormed(new)
      /\ new.tables = all /\ new.file /\ new.rows = d.rows /\ new.master = d.master
  BY <1>2 DEF Databases, WellFormed
<1> QED
  BY <1>1, <1>3 DEF all

LEMMA StoreInit == Init => StoreInv
<1> SUFFICES ASSUME Init PROVE StoreInv
  OBVIOUS
<1> USE DEF Init
<1>1. /\ made = 0 /\ 0 \in 0..MaxNow /\ 0 \in 0..MaxMasters
      /\ Empty \in Databases /\ WellFormed(Empty)
      /\ WithTables(Empty, Tables) \in Databases /\ WellFormed(WithTables(Empty, Tables))
  <2>1. Empty \in Databases /\ WellFormed(Empty)
    BY DEF Empty, Databases, WellFormed
  <2>2. WithTables(Empty, Tables) \in Databases /\ WellFormed(WithTables(Empty, Tables))
    BY <2>1, WithTablesStep
  <2> QED
    BY <2>1, <2>2, StorageAssumption
<1>2. TypeOK
  BY <1>1 DEF TypeOK, Places, Tables, Outcomes
<1>3. disk = WithTables(Empty, Tables)
  BY DEF disk, Places
<1>4. disk.tables = Tables /\ disk.rows = {}
  BY <1>3 DEF WithTables, Empty
<1>5. TablesTogether /\ MasterKept /\ NamesFree /\ KeysOpen /\ KeysSurvive
  BY <1>4 DEF TablesTogether, AllOnDisk, MasterKept, NamesFree, KeysOpen, KeysSurvive, disk
<1> QED
  BY <1>2, <1>5 DEF StoreInv

\* A database changes at one place.
LEMMA DbStep ==
    ASSUME TypeOK, made' \in 0..MaxMasters, made' >= made,
           NEW p \in Places, NEW d \in Databases', WellFormed(d), db' = [db EXCEPT ![p] = d]
    PROVE  /\ db' \in [Places -> Databases'] /\ \A q \in Places : WellFormed(db'[q])
           /\ db'[p] = d /\ \A q \in Places \ {p} : db'[q] = db[q]
<1>1. Databases \subseteq Databases'
  BY DEF Databases, KeyRows, TypeOK
<1> QED
  BY <1>1 DEF TypeOK

\* An object that finds no table of its own only touches the file.
LEMMA TouchedStep ==
    ASSUME TypeOK, UNCHANGED made, NEW t \in Tables, db' = Touched(t)
    PROVE  /\ db' \in [Places -> Databases'] /\ \A q \in Places : WellFormed(db'[q])
           /\ disk'.tables = disk.tables /\ disk'.master = disk.master /\ disk'.rows = disk.rows
<1> DEFINE p == place[t]
           d == [db[p] EXCEPT !.file = TRUE]
<1>1. p \in Places /\ db[p] \in Databases /\ WellFormed(db[p])
  BY DEF TypeOK
<1>2. /\ d \in Databases /\ WellFormed(d)
      /\ d.tables = db[p].tables /\ d.master = db[p].master /\ d.rows = db[p].rows
  BY <1>1 DEF Databases, WellFormed
<1>3. db' = [db EXCEPT ![p] = d]
  BY DEF Touched
<1>4. Databases' = Databases
  BY DEF Databases, KeyRows
<1> HIDE DEF d, p
<1>5. made' \in 0..MaxMasters /\ made' >= made
  BY DEF TypeOK
<1>6. /\ db' \in [Places -> Databases'] /\ \A q \in Places : WellFormed(db'[q])
      /\ db'[p] = d /\ \A q \in Places \ {p} : db'[q] = db[q]
  BY <1>1, <1>2, <1>3, <1>4, <1>5, DbStep
<1> QED
  BY <1>2, <1>6 DEF disk, Places

\* A call that writes nothing leaves everything in order, whatever becomes of the password.
LEMMA QuietInv ==
    ASSUME StoreInv, NoKeys, UNCHANGED made, out' \in Outcomes,
           db' = db \/ \E t \in Tables : db' = Touched(t),
           store' \in [password : Passwords \cup {NoPassword}, master : 0..made],
           store'.master \in {0, store.master} \/ store'.master = Of("config").master
    PROVE  StoreInv'
<1> USE DEF StoreInv, NoKeys
<1>1. /\ db' \in [Places -> Databases'] /\ \A q \in Places : WellFormed(db'[q])
      /\ disk'.tables = disk.tables /\ disk'.master = disk.master /\ disk'.rows = disk.rows
  <2>1. CASE db' = db
    BY <2>1 DEF TypeOK, Databases, KeyRows, disk
  <2>2. CASE \E t \in Tables : db' = Touched(t)
    BY <2>2, TouchedStep
  <2> QED
    BY <2>1, <2>2
<1>2. TypeOK'
  BY <1>1 DEF TypeOK, KeyRows
<1>3. AllOnDisk' = AllOnDisk
  BY DEF AllOnDisk
<1>4. MasterKept'
  <2>1. AllOnDisk => Of("config") = disk
    BY DEF AllOnDisk, Of, disk, Tables
  <2> QED
    BY <1>1, <1>3, <2>1 DEF MasterKept
<1>5. TablesTogether' /\ NamesFree' /\ KeysOpen' /\ KeysSurvive'
  BY <1>1, <1>3 DEF TablesTogether, NamesFree, KeysOpen, KeysSurvive, disk
<1> QED
  BY <1>2, <1>4, <1>5

\* Every row that the disk's master key opens has a master key.
LEMMA RowsHaveMaster ==
    ASSUME StoreInv, NEW row \in disk.rows \ stray
    PROVE  row[2] = disk.master /\ disk.master # 0
BY DEF StoreInv, TypeOK, KeysOpen, disk, Places, Databases, KeyRows

\* A master key, new or in memory, is saved under a password.
LEMMA SaveInv ==
    ASSUME StoreInv, NoKeys, NEW pwd \in Passwords, Has("config"),
           made' \in 0..MaxMasters, made' >= made, NEW m \in 1..made',
           m = store.master \/ Of("config").master = 0,
           store' = [password |-> pwd, master |-> m], out' \in Outcomes,
           db' = [db EXCEPT ![place["config"]].master = m, ![place["config"]].password = pwd]
    PROVE  StoreInv'
<1> USE DEF StoreInv, NoKeys
<1> DEFINE p == place["config"]
           d == [db[p] EXCEPT !.master = m, !.password = pwd]
<1>1. /\ p \in Places /\ db[p] \in Databases /\ WellFormed(db[p])
      /\ "config" \in db[p].tables /\ db[p].tables # {}
      /\ made \in Nat /\ made' \in Nat
  BY DEF TypeOK, Tables, Has, Of
<1>2. KeyRows \subseteq KeyRows'
  BY <1>1 DEF KeyRows
<1>3. /\ d \in Databases' /\ WellFormed(d)
      /\ d.tables = db[p].tables /\ d.rows = db[p].rows /\ d.master = m
  <2>1. m \in 0..made' /\ pwd \in Passwords \cup {NoPassword}
    BY <1>1
  <2>2. PICK e \in Databases : e = db[p]
    BY <1>1
  <2>3. d = [e EXCEPT !.master = m, !.password = pwd]
    BY <2>2
  <2>4. /\ d \in [file : BOOLEAN, tables : SUBSET Tables, master : 0..made',
                   password : Passwords \cup {NoPassword}, rows : SUBSET KeyRows]
        /\ d.tables = e.tables /\ d.rows = e.rows /\ d.file = e.file
        /\ d.master = m /\ d.password = pwd
    BY <2>1, <2>3 DEF Databases
  <2>5. d \in Databases'
    BY <1>2, <2>4 DEF Databases
  <2>6. WellFormed(d)
    BY <1>1, <2>2, <2>4, PasswordAssumption DEF WellFormed
  <2> QED
    BY <2>2, <2>4, <2>5, <2>6
<1>4. db' = [db EXCEPT ![p] = d]
  OBVIOUS
<1> HIDE DEF d
<1>5. /\ db' \in [Places -> Databases'] /\ \A q \in Places : WellFormed(db'[q])
      /\ db'[p] = d /\ \A q \in Places \ {p} : db'[q] = db[q]
  BY <1>1, <1>3, <1>4, DbStep
<1>6. TypeOK'
  <2>1. store' \in [password : Passwords \cup {NoPassword}, master : 0..made']
    BY <1>1
  <2>2. aside' \in [0..MaxNow -> SUBSET KeyRows'] /\ kept' \subseteq KeyRows' /\ stray' \subseteq KeyRows'
    BY <1>2 DEF TypeOK
  <2> QED
    BY <1>5, <2>1, <2>2 DEF TypeOK
<1>7. AllOnDisk' = AllOnDisk
  BY DEF AllOnDisk
<1>8. /\ disk'.tables = disk.tables /\ disk'.rows = disk.rows
      /\ disk'.master = IF p = "disk" THEN m ELSE disk.master
  BY <1>3, <1>5 DEF disk, Places
<1>9. p = "disk" => AllOnDisk /\ Of("config") = disk
  BY <1>1 DEF TablesTogether, Of, disk
<1>10. AllOnDisk => p = "disk"
  BY DEF AllOnDisk, Tables
<1>11. MasterKept'
  BY <1>7, <1>8, <1>10 DEF MasterKept
<1>12. KeysOpen'
  <2>1. SUFFICES ASSUME NEW row \in disk.rows \ stray
                 PROVE  row[2] = disk'.master
    BY <1>8 DEF KeysOpen, disk
  <2>2. row[2] = disk.master /\ disk.master # 0
    BY RowsHaveMaster
  <2>3. CASE p = "disk"
    <3>1. m = store.master /\ m # 0
      BY <1>9, <2>2, <2>3
    <3> QED
      BY <1>8, <1>9, <2>2, <2>3, <3>1 DEF MasterKept
  <2> QED
    BY <1>8, <2>2, <2>3
<1>13. TablesTogether' /\ NamesFree' /\ KeysSurvive'
  BY <1>7, <1>8 DEF TablesTogether, NamesFree, KeysSurvive, disk
<1> QED
  BY <1>6, <1>11, <1>12, <1>13

LEMMA UnlockInv ==
    ASSUME StoreInv, NEW pwd \in Passwords, Unlock(pwd)
    PROVE  StoreInv'
<1> USE DEF StoreInv, Unlock
<1>1. /\ store \in [password : Passwords \cup {NoPassword}, master : 0..made]
      /\ made \in Nat /\ MaxMasters \in Nat /\ made \in 0..MaxMasters
      /\ Of("config").master \in 0..made
  BY StorageAssumption DEF TypeOK, Of, Tables, Databases
<1>2. CASE ~Has("config")
  <2>1. /\ store' = [store EXCEPT !.password = pwd] /\ out' = "SQLError"
        /\ db' = Touched("config") /\ UNCHANGED made /\ NoKeys
    BY <1>2
  <2>2. /\ store' \in [password : Passwords \cup {NoPassword}, master : 0..made]
        /\ store'.master = store.master
    BY <1>1, <2>1
  <2> QED
    BY <2>1, <2>2, QuietInv DEF Outcomes, Tables
<1>3. CASE Has("config") /\ Of("config").master # 0
  <2>1. UNCHANGED <<db, made>> /\ NoKeys /\ out' \in {"ok", "WrongMasterPassword"}
    BY <1>3
  <2>2. /\ store' \in [password : Passwords \cup {NoPassword}, master : 0..made]
        /\ store'.master = store.master \/ store'.master = Of("config").master
    BY <1>1, <1>3
  <2> QED
    BY <2>1, <2>2, QuietInv DEF Outcomes
<1>4. CASE Has("config") /\ Of("config").master = 0
  <2>1. /\ made' = made + 1 /\ made < MaxMasters /\ out' = "ok" /\ NoKeys
        /\ store' = [password |-> pwd, master |-> made']
        /\ db' = [db EXCEPT ![place["config"]].master = made',
                            ![place["config"]].password = pwd]
    BY <1>4
  <2>2. made' \in 0..MaxMasters /\ made' >= made /\ made' \in 1..made' /\ out' \in Outcomes
    BY <1>1, <2>1 DEF Outcomes
  <2> QED
    BY <1>4, <2>1, <2>2, SaveInv
<1> QED
  BY <1>2, <1>3, <1>4

\* The other calls that change nothing but the password in memory.
LEMMA PasswordInv ==
    ASSUME StoreInv, NEW pwd, Lock \/ (pwd \in Passwords /\ (NewWallet(pwd) \/ ChangePassword(pwd)))
    PROVE  StoreInv'
<1>1. /\ store \in [password : Passwords \cup {NoPassword}, master : 0..made]
      /\ made \in 0..MaxMasters /\ MaxMasters \in Nat /\ made \in Nat
  BY StorageAssumption DEF StoreInv, TypeOK
<1>2. ASSUME Refused(out'), out' \in Outcomes, NoKeys, db' = db \/ \E t \in Tables : db' = Touched(t)
      PROVE  StoreInv'
  BY <1>1, <1>2, QuietInv DEF Refused
<1>3. CASE pwd \in Passwords /\ NewWallet(pwd)
  <2>1. CASE Unlock(pwd)
    BY <1>3, <2>1, UnlockInv
  <2>2. CASE /\ Refused(out') /\ out' \in Outcomes /\ NoKeys
             /\ db' = db \/ \E t \in Tables : db' = Touched(t)
    BY <1>2, <2>2
  <2> QED
    BY <1>3, <2>1, <2>2 DEF NewWallet, Refused, Outcomes, Tables
<1>4. CASE Lock
  <2>1. /\ store' \in [password : Passwords \cup {NoPassword}, master : 0..made]
        /\ store'.master = 0 /\ out' = "ok" /\ UNCHANGED <<db, made>> /\ NoKeys
    BY <1>1, <1>4 DEF Lock
  <2> QED
    BY <2>1, QuietInv DEF Outcomes
<1>5. CASE pwd \in Passwords /\ ChangePassword(pwd)
  <2>1. CASE Locked
    BY <1>2, <1>5, <2>1 DEF ChangePassword, Refused, LockedError, Outcomes
  <2>2. CASE ~Locked /\ store.master # 0 /\ Has("config")
    <3>1. /\ store' = [store EXCEPT !.password = pwd] /\ UNCHANGED made /\ NoKeys /\ out' = "ok"
          /\ db' = [db EXCEPT ![place["config"]].master = store.master,
                              ![place["config"]].password = pwd]
      BY <1>5, <2>2 DEF ChangePassword
    <3>2. /\ store' = [password |-> pwd, master |-> store.master]
          /\ store.master \in 1..made'
          /\ made' \in 0..MaxMasters /\ made' >= made
      BY <1>1, <2>2, <3>1
    <3> QED
      BY <1>5, <2>2, <3>1, <3>2, SaveInv DEF Outcomes
  <2>3. CASE ~Locked /\ ~(store.master # 0 /\ Has("config"))
    <3>1. /\ store' = [store EXCEPT !.password = pwd] /\ UNCHANGED made /\ NoKeys
          /\ out' \in {"NoMaster", "SQLError"} /\ (db' = db \/ db' = Touched("config"))
      BY <1>5, <2>3 DEF ChangePassword
    <3>2. /\ store' \in [password : Passwords \cup {NoPassword}, master : 0..made]
          /\ store'.master = store.master
      BY <1>1, <1>5, <3>1
    <3>3. out' \in Outcomes /\ (db' = db \/ \E t \in Tables : db' = Touched(t))
      BY <3>1 DEF Outcomes, Tables
    <3> QED
      BY <3>1, <3>2, <3>3, QuietInv
  <2> QED
    BY <2>1, <2>2, <2>3
<1> QED
  BY <1>3, <1>4, <1>5

LEMMA GetInv ==
    ASSUME StoreInv, NEW pub, Get(pub)
    PROVE  StoreInv'
<1>1. store \in [password : Passwords \cup {NoPassword}, master : 0..made]
  BY DEF StoreInv, TypeOK
<1>2. /\ out' \in Outcomes /\ UNCHANGED <<store, made>> /\ NoKeys
      /\ db' = db \/ db' = Touched("keys")
  BY DEF Get, Refused, LockedError, Outcomes
<1> QED
  BY <1>1, <1>2, QuietInv DEF Tables

\* The rows of a key store change; the master keys do not.
LEMMA RowsStep ==
    ASSUME StoreInv, UNCHANGED <<place, aside, store, now, made>>, out' \in Outcomes,
           Has("keys"), NEW rows \in SUBSET KeyRows,
           db' = [db EXCEPT ![place["keys"]].rows = rows],
           kept' \subseteq KeyRows, stray' \subseteq KeyRows
    PROVE  /\ TypeOK' /\ TablesTogether' /\ MasterKept' /\ NamesFree'
           /\ disk'.master = disk.master
           /\ disk'.rows = IF place["keys"] = "disk" THEN rows ELSE disk.rows
           /\ place["keys"] = "disk" => AllOnDisk
<1> USE DEF StoreInv
<1> DEFINE p == place["keys"]
<1>1. p \in Places /\ "keys" \in db[p].tables /\ Databases' = Databases /\ KeyRows' = KeyRows
  BY DEF TypeOK, Tables, Has, Of, Databases, KeyRows
<1>2. PICK e \in Databases : e = db[p] /\ WellFormed(e)
  BY <1>1 DEF TypeOK
<1> DEFINE d == [e EXCEPT !.rows = rows]
<1>3. /\ d \in Databases /\ WellFormed(d)
      /\ d.tables = e.tables /\ d.master = e.master /\ d.rows = rows
  BY <1>1, <1>2 DEF Databases, WellFormed
<1>4. db' = [db EXCEPT ![p] = d]
  BY <1>2
<1> HIDE DEF d
<1>5. made' \in 0..MaxMasters /\ made' >= made
  BY DEF TypeOK
<1>6. /\ db' \in [Places -> Databases'] /\ \A q \in Places : WellFormed(db'[q])
      /\ db'[p] = d /\ \A q \in Places \ {p} : db'[q] = db[q]
  BY <1>1, <1>3, <1>4, <1>5, DbStep
<1>7. TypeOK'
  BY <1>1, <1>6 DEF TypeOK
<1>8. /\ disk'.tables = disk.tables /\ disk'.master = disk.master
      /\ disk'.rows = IF p = "disk" THEN rows ELSE disk.rows
  BY <1>2, <1>3, <1>6 DEF disk, Places
<1>9. p = "disk" => AllOnDisk
  BY <1>1 DEF TablesTogether, disk
<1>10. TablesTogether' /\ MasterKept' /\ NamesFree'
  BY <1>8 DEF TablesTogether, MasterKept, NamesFree, AllOnDisk
<1> QED
  BY <1>7, <1>8, <1>9, <1>10

\* A key is added under the master key in memory, which is the disk's unless that was wiped.
LEMMA AddInv ==
    ASSUME StoreInv, NEW pub \in Pubs, Add(pub)
    PROVE  StoreInv'
<1> USE DEF StoreInv
<1> DEFINE row == <<pub, store.master>>
           onDisk == IF place["keys"] = "disk" THEN {row} ELSE {}
<1>1. CASE /\ out' \in Outcomes /\ UNCHANGED <<store, made>> /\ NoKeys
           /\ db' = db \/ db' = Touched("keys")
  <2>1. store \in [password : Passwords \cup {NoPassword}, master : 0..made]
    BY DEF TypeOK
  <2> QED
    BY <1>1, <2>1, QuietInv DEF Tables
<1>2. CASE /\ Has("keys") /\ store.master # 0 /\ out' = "ok"
           /\ db' = [db EXCEPT ![place["keys"]].rows = @ \cup {row}]
           /\ kept' = kept \cup onDisk
           /\ stray' = stray \cup (IF db["disk"].master = 0 THEN onDisk ELSE {})
           /\ UNCHANGED <<place, aside, store, now, made>>
  <2> DEFINE rows == Rows \cup {row}
  <2>1. row \in KeyRows /\ Rows \subseteq KeyRows
    <3>1. store.master \in 1..made
      BY <1>2 DEF TypeOK
    <3> QED
      BY <3>1 DEF KeyRows, Rows, Of, TypeOK, Tables, Databases
  <2>2. rows \in SUBSET KeyRows /\ onDisk \in SUBSET KeyRows
    BY <2>1
  <2>3. kept' \subseteq KeyRows /\ stray' \subseteq KeyRows
    BY <1>2, <2>2 DEF TypeOK
  <2>4. db' = [db EXCEPT ![place["keys"]].rows = rows]
    BY <1>2 DEF Rows, Of
  <2> HIDE DEF rows
  <2>5. out' \in Outcomes
    BY <1>2 DEF Outcomes
  <2>6. /\ TypeOK' /\ TablesTogether' /\ MasterKept' /\ NamesFree'
        /\ disk'.master = disk.master
        /\ disk'.rows = IF place["keys"] = "disk" THEN rows ELSE disk.rows
        /\ place["keys"] = "disk" => AllOnDisk
    BY <1>2, <2>2, <2>3, <2>4, <2>5, RowsStep
  <2>7. place["keys"] = "disk" => rows = disk.rows \cup {row}
    BY DEF rows, Rows, Of, disk
  <2>8. KeysOpen'
    <3>1. SUFFICES ASSUME NEW r \in disk'.rows \ stray' PROVE r[2] = disk.master
      BY <2>6 DEF KeysOpen, disk
    <3>2. CASE r \in disk.rows
      BY <1>2, <3>1, <3>2, RowsHaveMaster
    <3>3. CASE r \notin disk.rows
      <4>1. place["keys"] = "disk" /\ r = row
        BY <2>6, <2>7, <3>1, <3>3
      <4>2. AllOnDisk /\ disk.master # 0
        BY <1>2, <2>6, <3>1, <4>1 DEF disk
      <4> QED
        BY <1>2, <4>1, <4>2 DEF MasterKept
    <3> QED
      BY <3>2, <3>3
  <2>9. KeysSurvive'
    BY <1>2, <2>6, <2>7 DEF KeysSurvive, disk
  <2> QED
    BY <2>6, <2>8, <2>9
<1> QED
  BY <1>1, <1>2 DEF Add, Refused, LockedError, Outcomes

LEMMA RemoveInv ==
    ASSUME StoreInv, NEW pub \in Pubs, Remove(pub)
    PROVE  StoreInv'
<1> USE DEF StoreInv
<1>1. CASE ~Has("keys")
  <2>1. /\ out' = "SQLError" /\ UNCHANGED <<store, made>> /\ NoKeys /\ db' = Touched("keys")
    BY <1>1 DEF Remove, Refused, NoKeys
  <2>2. store \in [password : Passwords \cup {NoPassword}, master : 0..made]
    BY DEF TypeOK
  <2> QED
    BY <2>1, <2>2, QuietInv DEF Outcomes, Tables
<1>2. CASE Has("keys")
  <2> DEFINE gone == {pub} \X (1..made)
             rows == Rows \ gone
  <2>1. /\ out' = "ok" /\ UNCHANGED <<place, aside, store, now, made, stray>>
        /\ kept' = IF place["keys"] = "disk" THEN kept \ gone ELSE kept
        /\ db' = [db EXCEPT ![place["keys"]].rows = rows]
    BY <1>2 DEF Remove, Refused, Without, Rows, Of
  <2>2. rows \in SUBSET KeyRows
    BY DEF KeyRows, Rows, Of, TypeOK, Tables, Databases
  <2>3. kept' \subseteq KeyRows /\ stray' \subseteq KeyRows /\ out' \in Outcomes
    BY <2>1 DEF TypeOK, Outcomes
  <2>4. place["keys"] = "disk" => rows = disk.rows \ gone
    BY DEF Rows, Of, disk
  <2> HIDE DEF rows, gone
  <2>5. /\ TypeOK' /\ TablesTogether' /\ MasterKept' /\ NamesFree'
        /\ disk'.master = disk.master
        /\ disk'.rows = IF place["keys"] = "disk" THEN rows ELSE disk.rows
    BY <1>2, <2>1, <2>2, <2>3, RowsStep
  <2>6. KeysOpen' /\ KeysSurvive'
    BY <2>1, <2>4, <2>5 DEF KeysOpen, KeysSurvive, disk
  <2> QED
    BY <2>5, <2>6
<1> QED
  BY <1>1, <1>2

\* A wipe leaves no key on the disk, unless the key store has gone to memory: then the disk
\* had none.
LEMMA WipeInv ==
    ASSUME StoreInv, Wipe
    PROVE  StoreInv'
<1> USE DEF StoreInv
<1>1. CASE ~Has("keys") /\ Refused("SQLError") /\ db' = Touched("keys") /\ NoKeys
  <2>1. /\ store \in [password : Passwords \cup {NoPassword}, master : 0..made]
        /\ store' = store /\ made' = made /\ out' = "SQLError"
    BY <1>1 DEF TypeOK, Refused
  <2> QED
    BY <1>1, <2>1, QuietInv DEF Outcomes, Tables
<1>2. CASE ~(~Has("keys") /\ Refused("SQLError") /\ db' = Touched("keys") /\ NoKeys)
  <2> DEFINE p == place["keys"]
             q == place["config"]
             wiped == [db EXCEPT ![p].rows = {}]
  <2>1. /\ Has("keys") /\ out' \in Outcomes /\ UNCHANGED <<place, aside, now, store, made>>
        /\ db' = IF Has("config") THEN WipedMaster(wiped)
                 ELSE [wiped EXCEPT ![q].file = TRUE]
        /\ kept' = IF p = "disk" THEN kept \ db["disk"].rows ELSE kept
        /\ stray' = stray \cup db'["disk"].rows
    BY <1>2 DEF Wipe, Refused, Outcomes
  <2>2. /\ p \in Places /\ q \in Places /\ "keys" \in db[p].tables
        /\ Databases' = Databases /\ KeyRows' = KeyRows
    BY <2>1 DEF TypeOK, Tables, Has, Of, Databases, KeyRows
  <2>3. PICK e \in Databases : e = db[p] /\ WellFormed(e)
    BY <2>2 DEF TypeOK
  <2> DEFINE d == [e EXCEPT !.rows = {}]
  <2>4. /\ d \in Databases /\ WellFormed(d)
        /\ d.tables = e.tables /\ d.master = e.master /\ d.rows = {}
    BY <2>3 DEF Databases, WellFormed
  <2>5. wiped = [db EXCEPT ![p] = d]
    BY <2>3
  <2> HIDE DEF d
  <2>6. /\ wiped \in [Places -> Databases] /\ \A r \in Places : WellFormed(wiped[r])
        /\ wiped[p] = d /\ \A r \in Places \ {p} : wiped[r] = db[r]
    BY ZenonT(60), <2>2, <2>4, <2>5 DEF TypeOK
  <2> HIDE DEF wiped
  <2>7. PICK f \in Databases : f = wiped[q] /\ WellFormed(f)
    BY <2>2, <2>6
  <2>8. PICK g \in Databases :
          /\ db' = [wiped EXCEPT ![q] = g] /\ WellFormed(g)
          /\ g.tables = f.tables /\ g.rows = f.rows /\ g.master \in {0, f.master}
    <3>1. CASE Has("config")
      <4> DEFINE g == [f EXCEPT !.master = 0, !.password = NoPassword]
      <4>1. 0 \in 0..made
        BY StorageAssumption DEF TypeOK
      <4>2. /\ g \in Databases /\ WellFormed(g)
            /\ g.tables = f.tables /\ g.rows = f.rows /\ g.master = 0
        BY <2>7, <4>1 DEF Databases, WellFormed
      <4>3. db' = [wiped EXCEPT ![q] = g]
        BY <2>1, <2>7, <3>1 DEF WipedMaster
      <4> HIDE DEF g
      <4> QED
        BY <4>2, <4>3
    <3>2. CASE ~Has("config")
      <4> DEFINE g == [f EXCEPT !.file = TRUE]
      <4>1. /\ g \in Databases /\ WellFormed(g)
            /\ g.tables = f.tables /\ g.rows = f.rows /\ g.master = f.master
        BY <2>7 DEF Databases, WellFormed
      <4>2. db' = [wiped EXCEPT ![q] = g]
        BY <2>1, <2>7, <3>2
      <4> HIDE DEF g
      <4> QED
        BY <4>1, <4>2
    <3> QED
      BY <3>1, <3>2
  <2>9. /\ db' \in [Places -> Databases'] /\ \A r \in Places : WellFormed(db'[r])
        /\ db'[q] = g /\ \A r \in Places \ {q} : db'[r] = wiped[r]
    BY <2>2, <2>6, <2>8
  <2>10. /\ disk'.tables = disk.tables /\ disk'.master \in {0, disk.master}
         /\ disk'.rows = IF p = "disk" THEN {} ELSE disk.rows
    BY <2>2, <2>3, <2>4, <2>6, <2>7, <2>8, <2>9 DEF disk, Places
  <2>11. p # "disk" => disk.rows = {}
    BY DEF TablesTogether, AllOnDisk, Tables, TypeOK, WellFormed, Places, disk
  <2>12. disk'.rows = {}
    BY <2>10, <2>11
  <2>13. TypeOK'
    <3>1. stray' \subseteq KeyRows /\ kept' \subseteq KeyRows
      BY <2>1, <2>12 DEF disk, TypeOK
    <3> QED
      BY <2>1, <2>2, <2>9, <3>1 DEF TypeOK
  <2>14. TablesTogether' /\ MasterKept' /\ NamesFree' /\ KeysOpen'
    BY <2>1, <2>10, <2>12 DEF TablesTogether, MasterKept, NamesFree, AllOnDisk, KeysOpen, disk
  <2>15. KeysSurvive'
    BY <2>1, <2>11, <2>12 DEF KeysSurvive, disk
  <2> QED
    BY <2>13, <2>14, <2>15
<1> QED
  BY <1>1, <1>2

-----------------------------------------------------------------------------
\* Storage errors and restarts

\* A file is moved aside, with the keys that are on the disk.
LEMMA AsideStep ==
    ASSUME StoreInv, MovesAside, NEW d \in Delays, now + d <= MaxNow, now' = now + d,
           aside' = [aside EXCEPT ![now'] = disk.rows] \/ (aside' = aside /\ disk.rows = {}),
           UNCHANGED <<made, kept>>
    PROVE  /\ aside' \in [0..MaxNow -> SUBSET KeyRows'] /\ now' \in 0..MaxNow
           /\ NamesFree' /\ kept' \subseteq UNION {aside'[n] : n \in 0..MaxNow}
<1> USE DEF StoreInv
<1>1. /\ now \in 0..MaxNow /\ d \in Nat \ {0} /\ MaxNow \in Nat
      /\ disk.rows \in SUBSET KeyRows /\ KeyRows' = KeyRows
  BY StorageAssumption DEF MovesAside, TypeOK, disk, Places, Databases, KeyRows
<1>2. now' \in 0..MaxNow /\ now' > now
  BY <1>1
<1>3. aside[now'] = {}
  BY <1>2 DEF NamesFree
<1>4. aside' \in [0..MaxNow -> SUBSET KeyRows]
  BY <1>1, <1>2 DEF TypeOK
<1>5. NamesFree'
  <2>1. SUFFICES ASSUME NEW n \in 0..MaxNow, n > now' PROVE aside'[n] = {}
    BY DEF NamesFree
  <2>2. n > now /\ n # now'
    BY <1>1, <1>2, <2>1
  <2> QED
    BY <1>2, <2>2 DEF NamesFree, TypeOK
<1>6. ASSUME NEW row \in kept PROVE \E n \in 0..MaxNow : row \in aside'[n]
  <2>1. CASE row \in disk.rows
    BY <1>2, <1>4, <2>1 DEF TypeOK
  <2>2. CASE row \notin disk.rows
    <3>1. PICK n \in 0..MaxNow : row \in aside[n]
      BY <2>2 DEF KeysSurvive, disk
    <3>2. n # now'
      BY <1>3, <3>1
    <3> QED
      BY <1>2, <3>1, <3>2 DEF TypeOK
  <2> QED
    BY <2>1, <2>2
<1> QED
  BY <1>1, <1>2, <1>4, <1>5, <1>6

\* Without a file on the disk everything is as it must be, when an object is in memory.
LEMMA EmptyDisk ==
    ASSUME TypeOK', disk' = Empty, ~AllOnDisk', NamesFree',
           kept' \subseteq UNION {aside'[n] : n \in 0..MaxNow}
    PROVE  StoreInv'
<1>1. disk'.tables = {} /\ disk'.rows = {}
  BY DEF Empty
<1>2. TablesTogether' /\ MasterKept' /\ KeysOpen'
  BY <1>1 DEF TablesTogether, MasterKept, KeysOpen, disk
<1>3. KeysSurvive'
  BY DEF KeysSurvive
<1> QED
  BY <1>2, <1>3 DEF StoreInv

LEMMA EmptyIsWellFormed == MaxMasters \in Nat /\ (made \in Nat => Empty \in Databases /\ WellFormed(Empty))
BY StorageAssumption DEF Empty, Databases, WellFormed

\* A database without a file has no rows.
LEMMA NoFileNoRows == ASSUME TypeOK, ~disk.file PROVE disk.rows = {}
BY DEF TypeOK, WellFormed, disk, Places

LEMMA FallbackInv ==
    ASSUME StoreInv, MovesAside, NEW t \in Tables, NEW touched \in BOOLEAN, NEW renamed \in Renames,
           Fallback(t, touched, renamed)
    PROVE  StoreInv'
<1>1. renamed = TRUE
  BY StorageAssumption DEF MovesAside
<1>2. PICK d \in Delays : now + d <= MaxNow /\ now' = now + d
  BY DEF Fallback
<1>3. /\ aside' = [aside EXCEPT ![now'] = disk.rows] \/ (aside' = aside /\ ~disk.file)
      /\ place' = [place EXCEPT ![t] = "memory"]
      /\ UNCHANGED <<store, made, out, kept, stray>>
      /\ db' = [p \in Places |-> IF p = "memory" THEN WithTables(db[p], {t}) ELSE Empty]
  BY <1>1 DEF Fallback, disk
<1>4. /\ aside' \in [0..MaxNow -> SUBSET KeyRows'] /\ now' \in 0..MaxNow
      /\ NamesFree' /\ kept' \subseteq UNION {aside'[n] : n \in 0..MaxNow}
  <2>1. ~disk.file => disk.rows = {}
    BY NoFileNoRows DEF StoreInv
  <2> QED
    BY <1>2, <1>3, <2>1, AsideStep
<1>5. /\ WithTables(db["memory"], {t}) \in Databases /\ WellFormed(WithTables(db["memory"], {t}))
      /\ Empty \in Databases /\ WellFormed(Empty) /\ Databases' = Databases /\ KeyRows' = KeyRows
  <2>1. db["memory"] \in Databases /\ WellFormed(db["memory"]) /\ made \in Nat
    BY DEF StoreInv, TypeOK, Places
  <2> QED
    BY <1>3, <2>1, WithTablesStep, EmptyIsWellFormed DEF Databases, KeyRows
<1>6. TypeOK'
  <2>1. db' \in [Places -> Databases'] /\ \A p \in Places : WellFormed(db'[p])
    BY <1>3, <1>5
  <2>2. place' \in [Tables -> Places]
    BY <1>3 DEF StoreInv, TypeOK, Places
  <2> QED
    BY <1>3, <1>4, <1>5, <2>1, <2>2 DEF TypeOK, StoreInv
<1>7. disk' = Empty /\ ~AllOnDisk'
  BY <1>3 DEF disk, AllOnDisk, Places, StoreInv, TypeOK
<1> QED
  BY <1>4, <1>6, <1>7, EmptyDisk

LEMMA RestartInMemoryInv ==
    ASSUME StoreInv, MovesAside, NEW renamed \in Renames, RestartInMemory(renamed)
    PROVE  StoreInv'
<1>1. renamed = TRUE
  BY StorageAssumption DEF MovesAside
<1>2. PICK d \in Delays : now + d <= MaxNow /\ now' = now + d
  BY DEF RestartInMemory
<1>3. /\ aside' = [aside EXCEPT ![now'] = disk.rows]
      /\ place' = [t \in Tables |-> "memory"]
      /\ store' = [password |-> NoPassword, master |-> 0] /\ out' = "none"
      /\ UNCHANGED <<made, kept, stray>>
      /\ db' = [p \in Places |-> IF p = "memory" THEN WithTables(Empty, Tables) ELSE Empty]
  BY <1>1 DEF RestartInMemory, disk
<1>4. /\ aside' \in [0..MaxNow -> SUBSET KeyRows'] /\ now' \in 0..MaxNow
      /\ NamesFree' /\ kept' \subseteq UNION {aside'[n] : n \in 0..MaxNow}
  BY <1>2, <1>3, AsideStep
<1>5. made \in Nat /\ made \in 0..MaxMasters
  BY EmptyIsWellFormed DEF StoreInv, TypeOK
<1>6. /\ WithTables(Empty, Tables) \in Databases /\ WellFormed(WithTables(Empty, Tables))
      /\ Empty \in Databases /\ WellFormed(Empty) /\ Databases' = Databases /\ KeyRows' = KeyRows
  BY <1>3, <1>5, WithTablesStep, EmptyIsWellFormed DEF Databases, KeyRows
<1>7. TypeOK'
  <2>1. db' \in [Places -> Databases'] /\ \A p \in Places : WellFormed(db'[p])
    BY <1>3, <1>6
  <2>2. place' \in [Tables -> Places]
    BY <1>3 DEF Places
  <2>3. store' \in [password : Passwords \cup {NoPassword}, master : 0..made']
    BY <1>3, <1>5
  <2> QED
    BY <1>3, <1>4, <1>6, <2>1, <2>2, <2>3 DEF TypeOK, StoreInv, Outcomes
<1>8. disk' = Empty /\ ~AllOnDisk'
  BY <1>3 DEF disk, AllOnDisk, Places, Tables
<1> QED
  BY <1>4, <1>7, <1>8, EmptyDisk

LEMMA RestartInv ==
    ASSUME StoreInv, Restart
    PROVE  StoreInv'
<1> USE DEF StoreInv
<1>1. /\ place' = [t \in Tables |-> "disk"]
      /\ db' = [p \in Places |-> IF p = "memory" THEN Empty ELSE WithTables(db[p], Tables)]
      /\ store' = [password |-> NoPassword, master |-> 0] /\ out' = "none"
      /\ UNCHANGED <<aside, now, made, kept, stray>>
  BY DEF Restart
<1>2. /\ disk \in Databases /\ WellFormed(disk) /\ made \in Nat
      /\ disk.tables \subseteq Tables
  BY DEF TypeOK, disk, Places, Databases
<1>3. /\ WithTables(disk, Tables) \in Databases /\ WellFormed(WithTables(disk, Tables))
      /\ WithTables(disk, Tables).tables = Tables
      /\ WithTables(disk, Tables).rows = disk.rows
      /\ WithTables(disk, Tables).master = disk.master
  BY <1>2, WithTablesStep
<1>4. Empty \in Databases /\ WellFormed(Empty) /\ Databases' = Databases /\ KeyRows' = KeyRows
  BY <1>1, <1>2, EmptyIsWellFormed DEF Databases, KeyRows
<1>5. disk' = WithTables(disk, Tables) /\ AllOnDisk'
  BY <1>1 DEF disk, AllOnDisk, Places
<1>6. TypeOK'
  <2>1. db' \in [Places -> Databases'] /\ \A p \in Places : WellFormed(db'[p])
    BY <1>1, <1>3, <1>4 DEF Places, disk
  <2>2. place' \in [Tables -> Places]
    BY <1>1 DEF Places
  <2>3. store' \in [password : Passwords \cup {NoPassword}, master : 0..made']
    BY <1>1, <1>2
  <2> QED
    BY <1>1, <1>4, <2>1, <2>2, <2>3 DEF TypeOK, Outcomes
<1>7. TablesTogether' /\ MasterKept' /\ NamesFree' /\ KeysOpen' /\ KeysSurvive'
  BY <1>1, <1>3, <1>5 DEF TablesTogether, MasterKept, NamesFree, KeysOpen, KeysSurvive, disk
<1> QED
  BY <1>6, <1>7

LEMMA StoreNext ==
    ASSUME StoreInv, MovesAside, [Next]_vars
    PROVE  StoreInv'
<1>1. ASSUME NEW pwd \in Passwords, Unlock(pwd) \/ NewWallet(pwd) \/ ChangePassword(pwd)
      PROVE  StoreInv'
  BY <1>1, UnlockInv, PasswordInv
<1>2. CASE Lock
  BY <1>2, PasswordInv
<1>3. ASSUME NEW pub \in Pubs, Add(pub) \/ Get(pub) \/ Remove(pub)
      PROVE  StoreInv'
  BY <1>3, AddInv, GetInv, RemoveInv
<1>4. CASE Wipe \/ Restart
  BY <1>4, WipeInv, RestartInv
<1>5. ASSUME NEW renamed \in Renames,
             \/ \E t \in Tables, touched \in BOOLEAN : Fallback(t, touched, renamed)
             \/ RestartInMemory(renamed)
      PROVE  StoreInv'
  BY <1>5, FallbackInv, RestartInMemoryInv
<1>6. CASE UNCHANGED vars
  BY <1>6 DEF vars, StoreInv, TypeOK, Databases, KeyRows, TablesTogether, MasterKept, NamesFree,
              KeysOpen, KeysSurvive, AllOnDisk, disk
<1> QED
  BY <1>1, <1>2, <1>3, <1>4, <1>5, <1>6 DEF Next

-----------------------------------------------------------------------------

THEOREM StoreInvariant == ASSUME MovesAside PROVE Spec => []StoreInv
<1>1. Init => StoreInv
  BY StoreInit
<1>2. StoreInv /\ [Next]_vars => StoreInv'
  BY StoreNext
<1> QED
  BY <1>1, <1>2, PTL DEF Spec

\* The databases are well formed, and every key and file is one that was made.
THEOREM StoreTypeCorrect == ASSUME MovesAside PROVE Spec => []TypeOK
<1>1. StoreInv => TypeOK
  BY DEF StoreInv
<1> QED
  BY <1>1, StoreInvariant, PTL

\* However unlocks, changes of the password, wipes, storage errors and restarts interleave,
\* the password opens every key on the disk, but for those added to a wiped store.
THEOREM KeysOnDiskOpen == ASSUME MovesAside PROVE Spec => []KeysOpen
<1>1. StoreInv => KeysOpen
  BY DEF StoreInv
<1> QED
  BY <1>1, StoreInvariant, PTL

\* The unlocked store reads the keys it sees, since its master key is the disk's.
THEOREM UnlockedStoreReads == ASSUME MovesAside PROVE Spec => []UnlockedReads
<1>1. StoreInv => UnlockedReads
  <2>1. SUFFICES ASSUME StoreInv, store.master # 0, place["keys"] = "disk", NEW row \in Rows \ stray
                 PROVE  row[2] = store.master
    BY DEF UnlockedReads
  <2>2. Rows = disk.rows
    BY <2>1 DEF Rows, Of, disk
  <2>3. row[2] = disk.master /\ disk.master # 0
    BY <2>1, <2>2, RowsHaveMaster
  <2>4. AllOnDisk
    BY <2>1, <2>2 DEF StoreInv, TypeOK, TablesTogether, WellFormed, Places, disk
  <2> QED
    BY <2>1, <2>3, <2>4 DEF StoreInv, MasterKept
<1> QED
  BY <1>1, StoreInvariant, PTL

\* No storage error loses a key: it is on the disk, or in a file that was moved aside.
THEOREM StorageErrorsKeepKeys == ASSUME MovesAside PROVE Spec => []KeysSurvive
<1>1. StoreInv => KeysSurvive
  BY DEF StoreInv
<1> QED
  BY <1>1, StoreInvariant, PTL
=============================================================================
